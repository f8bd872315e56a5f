------------------------------ MODULE Connection ------------------------------
(***************************************************************************)
(* The client's WebSocket connection (connection.py, class Connection)    *)
(* and its notification dispatcher (notifications.py), as three actors    *)
(* that asyncio interleaves at their awaits:                               *)
(*   - the caller coroutine: connect, execute (_read_result), close;      *)
(*   - the _receive_loop task a connect starts, which also runs           *)
(*     _reconnect when its socket fails;                                   *)
(*   - the server, which answers each execute in order on the socket it   *)
(*     came on, broadcasts notifications to every open socket, replays     *)
(*     those after last_seq on a connect that passes it, and may close a  *)
(*     socket cleanly or with an error.                                    *)
(*                                                                         *)
(* A socket follows the websockets asyncio contract the code is written   *)
(* against: at most one coroutine may be inside recv() (the iteration of  *)
(* `async for` included); a second one gets ConcurrencyError at once.     *)
(* Buffered messages are still delivered after the socket closed; then    *)
(* recv raises ConnectionClosedOK or ConnectionClosedError, and `async     *)
(* for` ends quietly on the former.  A coroutine that handles a message   *)
(* without an await and calls recv again never lets go of the socket in  *)
(* between, so the receive loop keeps it from its first recv on.          *)
(***************************************************************************)
EXTENDS Naturals, Sequences, FiniteSets

CONSTANTS
    AutoReconnect,  \* Connection(auto_reconnect=...)
    MaxAttempts,    \* max_reconnect_attempts
    MaxSockets,     \* bound: sockets opened in a behaviour
    MaxCmds,        \* bound: execute calls in a behaviour
    MaxNotifs,      \* bound: notifications the server emits
    MaxDrops,       \* bound: sockets the server closes
    MaxPings,       \* bound: ping calls in a behaviour
    None            \* model value: Python's None

ASSUME AutoReconnect \in BOOLEAN /\ MaxAttempts \in Nat \ {0}
ASSUME {MaxSockets, MaxCmds, MaxNotifs, MaxDrops, MaxPings} \subseteq Nat

Sockets == 1 .. MaxSockets
Result(k) == [kind |-> "result", id |-> k]   \* result or error reply to execute k
Notif(n)  == [kind |-> "notif", seq |-> n]
Auth      == [kind |-> "auth"]               \* AuthenticatedResponse
Pong      == [kind |-> "pong"]               \* PongResponse
Msg == {Result(k) : k \in 1 .. MaxCmds} \cup {Notif(n) : n \in 1 .. MaxNotifs} \cup {Auth, Pong}
Raised(e) == [kind |-> e]                    \* execute raised e ("none": not yet)
Closed == {"closedOK", "closedErr"}

VARIABLES
    ws,          \* self._ws: the current socket (0: None)
    nsock,       \* sockets opened so far
    sock,        \* each socket: "none", "opening" (not authenticated yet), "open",
                 \* "closedOK", "closedErr"
    inbox,       \* messages the server sent on a socket, not yet received
    reader,      \* who is inside recv() on a socket: "none", "caller", "loop"
    pending,     \* execute ids (0: a ping) the server has yet to answer on a socket
    connected,   \* self._connected
    resumeSeq,   \* self._last_seq: passed to connect as ?last_seq= (None)
    loop,        \* the _receive_loop task: [pc, s (its socket), attempts]
    caller,      \* the caller: [pc, cmd, on (socket it reads), out]
    nextCmd,     \* next execute id
    nextSeq,     \* next notification seq the server emits
    drops,       \* sockets the server closed
    lastSeq,     \* dispatcher._last_seq
    dispatched,  \* history: seqs passed to dispatch, in order (= the queue)
    stolen,      \* history: execute ids whose reply the receive loop discarded
    since,       \* history: the first seq the server emitted after the
                 \* user's last connect()
    pinged       \* ping calls so far

vars == <<ws, nsock, sock, inbox, reader, pending, connected, resumeSeq, loop,
          caller, nextCmd, nextSeq, drops, lastSeq, dispatched, stolen, since, pinged>>

-----------------------------------------------------------------------------
(* Helpers.                                                                *)

\* Notifications a connect with last_seq L asks the server to replay.
Replay(L) == IF L = None THEN <<>>
             ELSE [j \in 1 .. (nextSeq - 1 - L) |-> Notif(L + j)]

\* websockets.connect + _authenticate on a fresh socket g; self._ws = g.
OpenSocket(g, L) ==
    /\ sock' = [sock EXCEPT ![g] = "open"]
    /\ inbox' = [inbox EXCEPT ![g] = Replay(L)]
    /\ ws' = g
    /\ nsock' = g

\* NotificationDispatcher.dispatch: last_seq = max(last_seq, seq), then the
\* event is put on the (unbounded) queue; callbacks are left out.
Dispatch(n) ==
    /\ lastSeq' = IF n > lastSeq THEN n ELSE lastSeq
    /\ dispatched' = Append(dispatched, n)

-----------------------------------------------------------------------------
(* The caller.                                                             *)

\* connect(): a new socket with ?last_seq= when self._last_seq is set,
\* authenticated; _connected = True and a new _receive_loop task.
Connect ==
    /\ caller.pc = "idle" /\ ws = 0 /\ nsock < MaxSockets
    /\ OpenSocket(nsock + 1, resumeSeq)
    /\ connected' = TRUE
    /\ loop' = [pc |-> "start", s |-> nsock + 1, attempts |-> 0]
    /\ since' = nextSeq
    /\ UNCHANGED <<reader, pending, resumeSeq, caller, nextCmd, nextSeq, drops,
                   lastSeq, dispatched, stolen, pinged>>

\* execute(program): "Not connected" check, then ws.send.
ExecSend ==
    /\ caller.pc = "idle" /\ nextCmd <= MaxCmds
    /\ nextCmd' = nextCmd + 1
    /\ IF ~connected \/ ws = 0
       THEN caller' = [caller EXCEPT !.cmd = nextCmd, !.out = Raised("notconn")]
            /\ UNCHANGED pending
       ELSE IF sock[ws] # "open"
       THEN caller' = [caller EXCEPT !.cmd = nextCmd, !.out = Raised("closed")]
            /\ UNCHANGED pending
       ELSE /\ pending' = [pending EXCEPT ![ws] = Append(@, nextCmd)]
            /\ caller' = [pc |-> "recv", cmd |-> nextCmd, on |-> 0, out |-> Raised("none")]
    /\ UNCHANGED <<ws, nsock, sock, inbox, reader, connected, resumeSeq, loop,
                   nextSeq, drops, lastSeq, dispatched, stolen, since, pinged>>

\* _read_result: `await self._ws.recv()` on whatever self._ws is now.
CallerRecv ==
    /\ caller.pc = "recv"
    /\ IF reader[ws] = "loop"
       THEN /\ caller' = [caller EXCEPT !.pc = "idle", !.out = Raised("concurrency")]
            /\ UNCHANGED reader
       ELSE /\ reader' = [reader EXCEPT ![ws] = "caller"]
            /\ caller' = [caller EXCEPT !.pc = "wait", !.on = ws]
    /\ UNCHANGED <<ws, nsock, sock, inbox, pending, connected, resumeSeq, loop,
                   nextCmd, nextSeq, drops, lastSeq, dispatched, stolen, since, pinged>>

\* Mutant: a notification is returned from _read_result as the result.
CallerDeliverNoSkip ==
    LET s == caller.on  m == Head(inbox[s]) IN
    /\ caller.pc = "wait" /\ inbox[s] # <<>>
    /\ inbox' = [inbox EXCEPT ![s] = Tail(@)]
    /\ reader' = [reader EXCEPT ![s] = "none"]
    /\ caller' = [caller EXCEPT !.pc = "idle", !.out = m]
    /\ UNCHANGED <<lastSeq, dispatched>>
    /\ UNCHANGED <<ws, nsock, sock, pending, connected, resumeSeq, loop, nextCmd,
                   nextSeq, drops, stolen, since, pinged>>

\* _read_result gets a message: a notification is dispatched, a pong
\* skipped, and the loop calls self._ws.recv() again (on the socket
\* self._ws is now); a result or an error (returned as an "error" result)
\* ends execute; any other message, an AuthenticatedResponse here, raises
\* InternalError.
CallerDeliver ==
    LET s == caller.on  m == Head(inbox[s])
        r1 == [reader EXCEPT ![s] = "none"] IN
    /\ caller.pc = "wait" /\ inbox[s] # <<>>
    /\ inbox' = [inbox EXCEPT ![s] = Tail(@)]
    /\ IF m.kind \in {"notif", "pong"}
       THEN /\ IF m.kind = "notif" THEN Dispatch(m.seq) ELSE UNCHANGED <<lastSeq, dispatched>>
            /\ IF r1[ws] = "loop"
               THEN reader' = r1 /\ caller' = [caller EXCEPT !.pc = "idle", !.out = Raised("concurrency")]
               ELSE reader' = [r1 EXCEPT ![ws] = "caller"] /\ caller' = [caller EXCEPT !.on = ws]
       ELSE /\ reader' = r1
            /\ caller' = [caller EXCEPT !.pc = "idle",
                                         !.out = IF m = Auth THEN Raised("internal") ELSE m]
            /\ UNCHANGED <<lastSeq, dispatched>>
    /\ UNCHANGED <<ws, nsock, sock, pending, connected, resumeSeq, loop, nextCmd,
                   nextSeq, drops, stolen, since, pinged>>

\* recv on a closed socket with nothing buffered raises out of execute.
CallerClosed ==
    /\ caller.pc = "wait" /\ inbox[caller.on] = <<>> /\ sock[caller.on] \in Closed
    /\ reader' = [reader EXCEPT ![caller.on] = "none"]
    /\ caller' = [caller EXCEPT !.pc = "idle", !.out = Raised("closed")]
    /\ UNCHANGED <<ws, nsock, sock, inbox, pending, connected, resumeSeq, loop,
                   nextCmd, nextSeq, drops, lastSeq, dispatched, stolen, since, pinged>>

\* ping(): "Not connected" when self._ws is None, else ws.send(Ping); the
\* send raises on a closed socket.  _connected is not looked at, and the
\* pong comes back on self._ws to whoever reads it next.
Ping ==
    /\ caller.pc = "idle" /\ pinged < MaxPings
    /\ pinged' = pinged + 1
    /\ IF ws # 0 /\ sock[ws] \in {"open", "opening"}
       THEN pending' = [pending EXCEPT ![ws] = Append(@, 0)] /\ UNCHANGED caller
       ELSE /\ caller' = [caller EXCEPT !.out = Raised(IF ws = 0 THEN "notconn" ELSE "closed")]
            /\ UNCHANGED pending
    /\ UNCHANGED <<ws, nsock, sock, inbox, reader, connected, resumeSeq, loop,
                   nextCmd, nextSeq, drops, lastSeq, dispatched, stolen, since>>

\* close(): _connected = False, cancel and await the receive task (its
\* recv, its backoff sleep or the connect of its reconnect raises
\* CancelledError, which _reconnect does not catch), close self._ws,
\* self._ws = None.
Close ==
    /\ caller.pc = "idle" /\ ws # 0
    /\ connected' = FALSE
    /\ loop' = IF loop.pc \in {"start", "recv", "backoff", "authsend", "authrecv", "authwait"}
               THEN [loop EXCEPT !.pc = "done"] ELSE loop
    /\ reader' = IF loop.pc \in {"recv", "authwait"}
                 THEN [reader EXCEPT ![loop.s] = "none"] ELSE reader
    /\ sock' = IF sock[ws] \in {"open", "opening"} THEN [sock EXCEPT ![ws] = "closedOK"] ELSE sock
    /\ pending' = [pending EXCEPT ![ws] = <<>>]
    /\ ws' = 0
    /\ UNCHANGED <<nsock, inbox, resumeSeq, caller, nextCmd, nextSeq, drops,
                   lastSeq, dispatched, stolen, since, pinged>>

-----------------------------------------------------------------------------
(* The _receive_loop task.                                                 *)

\* `async for` raised: _connected = False, then _reconnect or the task ends.
LoopFails ==
    /\ connected' = FALSE
    /\ loop' = [loop EXCEPT !.pc = IF AutoReconnect THEN "backoff" ELSE "done",
                            !.attempts = 0]

\* The task's first step: `async for raw in self._ws` calls recv, which
\* raises ConcurrencyError when execute is already inside recv.
LoopStart ==
    /\ loop.pc = "start"
    /\ IF reader[loop.s] = "caller"
       THEN LoopFails /\ UNCHANGED reader
       ELSE /\ reader' = [reader EXCEPT ![loop.s] = "loop"]
            /\ loop' = [loop EXCEPT !.pc = "recv"]
            /\ UNCHANGED connected
    /\ UNCHANGED <<ws, nsock, sock, inbox, pending, resumeSeq, caller, nextCmd,
                   nextSeq, drops, lastSeq, dispatched, stolen, since, pinged>>

\* A message reaches the loop: a notification is dispatched, anything else
\* (a result, an error, a pong, a stream frame) is dropped.
LoopDeliver ==
    LET m == Head(inbox[loop.s]) IN
    /\ loop.pc = "recv" /\ inbox[loop.s] # <<>>
    /\ inbox' = [inbox EXCEPT ![loop.s] = Tail(@)]
    /\ IF m.kind = "notif"
       THEN Dispatch(m.seq) /\ UNCHANGED stolen
       ELSE /\ stolen' = IF m.kind = "result" THEN Append(stolen, m.id) ELSE stolen
            /\ UNCHANGED <<lastSeq, dispatched>>
    /\ UNCHANGED <<ws, nsock, sock, reader, pending, connected, resumeSeq, loop,
                   caller, nextCmd, nextSeq, drops, since, pinged>>

\* The socket closed and its buffer is drained: `async for` ends quietly on
\* a clean close (the task returns, _connected stays True) and raises on
\* an error close.
LoopEnd ==
    LET s == loop.s IN
    /\ loop.pc = "recv" /\ inbox[s] = <<>> /\ sock[s] \in Closed
    /\ reader' = [reader EXCEPT ![s] = "none"]
    /\ IF sock[s] = "closedOK"
       THEN loop' = [loop EXCEPT !.pc = "done"] /\ UNCHANGED connected
       ELSE LoopFails
    /\ UNCHANGED <<ws, nsock, sock, inbox, pending, resumeSeq, caller, nextCmd,
                   nextSeq, drops, lastSeq, dispatched, stolen, since, pinged>>

\* One attempt of _reconnect after its sleep: self._last_seq is set from
\* the dispatcher and connect() opens a new socket, which becomes self._ws
\* at once; _authenticate has not sent yet.  The old socket is left as it
\* is.
ReconnectOpen ==
    /\ loop.pc = "backoff" /\ nsock < MaxSockets
    /\ resumeSeq' = lastSeq
    /\ sock' = [sock EXCEPT ![nsock + 1] = "opening"]
    /\ ws' = nsock + 1 /\ nsock' = nsock + 1
    /\ loop' = [loop EXCEPT !.pc = "authsend", !.s = nsock + 1]
    /\ UNCHANGED <<inbox, reader, pending, connected, caller, nextCmd, nextSeq,
                   drops, lastSeq, dispatched, stolen, since, pinged>>

\* The server's first messages on a new socket g that asked for last_seq L:
\* the answer to a ping the user sent on g before the auth message (a pong,
\* or nothing when the server ignores an unauthenticated ping), the
\* AuthenticatedResponse, then the notifications after L.
Greet(g, L) ==
    /\ \E early \in IF pending[g] = <<>> THEN {<<>>} ELSE {<<>>, <<Pong>>} :
          inbox' = [inbox EXCEPT ![g] = early \o <<Auth>> \o Replay(L)]
    /\ pending' = [pending EXCEPT ![g] = <<>>]

\* Mutant: connect tests `if self._last_seq:`, so last_seq 0 is not sent.
AuthSendTruthy ==
    /\ loop.pc = "authsend" /\ sock[loop.s] = "opening"
    /\ sock' = [sock EXCEPT ![loop.s] = "open"]
    /\ Greet(loop.s, IF resumeSeq = 0 THEN None ELSE resumeSeq)
    /\ loop' = [loop EXCEPT !.pc = "authrecv"]
    /\ UNCHANGED <<ws, nsock, reader, connected, resumeSeq, caller,
                   nextCmd, nextSeq, drops, lastSeq, dispatched, stolen, since, pinged>>

\* _authenticate sends its message; the server answers on the new socket
\* and then replays the notifications after the ?last_seq= it was given.
AuthSend ==
    /\ loop.pc = "authsend" /\ sock[loop.s] = "opening"
    /\ sock' = [sock EXCEPT ![loop.s] = "open"]
    /\ Greet(loop.s, resumeSeq)
    /\ loop' = [loop EXCEPT !.pc = "authrecv"]
    /\ UNCHANGED <<ws, nsock, reader, connected, resumeSeq, caller,
                   nextCmd, nextSeq, drops, lastSeq, dispatched, stolen, since, pinged>>

\* The attempt's connect() raised; after max_reconnect_attempts failures
\* _reconnect raises ConnectionError and the task ends.
AttemptFailed ==
    loop' = [loop EXCEPT !.attempts = @ + 1,
                         !.pc = IF loop.attempts + 1 = MaxAttempts THEN "done"
                                ELSE "backoff"]

\* _authenticate's recv: ConcurrencyError when an execute, moved to the new
\* socket by re-reading self._ws, is already inside recv there.
AuthRecv ==
    /\ loop.pc = "authrecv"
    /\ IF reader[loop.s] = "caller"
       THEN AttemptFailed /\ UNCHANGED reader
       ELSE /\ reader' = [reader EXCEPT ![loop.s] = "loop"]
            /\ loop' = [loop EXCEPT !.pc = "authwait"]
    /\ UNCHANGED <<ws, nsock, sock, inbox, pending, connected, resumeSeq, caller,
                   nextCmd, nextSeq, drops, lastSeq, dispatched, stolen, since, pinged>>

\* The reply arrives: an AuthenticatedResponse ends connect (_connected =
\* True, a new receive task); anything else raises AuthenticationError.
AuthDeliver ==
    LET g == loop.s  m == Head(inbox[g]) IN
    /\ loop.pc = "authwait" /\ inbox[g] # <<>>
    /\ inbox' = [inbox EXCEPT ![g] = Tail(@)]
    /\ reader' = [reader EXCEPT ![g] = "none"]
    /\ IF m = Auth
       THEN connected' = TRUE /\ loop' = [pc |-> "start", s |-> g, attempts |-> 0]
       ELSE AttemptFailed /\ UNCHANGED connected
    /\ UNCHANGED <<ws, nsock, sock, pending, resumeSeq, caller, nextCmd, nextSeq,
                   drops, lastSeq, dispatched, stolen, since, pinged>>

\* The new socket closed before the reply: send or recv raises.
AuthClosed ==
    /\ \/ loop.pc = "authsend"
       \/ loop.pc = "authwait" /\ inbox[loop.s] = <<>>
    /\ sock[loop.s] \in Closed
    /\ reader' = [reader EXCEPT ![loop.s] = "none"]
    /\ AttemptFailed
    /\ UNCHANGED <<ws, nsock, sock, inbox, pending, connected, resumeSeq, caller,
                   nextCmd, nextSeq, drops, lastSeq, dispatched, stolen, since, pinged>>

\* Mutant: one attempt too many, `range(max_reconnect_attempts + 1)`.
ReconnectFailExtra ==
    /\ loop.pc = "backoff"
    /\ resumeSeq' = lastSeq
    /\ loop' = [loop EXCEPT !.attempts = @ + 1,
                            !.pc = IF loop.attempts = MaxAttempts THEN "done"
                                   ELSE "backoff"]
    /\ UNCHANGED <<ws, nsock, sock, inbox, reader, pending, connected, caller,
                   nextCmd, nextSeq, drops, lastSeq, dispatched, stolen, since, pinged>>

\* websockets.connect itself raises (the server is unreachable): the
\* attempt fails before a socket exists.
ReconnectFail ==
    /\ loop.pc = "backoff"
    /\ resumeSeq' = lastSeq
    /\ loop' = [loop EXCEPT !.attempts = @ + 1,
                            !.pc = IF loop.attempts + 1 = MaxAttempts THEN "done"
                                   ELSE "backoff"]
    /\ UNCHANGED <<ws, nsock, sock, inbox, reader, pending, connected, caller,
                   nextCmd, nextSeq, drops, lastSeq, dispatched, stolen, since, pinged>>

-----------------------------------------------------------------------------
(* The server.                                                             *)

\* What the server answers to execute k, or to a ping (0).
Answer(k) == IF k = 0 THEN Pong ELSE Result(k)

\* The oldest unanswered execute or ping on socket s gets its answer.
ServerReply(s) ==
    /\ sock[s] = "open" /\ pending[s] # <<>>
    /\ inbox' = [inbox EXCEPT ![s] = Append(@, Answer(Head(pending[s])))]
    /\ pending' = [pending EXCEPT ![s] = Tail(@)]
    /\ UNCHANGED <<ws, nsock, sock, reader, connected, resumeSeq, loop, caller,
                   nextCmd, nextSeq, drops, lastSeq, dispatched, stolen, since, pinged>>

\* A notification with the next seq goes to every open socket.
ServerNotify ==
    /\ nextSeq <= MaxNotifs
    /\ inbox' = [g \in Sockets |-> IF sock[g] = "open"
                                   THEN Append(inbox[g], Notif(nextSeq))
                                   ELSE inbox[g]]
    /\ nextSeq' = nextSeq + 1
    /\ UNCHANGED <<ws, nsock, sock, reader, pending, connected, resumeSeq, loop,
                   caller, nextCmd, drops, lastSeq, dispatched, stolen, since, pinged>>

\* The server or the network closes socket s, cleanly (1000/1001) or not;
\* unanswered executes on it are never answered.
ServerDrop(s) ==
    /\ sock[s] \in {"open", "opening"} /\ drops < MaxDrops
    /\ \E how \in {"closedOK", "closedErr"} : sock' = [sock EXCEPT ![s] = how]
    /\ pending' = [pending EXCEPT ![s] = <<>>]
    /\ drops' = drops + 1
    /\ UNCHANGED <<ws, nsock, inbox, reader, connected, resumeSeq, loop, caller,
                   nextCmd, nextSeq, lastSeq, dispatched, stolen, since, pinged>>

-----------------------------------------------------------------------------

\* Connection(...) with last_seq=None, before connect().
Init ==
    /\ ws = 0 /\ nsock = 0
    /\ sock = [g \in Sockets |-> "none"]
    /\ inbox = [g \in Sockets |-> <<>>]
    /\ reader = [g \in Sockets |-> "none"]
    /\ pending = [g \in Sockets |-> <<>>]
    /\ connected = FALSE
    /\ resumeSeq = None
    /\ loop = [pc |-> "none", s |-> 0, attempts |-> 0]
    /\ caller = [pc |-> "idle", cmd |-> 0, on |-> 0, out |-> Raised("none")]
    /\ nextCmd = 1 /\ nextSeq = 1 /\ drops = 0
    /\ lastSeq = 0 /\ dispatched = <<>> /\ stolen = <<>> /\ since = 1 /\ pinged = 0

Reconnect == ReconnectOpen \/ ReconnectFail
Authenticate == AuthSend \/ AuthRecv \/ AuthDeliver \/ AuthClosed

Next ==
    \/ Connect \/ ExecSend \/ Ping \/ CallerRecv \/ CallerDeliver \/ CallerClosed \/ Close
    \/ LoopStart \/ LoopDeliver \/ LoopEnd \/ Reconnect \/ Authenticate
    \/ ServerNotify
    \/ \E s \in Sockets : ServerReply(s) \/ ServerDrop(s)

\* The event loop runs a coroutine whose await is satisfied (a message
\* buffered, a sleep over); the server answers every execute it received.
\* Nothing forces the user to call execute, connect or close.
Fairness ==
    /\ WF_vars(CallerRecv) /\ WF_vars(CallerDeliver) /\ WF_vars(CallerClosed)
    /\ WF_vars(LoopStart) /\ WF_vars(LoopDeliver) /\ WF_vars(LoopEnd)
    /\ WF_vars(Reconnect) /\ WF_vars(Authenticate)
    /\ \A s \in Sockets : WF_vars(ServerReply(s))

Spec == Init /\ [][Next]_vars /\ Fairness

-----------------------------------------------------------------------------
(* Properties.                                                             *)

Outcomes == {Raised(e) : e \in {"none", "notconn", "closed", "concurrency", "internal"}}
                \cup Msg

TypeOK ==
    /\ ws \in 0 .. MaxSockets /\ nsock \in 0 .. MaxSockets
    /\ sock \in [Sockets -> {"none", "opening", "open"} \cup Closed]
    /\ inbox \in [Sockets -> Seq(Msg)]
    /\ reader \in [Sockets -> {"none", "caller", "loop"}]
    /\ pending \in [Sockets -> Seq(0 .. MaxCmds)]
    /\ connected \in BOOLEAN
    /\ resumeSeq \in {None} \cup 0 .. MaxNotifs
    /\ loop \in [pc : {"none", "start", "recv", "backoff", "authsend", "authrecv",
                      "authwait", "done"},
                 s : 0 .. MaxSockets, attempts : 0 .. MaxAttempts]
    /\ caller \in [pc : {"idle", "recv", "wait"}, cmd : 0 .. MaxCmds,
                   on : 0 .. MaxSockets, out : Outcomes]
    /\ nextCmd \in 1 .. MaxCmds + 1 /\ nextSeq \in 1 .. MaxNotifs + 1
    /\ lastSeq \in 0 .. MaxNotifs
    /\ dispatched \in Seq(1 .. MaxNotifs) /\ stolen \in Seq(1 .. MaxCmds)
    /\ since \in 1 .. MaxNotifs + 1
    /\ pinged \in 0 .. MaxPings

\* What execute returns is the reply to the command it sent: _read_result
\* skips the notifications (and pongs) that come first, on whichever
\* socket, and after a reconnect, it reads.
ResultMatchesCommand ==
    caller.out \in Msg => caller.out = Result(caller.cmd)

\* A reconnect asks the server to replay only the notifications after the
\* dispatcher's last_seq.  So a notification that reached self._ws and is
\* at or below last_seq must already be dispatched, or still be buffered
\* on self._ws: no notification falls into the gap between what the
\* sockets delivered and what a reconnect asks for.
NoNotificationBelowLastSeqLost ==
    ws # 0 => \A n \in since .. lastSeq :
        \/ \E i \in 1 .. Len(dispatched) : dispatched[i] = n
        \/ ws # 0 /\ \E i \in 1 .. Len(inbox[ws]) : inbox[ws][i] = Notif(n)

\* A _reconnect that has begun ends: a new receive task runs or the task
\* gives up after max_reconnect_attempts.  Every await of an attempt can
\* fail, and every failure is counted, so this needs _authenticate's recv
\* to get the server's answer.
ReconnectSettles == loop.pc = "backoff" ~> loop.pc \in {"start", "done"}

\* An execute never fails because the receive loop is reading the socket
\* ("receives notifications when idle"): execute and the loop share one
\* socket, and websockets refuses a second concurrent recv.
NoConcurrentRecv == caller.out # Raised("concurrency")

\* Every execute that sent its command returns or raises.
ExecuteTerminates == caller.pc \in {"recv", "wait"} ~> caller.pc = "idle"

=============================================================================
