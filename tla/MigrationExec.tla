---------------------------- MODULE MigrationExec ----------------------------
(***************************************************************************)
(* The migration executor (migrations/executor.py) and recorder           *)
(* (migrations/recorder.py) running migrate / revert_to calls, one at a   *)
(* time as the CLI does, against a knowledge-graph store.                  *)
(*                                                                         *)
(* The migrations on disk are a chain of ModelStates that makemigrations *)
(* appends to: migration i carries detect_changes(state i-1, state i) and *)
(* embeds state i (state 0 is empty).  Their names sort as their numbers, *)
(* so a migration is named by its number.  Every CLI command is its own   *)
(* process: makemigrations may run while a migrate or revert is under way,*)
(* which works on the list load_migrations returned when it started.      *)
(*                                                                         *)
(* Every kg.execute is one step.  The server's answer to a command it     *)
(* rejects is an "error" row that Connection._read_result returns as an   *)
(* ordinary result, so a rejected command does not raise.  A transport    *)
(* failure raises out of the call, either before the command reached the  *)
(* server or after it ran there (the reply is lost).                       *)
(***************************************************************************)
EXTENDS MigrationOps, FiniteSets

CONSTANTS
    States,          \* ModelStates makemigrations may snapshot
    MaxMigrations,   \* bound: migrations makemigrations may write
    MaxFailures,     \* bound on transport failures in a behaviour
    StrictRefs,      \* the store rejects an index or clause naming a missing relation
    None             \* no target / an absent migration name

ASSUME MaxMigrations \in Nat \ {0} /\ MaxFailures \in Nat /\ StrictRefs \in BOOLEAN

Mig == 1 .. MaxMigrations

VARIABLES
    chain,      \* chain[i]: the state embedded in migration file i
    store,      \* the KG: rels name -> cols, rules name -> set of clauses, idx
    recorded,   \* names in __inputlayer_migrations__
    pc,         \* where the running call is
    call,       \* the running call: [kind, target, n], n migrations loaded
    applied,    \* set(recorder.get_applied()) read at the start of the call
    i,          \* migrate: index of the loop over migrations
    todo,       \* revert_to: migrations still to revert, in order
    cmds,       \* commands of the current migration not yet executed
    names,      \* applied_names / reverted_names built so far
    last,       \* the outcome of the last call that ended
    failures    \* transport failures so far

vars == <<chain, store, recorded, pc, call, applied, i, todo, cmds, names, last, failures>>

\* load_migrations: the migration files, sorted by number.
Loaded == 1 .. Len(chain)

\* get_latest_state: the state the newest migration embeds.
LatestState == IF chain = <<>> THEN EmptyState ELSE chain[Len(chain)]

\* get_next_number
NextNumber == Len(chain) + 1

Ops(m) == DetectChanges(IF m = 1 THEN EmptyState ELSE chain[m - 1], chain[m])

(***************************************************************************)
(* The store's reaction to one command.  A command it rejects (dropping   *)
(* something absent, a conflicting schema, an index that exists, and with *)
(* StrictRefs a reference to a missing relation) leaves it unchanged.     *)
(***************************************************************************)
Put(f, k, v) == [x \in DOMAIN f \cup {k} |-> IF x = k THEN v ELSE f[x]]
Del(f, k) == [x \in DOMAIN f \ {k} |-> f[x]]

Exec(s, c) ==
    CASE c.cmd = "schema" ->
            IF c.name \in DOMAIN s.rels THEN s
            ELSE [s EXCEPT !.rels = Put(s.rels, c.name, c.cols)]
      [] c.cmd = "reldrop" -> [s EXCEPT !.rels = Del(s.rels, c.name)]
      [] c.cmd = "clause" ->
            IF StrictRefs /\ ~(ClauseRefs[c.clause] \subseteq DOMAIN s.rels) THEN s
            ELSE [s EXCEPT !.rules = Put(s.rules, c.name,
                      (IF c.name \in DOMAIN s.rules THEN s.rules[c.name] ELSE {})
                        \cup {c.clause})]
      [] c.cmd = "ruledrop" -> [s EXCEPT !.rules = Del(s.rules, c.name)]
      [] c.cmd = "idxcreate" ->
            IF \/ c.name \in DOMAIN s.idx
               \/ StrictRefs /\ c.info.relation \notin DOMAIN s.rels
            THEN s
            ELSE [s EXCEPT !.idx = Put(s.idx, c.name, c.info)]
      [] c.cmd = "idxdrop" -> [s EXCEPT !.idx = Del(s.idx, c.name)]

(***************************************************************************)
(* The executor.                                                           *)
(***************************************************************************)

\* apply_migration: every forward command of every operation, in order.
ApplyCmds(m) == LET o == Ops(m) IN FlattenSeq([j \in DOMAIN o |-> Forward(o[j])])

\* revert_migration: every backward command, operations in reverse order.
RevertCmds(m) == LET o == Reverse(Ops(m)) IN FlattenSeq([j \in DOMAIN o |-> Backward(o[j])])

\* Mutant: the migrations after target are reverted oldest first.
ToRevertForward(t, n, app) == SelectSeq([j \in 1 .. n - t |-> t + j],
                                     LAMBDA m : m \in app)

\* Mutant: the revert slice starts at the target (migrations[target_idx:]).
ToRevertFromTarget(t, n, app) == SelectSeq(Reverse([j \in 1 .. n - t + 1 |-> t + j - 1]),
                                        LAMBDA m : m \in app)

\* revert_to's to_revert: the applied migrations after target, newest first.
ToRevert(t, n, app) == SelectSeq(Reverse([j \in 1 .. n - t |-> t + j]),
                              LAMBDA m : m \in app)


\* migrate's loop body runs for m only if m is not in the applied snapshot.
Pending(m) == m \notin applied

Return(ok) ==
    /\ pc' = "idle"
    /\ last' = call @@ [ok |-> ok, names |-> names]

\* makemigrations: snapshot the models (a state of States); stop with "No
\* models found" when there are none and with "No changes detected." when
\* detect_changes against the latest state is empty; otherwise write
\* migration get_next_number() embedding the new state.
MakeMigrations ==
    /\ \E models \in States :
         /\ models # EmptyState
         /\ DetectChanges(LatestState, models) # <<>>
         /\ NextNumber <= MaxMigrations
         /\ chain' = Append(chain, models)
    /\ UNCHANGED <<store, recorded, pc, call, applied, i, todo, cmds, names, last, failures>>

\* A CLI invocation starts: migrate(target) or revert_to(target) over the
\* migrations loaded now (migrate prints "No migrations found." and stops
\* when there are none).  Its first command is recorder.ensure_schema().
StartMigrate ==
    /\ pc = "idle" /\ chain # <<>>
    /\ \E t \in Loaded \cup {None} : call' = [kind |-> "migrate", target |-> t, n |-> Len(chain)]
    /\ pc' = "ensure"
    /\ names' = <<>>
    /\ UNCHANGED <<chain, store, recorded, applied, i, todo, cmds, last, failures>>

StartRevert ==
    /\ pc = "idle"
    /\ \E t \in Loaded \cup {None} : call' = [kind |-> "revert", target |-> t, n |-> Len(chain)]
    /\ pc' = "ensure"
    /\ names' = <<>>
    /\ UNCHANGED <<chain, store, recorded, applied, i, todo, cmds, last, failures>>

\* showmigrations: ensure_schema and get_applied, then one line per loaded
\* migration, marked [X] when its name is in the applied set.
StartShow ==
    /\ pc = "idle" /\ chain # <<>>
    /\ call' = [kind |-> "show", target |-> None, n |-> Len(chain)]
    /\ pc' = "ensure"
    /\ names' = <<>>
    /\ UNCHANGED <<chain, store, recorded, applied, i, todo, cmds, last, failures>>

\* ensure_schema: "+__inputlayer_migrations__(name: string, applied_at: string)".
EnsureSchema ==
    /\ pc = "ensure"
    /\ pc' = "read"
    /\ UNCHANGED <<chain, store, recorded, call, applied, i, todo, cmds, names, last, failures>>

\* applied = set(get_applied()); revert_to then looks the target up and
\* raises MigrationError if it is absent.
GetApplied ==
    /\ pc = "read"
    /\ applied' = recorded
    /\ CASE call.kind = "migrate" ->
              pc' = "next" /\ i' = 1 /\ UNCHANGED <<todo, last>>
         [] call.kind = "show" ->
              /\ pc' = "idle" /\ UNCHANGED <<i, todo>>
              /\ last' = call @@ [ok |-> TRUE,
                                  names |-> SelectSeq([m \in 1 .. call.n |-> m],
                                                      LAMBDA m : m \in recorded)]
         [] call.target = None -> Return(FALSE) /\ UNCHANGED <<i, todo>>
         [] OTHER ->
              pc' = "next" /\ todo' = ToRevert(call.target, call.n, recorded)
              /\ UNCHANGED <<i, last>>
    /\ UNCHANGED <<chain, store, recorded, call, cmds, names, failures>>

\* migrate's loop head: skip what is applied, break at the target (before
\* applying it), otherwise run apply_migration.
MigrateNext ==
    /\ pc = "next" /\ call.kind = "migrate"
    /\ CASE i > call.n -> Return(TRUE) /\ UNCHANGED <<i, cmds>>
         [] ~Pending(i) -> i' = i + 1 /\ UNCHANGED <<pc, last, cmds>>
         [] call.target = i -> Return(TRUE) /\ UNCHANGED <<i, cmds>>
         [] OTHER -> pc' = "exec" /\ cmds' = ApplyCmds(i) /\ UNCHANGED <<i, last>>
    /\ UNCHANGED <<chain, store, recorded, call, applied, todo, names, failures>>

\* revert_to's loop head: revert_migration of the next one, or return.
RevertNext ==
    /\ pc = "next" /\ call.kind = "revert"
    /\ IF todo = <<>>
       THEN Return(TRUE) /\ UNCHANGED cmds
       ELSE pc' = "exec" /\ cmds' = RevertCmds(Head(todo)) /\ UNCHANGED last
    /\ UNCHANGED <<chain, store, recorded, call, applied, i, todo, names, failures>>

\* kg.execute(cmd) of the current migration's next command.
ExecCmd ==
    /\ pc = "exec"
    /\ IF cmds = <<>>
       THEN pc' = "record" /\ UNCHANGED <<store, cmds>>
       ELSE store' = Exec(store, Head(cmds)) /\ cmds' = Tail(cmds) /\ UNCHANGED pc
    /\ UNCHANGED <<chain, recorded, call, applied, i, todo, names, last, failures>>

\* Mutant: the migration is recorded but applied_names.append is dropped.
RecordAppliedUnlisted ==
    /\ pc = "record" /\ call.kind = "migrate"
    /\ recorded' = recorded \cup {i}
    /\ IF call.target = i
       THEN /\ pc' = "idle"
            /\ last' = call @@ [ok |-> TRUE, names |-> names]
       ELSE pc' = "next" /\ UNCHANGED last
    /\ i' = i + 1
    /\ UNCHANGED <<chain, store, call, applied, todo, cmds, names, failures>>

\* recorder.record_applied(m.name), applied_names.append, and migrate's
\* second target check.
RecordApplied ==
    /\ pc = "record" /\ call.kind = "migrate"
    /\ recorded' = recorded \cup {i}
    /\ names' = Append(names, i)
    /\ IF call.target = i
       THEN /\ pc' = "idle"
            /\ last' = call @@ [ok |-> TRUE, names |-> names']
       ELSE pc' = "next" /\ UNCHANGED last
    /\ i' = i + 1
    /\ UNCHANGED <<chain, store, call, applied, todo, cmds, failures>>

\* recorder.record_reverted(m.name) and reverted_names.append.
RecordReverted ==
    /\ pc = "record" /\ call.kind = "revert"
    /\ recorded' = recorded \ {Head(todo)}
    /\ names' = Append(names, Head(todo))
    /\ todo' = Tail(todo)
    /\ pc' = "next"
    /\ UNCHANGED <<chain, store, call, applied, i, cmds, last, failures>>

\* A transport failure on the current kg.execute: the exception leaves the
\* call.  Lost reply: the command ran on the server first.
CommandStep == pc \in {"ensure", "read", "record"} \/ (pc = "exec" /\ cmds # <<>>)

TransportFailure ==
    /\ CommandStep /\ failures < MaxFailures
    /\ \/ UNCHANGED <<store, recorded>>
       \/ /\ pc = "exec" /\ cmds # <<>>
          /\ store' = Exec(store, Head(cmds)) /\ UNCHANGED recorded
       \/ /\ pc = "record"
          /\ recorded' = IF call.kind = "migrate" THEN recorded \cup {i}
                         ELSE recorded \ {Head(todo)}
          /\ UNCHANGED store
    /\ failures' = failures + 1
    /\ Return(FALSE)
    /\ UNCHANGED <<chain, call, applied, i, todo, cmds, names>>

Init ==
    /\ chain = <<>>
    /\ store = EmptyState
    /\ recorded = {}
    /\ pc = "idle"
    /\ call = [kind |-> "migrate", target |-> None, n |-> 0]
    /\ applied = {}
    /\ i = 1
    /\ todo = <<>>
    /\ cmds = <<>>
    /\ names = <<>>
    /\ last = [kind |-> "none", target |-> None, n |-> 0, ok |-> TRUE, names |-> <<>>]
    /\ failures = 0

Next ==
    \/ MakeMigrations \/ StartMigrate \/ StartRevert \/ StartShow
    \/ EnsureSchema \/ GetApplied
    \/ MigrateNext \/ RevertNext
    \/ ExecCmd \/ RecordApplied \/ RecordReverted
    \/ TransportFailure

Spec == Init /\ [][Next]_vars

-----------------------------------------------------------------------------
(***************************************************************************)
(* Properties.                                                             *)
(***************************************************************************)

\* What the store holds once a ModelState is deployed: rules as clause sets.
Deployed(st) == [st EXCEPT !.rules = [n \in DOMAIN st.rules |-> Range(st.rules[n])]]

Top == IF recorded = {} THEN 0 ELSE CHOOSE m \in recorded : \A x \in recorded : x <= m

TypeOK ==
    /\ recorded \subseteq Mig
    /\ pc \in {"idle", "ensure", "read", "next", "exec", "record"}
    /\ chain \in Seq(States) /\ Len(chain) <= MaxMigrations
    /\ call.kind \in {"migrate", "revert", "show"} /\ call.target \in Mig \cup {None}
    /\ call.n \in 0 .. Len(chain)
    /\ applied \subseteq Mig
    /\ i \in 1 .. MaxMigrations + 1
    /\ todo \in Seq(Mig) /\ names \in Seq(Mig)
    /\ failures \in 0 .. MaxFailures
    /\ DOMAIN store.rels \subseteq Rels /\ DOMAIN store.idx \subseteq IdxNames

\* The recorder always lists a prefix 1..k of the migrations, whatever
\* calls ran and wherever a transport failure cut one short: migrate
\* applies the oldest unapplied migration next and revert_to reverts the
\* newest applied one first, recording each right after its commands.
RecordedIsPrefix == recorded = 1 .. Top

\* Between calls, if no transport failure has cut a call short, the store
\* holds exactly the schema of the newest recorded migration (nothing
\* when none is recorded): apply_migration's forward commands and
\* revert_migration's backward commands, in their orders, move the store
\* along the chain of states makemigrations snapshotted.
StoreMatchesRecorded ==
    pc = "idle" /\ failures = 0 =>
        store = IF Top = 0 THEN EmptyState ELSE Deployed(chain[Top])

\* Spec 8.10 and 5 (idempotence): a migrate call without a target that
\* returns normally has applied, oldest first, exactly the migrations its
\* get_applied snapshot lacked, and every migration is now recorded.
MigrateAppliesPending ==
    /\ pc = "idle" /\ last.kind = "migrate" /\ last.ok /\ last.target = None
    => /\ last.names = SelectSeq([m \in 1 .. last.n |-> m], LAMBDA m : m \notin applied)
       /\ recorded = 1 .. last.n

\* Spec 4.13: a revert_to(t) call that returns normally has reverted,
\* newest first, the applied migrations strictly after t and nothing else:
\* the recorder lists exactly the snapshot's migrations up to t.
RevertToLandsOnTarget ==
    /\ pc = "idle" /\ last.kind = "revert" /\ last.ok
    => /\ recorded = applied \cap 1 .. last.target
       /\ last.names = SelectSeq(Reverse([m \in Mig |-> m]),
                                 LAMBDA m : m \in applied /\ m > last.target)
=============================================================================
