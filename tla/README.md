# TLA+ models of the InputLayer Python client

The models here cover the parts of `src/packages/inputlayer-py` that hold
state, where the order of steps matters, or where a recursive algorithm can be
checked against a reference definition:

- the Datalog compiler's variable environment (union-find);
- the compiler's where-condition lowering and OR splitting;
- the migration subsystem: autodetector, executor, recorder, loader and CLI;
- the WebSocket connection with its receive task, reconnects and
  notification dispatch;
- the client, knowledge-graph and session facades, and the server session's
  current knowledge graph they run in;
- `src/scripts/migrate_docs_syntax.py`, which rewrites the documentation from
  the old Datalog syntax to the new one.

Every definition is translated from the source. `PROJECT.json` gives, for each
definition, the file and lines it models. It also lists every run, the mutant
that each property must catch, the findings, and the hazards.

## 1. The system and its parts

| Part | Source | State | Operations |
|---|---|---|---|
| Variable environment | `compiler.py` `_VarEnv` | `_parent` (union-find), `_map` (root → variable), `_counter` | `_find`, `_union`, `get_var`, `unify`, `lookup` |
| Compile entry points | `compiler.py` `compile_query`, `compile_rule`, `compile_conditional_delete` | one fresh `_VarEnv` per call | env calls in a fixed order of phases |
| Expression and condition lowering | `compiler.py`, `aggregations.py`, `functions.py` | none beyond the env | pure text |
| Schema, insert and delete text, type registry, naming | `compiler.py`, `types.py`, `_naming.py`, `relation.py`, `derived.py` | none | pure text |
| ModelState | `migrations/state.py` | relations, rules, indexes | `from_models`, `to_dict`, `from_dict` |
| Operations | `migrations/operations.py` | immutable | `forward_commands`, `backward_commands` |
| Autodetector | `migrations/autodetector.py` | none | `detect_changes(old, new)`, nine ordered phases |
| Loader and writer | `migrations/loader.py`, `writer.py` | files `NNNN_name.py` | load sorted by number, next number, render |
| Recorder | `migrations/recorder.py` | the relation `__inputlayer_migrations__` in the store | `ensure_schema`, `get_applied`, `record_applied`, `record_reverted` |
| Executor | `migrations/executor.py` | the applied snapshot, loop position | `migrate`, `revert_to`, `apply_migration`, `revert_migration` |
| CLI | `migrations/cli.py` | none | `makemigrations`, `migrate`, `revert`, `showmigrations` |
| Connection | `connection.py`, `_protocol.py` | socket, `_connected`, receive task, `_last_seq`, current KG | `connect`, `execute`/`_read_result`, `_receive_loop`, `_reconnect`, `close` |
| Notifications | `notifications.py` | `_last_seq`, unbounded queue, callbacks | `dispatch`, iteration |
| Facades | `client.py`, `client_sync.py`, `knowledge_graph.py`, `session.py` | handles (`_kgs`) | build a command and call `Connection.execute` |
| Docs migration script | `scripts/migrate_docs_syntax.py` | the Markdown files; per file, the fence state `in_code_block`, `code_fence_lang`, `in_ebnf` | `main` (with `--dry-run`), `migrate_file`, `migrate_code_line`, `migrate_prose_line` and their string scanners |
| Server session (not in this repository) | — | the session's current KG, ephemeral session data | runs each command in the current KG; `.kg use` switches it |

How the parts interact:

- The compiler feeds the migration subsystem. `ModelState.from_models` compiles each derived relation's rules with `compile_rule`, and those clause strings are what `CreateRule` and `ReplaceRule` carry.
- The migration executor reaches the server only through `kg.execute`, which is `Connection.execute`.
- `Connection._read_result` turns a server `ErrorResponse` into an ordinary result with an `error` column. So a command the server rejects never raises inside the executor. Only a transport failure does.
- Every facade method sends its command text through the same `Connection.execute`. The server runs it in the session's current KG. The handle's own name is used only by the `.kg acl` commands. The receive task's `_reconnect` may run between two executes of one facade method, and it opens a session in `initial_kg` (or the server's default).
- `KnowledgeGraph.query` calls `compile_query`. With an `Or` in the where-condition, it gets one query per branch, executes them one after the other, and concatenates the rows.

## 2. Modules

| Module | Models | Composes |
|---|---|---|
| `VarClasses` | Abstract spec: the join classes of one compilation. They start as singletons, and `unify` merges two of them. | — |
| `VarEnv` | `_VarEnv` in full, plus the order in which the three entry points call it | refines `VarClasses` |
| `MC_VarEnv` | Keys, variable bases and column names for TLC | `VarEnv` |
| `MigrationOps` | ModelState, the seven operations and their command lists, and `detect_changes` as a pure operator | — |
| `MigrationExec` | `migrate`, `revert_to` and the recorder, one `kg.execute` per step, against a store, with transport failures | `MigrationOps` |
| `MC_Migration` | Four model states that together hit every `detect_changes` phase | `MigrationExec` |
| `Connection` | `Connection.connect`, `execute`/`_read_result`, `_receive_loop`, `_reconnect`, `close`, and `NotificationDispatcher.dispatch`. Three actors: the caller, the receive task and the server. | — |
| `MC_Connection` | Bounds for TLC | `Connection` |
| `OrSplit` | The where-condition step of `compile_query` (`_has_or`, `compile_or_branches`, `compile_bool_expr`, `_compile_comparison`), the bodies of the plain and the aggregate query, and `compile_rule`'s condition, as RECURSIVE operators over condition trees. A reference meaning (`Eval`) is included. | — |
| `KnowledgeGraphs` | `InputLayer.knowledge_graph`/`drop_knowledge_graph`/`list_knowledge_graphs`, the user and API-key commands, every `KnowledgeGraph` method group, `Session`, `KnowledgeGraphSync.session`, and the server session's current KG, with the receive task's reconnect | `OrSplit` |
| `MC_KnowledgeGraphs` | Two KG names, two leaf comparisons (one a join) | `KnowledgeGraphs` |
| `DocsSyntax` | `migrate_file`'s loop over the lines of a file, one action per branch, and invocations of the script with or without `--dry-run`. The line rewriting is a set of operators over lines held as character sequences. | — |
| `MC_DocsSyntax` | The files: a code block holding one line over a small alphabet, and prose lines | `DocsSyntax` |

### VarEnv

- **Variables.**
  - `parent` is `_parent`, made total: a key that is absent maps to itself.
  - `varmap` is `_map`, and `counter` is `_counter`.
  - `mode` and `phase` say which entry point is running and where it is.
  - `emitted` is a history of the `<<key, variable>>` pairs that have been written into the output text.
- **Union-find.** `Root` and `Halve` (RECURSIVE) are `_find`. `Halve` reproduces its exact rewrite: the key is re-pointed to its grandparent, and the walk continues from there.
- **Actions.** `GetVar`, `Unify` and `Lookup` are the whole method bodies, including the fresh-name rule against every value in `_map`. `_compile_comparison` and `_compile_in` call them; `_compile_in` also calls `get_var`, `unify` and `get_var` in that order.
- **Phases.** `Phases` gives each entry point its sequence of env-call phases:
  - query: where (unify, get_var), then head and order_by (get_var), then body atoms (lookup);
  - rule: join, then head, then body, then condition;
  - delete: a seeded env, then condition.
- **Entry and exit.** `Finish` ends a call and starts the next one with a fresh env. That includes the pre-seeded `X<i>` map of a conditional delete (`SeededMap`, `SeededText`).

### MigrationOps

- A ModelState is a record of functions: name → column list, name → clause sequence, and name → `[relation, params]`.
- Column lists, clauses and index parameters are model values. `ClauseRefs` gives the relations that a clause's body atoms read.
- A command is a record that names the textual command it stands for.
- `DetectChanges` runs the nine loops of `detect_changes` in order. Each loop goes over `sorted()` names, which is `NameOrder`.

### MigrationExec

- **Variables.**
  - `chain[m]` is the state that migration `m` embeds. Migration `m` carries `DetectChanges(chain[m-1], chain[m])`, which is what `makemigrations` writes.
  - `store` is the knowledge graph's schema: relations, rule clause sets and indexes.
  - `recorded` is the recorder relation.
  - `pc`, `call`, `applied`, `i`, `todo`, `cmds` and `names` are the executor's locals.
  - `last` is the outcome of the call that ended last.
  - `failures` counts transport failures.
- **Steps.** Each `kg.execute` is one step: `EnsureSchema`, `GetApplied`, each command in `ExecCmd`, `RecordApplied` and `RecordReverted`.
- **Loop heads.** `MigrateNext` is the `for` head of `migrate`: skip what is applied, break at the target, otherwise apply. `RevertNext` is the loop of `revert_to`.
- **The store (`Exec`).** This is the server, which is not in this repository, so it is not mapped. It is a naive store:
  - a drop of something absent is a no-op;
  - a schema command for an existing relation, or an index creation for an existing index, is rejected;
  - with `StrictRefs`, a clause or index that names a missing relation is also rejected.
  - A rejection leaves the store unchanged and the executor carries on, as `_read_result` makes it do.
- **Transport failures.** `TransportFailure` may hit any `kg.execute`. Either the command never reached the server, or it ran there and the reply was lost. The call then raises, and `pc` returns to idle.
- **The CLI.** Each CLI command is a process of its own, so the commands interleave with each other's steps.
  - `MakeMigrations` is `_cmd_makemigrations`. It does nothing with no models, and nothing when `detect_changes` against the latest file's state is empty. Otherwise it appends a file with number `get_next_number`. It is not guarded by `pc`, so it can write a file while a `migrate` works through the list it loaded.
  - `StartMigrate`, `StartRevert` and `StartShow` load the files (`Loaded`, `call.n`). The CLI's `migrate` passes no target. `revert` requires one.
  - `showmigrations` reads `get_applied` and reports which of the loaded migrations are applied.

### Connection

- **The socket contract.** The code is written against websockets' asyncio client, so the model follows that library's rules for a socket:
  - only one coroutine may be inside `recv()`. That includes the `recv` behind `async for`. A second caller gets `ConcurrencyError` at once.
  - Messages that are already buffered are still delivered after a close.
  - Then `recv` raises, and `async for` ends quietly on a clean close (1000/1001).
  - asyncio switches coroutines only at a suspending await. So `_read_result`, which dispatches a notification and calls `recv` again, never lets go of the socket in between.
- **Variables.**
  - `ws`, `connected` and `resumeSeq` are `self._ws`, `self._connected` and `self._last_seq`.
  - `reader[g]` says who is inside `recv` on socket `g`.
  - `loop` is the receive task: its pc, its socket and its reconnect attempts.
  - `caller` is the coroutine in `execute`: the command it sent, the socket it reads, and what it returned or raised.
  - `lastSeq` and `dispatched` are the dispatcher's `_last_seq` and its queue.
  - `stolen` holds the replies the loop threw away.
  - `pinged` counts the `ping` calls.
  - `since` is the first seq the server emitted after the user's last `connect()`. Notifications before it were never owed to this client. A reconnect can still replay them, because `dispatcher.last_seq` is 0 before the first dispatch, and `_reconnect` passes `last_seq=0` rather than None.
- **Actions.** One action per await-to-await step:
  - `Connect`;
  - `ExecSend` (the "Not connected" check and `send`);
  - `Ping` (`ping`: its "Not connected" check and `send`);
  - `CallerRecv`, `CallerDeliver` and `CallerClosed` (the `_read_result` loop);
  - `Close`;
  - `LoopStart`, `LoopDeliver` and `LoopEnd` (the `async for`);
  - `LoopFails` (its `except Exception`);
  - `ReconnectOpen` and `ReconnectFail` (one attempt of `_reconnect` after its sleep). `ReconnectOpen` is `websockets.connect` succeeding: the new socket becomes `self._ws` at once. `ReconnectFail` is `websockets.connect` raising.
  - `AuthSend`, `AuthRecv`, `AuthDeliver` and `AuthClosed` are `_authenticate` inside that `connect()`. Each of its awaits is a step of its own. A failure at any of them counts as a failed attempt (`AttemptFailed`).
- **The server.** The server is not in this repository, so it is not mapped. It is the environment:
  - it answers each socket's commands in order;
  - it broadcasts each notification to every open socket;
  - it replays the notifications after `last_seq` on a connect that passes it;
  - it may close a socket, cleanly or with an error.
- **Abstractions.**
  - A streamed result (`result_start`, the chunks, `result_end`) is one message. `_assemble_stream` reads them with the same `self._ws.recv()` as `_read_result`, so it adds no new interleaving.
  - The user's own `connect` is one step, because nothing else runs then. The reconnect's `connect` is split at its awaits, because the caller's `execute` can run in between.
  - A socket the reconnect opened is `opening` until `_authenticate` has sent. The server does not broadcast to it or reply on it before then.
  - `ping` is `Ping`, bounded by `MaxPings`. It tests only `self._ws`, so it also sends on a reconnect's `opening` socket. On an open socket the server answers with a pong in its place among the executes (`pending` holds 0 for a ping). A ping sent before the auth message is either answered with a pong ahead of the `AuthenticatedResponse` or ignored (`Greet`), since the server is not in this repository. `_read_result` skips a pong like a notification, the receive loop drops it, and `_authenticate` fails the attempt on it.
  - Authentication failures and the current-KG bookkeeping are also left out.
  - The user calls `connect` only on a closed client, as the facades do.

### OrSplit

- A condition is a tree of `And`, `Or` and `Not` nodes (`AndE`, `OrE`, `NotE`) over leaf comparisons (`Leaf`). `Conditions` is every tree up to depth `MaxDepth`.
- A leaf in `Joins` is a column = column comparison. `_compile_comparison` unifies its two columns in the environment that every branch shares, and returns `""` (`Blank`). Every other leaf compiles to a literal (`Lit`).
- `CompileBoolExpr` is `compile_bool_expr`: `And` concatenates, `Not` wraps the inner literals in `!( )`, and `Or` raises. `CompileOrBranches` splits only the `Or` nodes on the chain from the root. `CompileWhere` chooses between the two by `_has_or`, as `compile_query` does.
- `QueryBodies` gives the bodies of the queries that are sent: one per branch, or one from `where_parts`. `_compile_agg_query` builds its one body from `where_parts` and never reads `or_branches` (`AggQueryBody`).
- `CompileRule` is the condition step of `compile_rule`. It compiles the whole condition with `compile_bool_expr`, so an `Or` anywhere raises.
- **Reference definitions.** A row is abstracted to the truth value of each leaf on it (`Rows`). `Eval` is the meaning of the condition. `Returned` says whether a row comes back from some query of the split: the unified joins hold, and the body's literals hold. `OrOffRootSpine` is an independent reference, built from `SubTrees`, for the conditions that must raise.

### KnowledgeGraphs

- **Variables.**
  - `kgs` is `InputLayer._kgs`.
  - `srvKg` is the server session's current KG, and `curKg` is `Connection._current_kg`.
  - `persisted[k]` is the set of handles whose persistent writes landed in KG `k`.
  - `op` is a method between two of its executes: an OR-split query with `left` queries still to send, or `edit_rule_clause` between its drop and its re-add.
  - `lastQuery` is the set of KGs that the last completed query read.
  - `query` is the where-condition and the aggregate flag of a `query()` call made in this step. It is reset by every other step.
- **Commands.** A command is abstracted to what it does to a KG: a write, a read, an ACL change of the named KG, or a session command. `InsertKind` is the `+` prefix of `compile_insert` and `compile_bulk_insert`. Without the prefix, the server keeps the fact in the session and never persists it.
- **Actions.**
  - `Call` is a method that sends one command. `NoCommand` is a method that returns or raises before its first execute: an empty list, an unsupported argument, or `Session.drop_rule` without a name.
  - `QueryStart` compiles a condition from `Conditions`, with or without an aggregate. It raises, sends the one query, or sends the first query of a split. `QueryRest` sends each following query.
  - `EditStart` and `EditRest` are the two executes of `edit_rule_clause`. When `compile_rule` raises on the new clause's condition, the dropped clause stays dropped.
  - `Execute` is raw `execute`. It may be a `.kg use x`, after which `_read_result` copies `switched_kg` into `_current_kg` (`Use`).
  - `Reconnect` is the receive task's `_reconnect`. `connect()` passes `?kg=initial_kg` (`StartKG`), and `_authenticate` sets `_current_kg`.
  - The `Session*` actions are `Session`'s methods. `SyncSessionCall` is a method called on `KnowledgeGraphSync.session`, which returns the async `Session`, so nothing is sent.
  - `ServerCommand` and `ListKnowledgeGraphs` are the user, API-key and `.kg list` commands. They run whatever the current KG is.

### DocsSyntax

- **Why characters.** The script's job is a text conversion, and the question asked of it is about that conversion. So a line is a sequence of one-character strings, and each string operation the script uses is defined by what it does:
  - `strip`, `str.replace` and `lower`;
  - the `\.dl\b` substitutions, and the prose variant with its look-aheads;
  - the modulo regular expression of `split_code_and_comment` (`ModuloMatch`), written as the existence of a match;
  - the two string scanners: `SplitFrom` skips the character after a backslash inside a string, while `ReplaceFrom` toggles on any quote not preceded by a backslash.
  - A backtick is the token `"tick"`, because SANY does not accept one inside a string literal.
- **Variables.**
  - `disk` is the file.
  - `runs` and `dry` describe `main`'s invocations.
  - `lines`, `k` and `newLines` are `migrate_file`'s `lines`, loop position and `new_lines`.
  - `inCode`, `fenceLang` and `inEbnf` are the fence state.
  - `writes` is a history: the number of runs that wrote a changed file back.
- **Actions.**
  - `StartRun` is one invocation: it reads the file and resets the fence state.
  - `CloseFence`, `OpenFence`, `BlockLine` and `ProseLine` are the branches of the loop body. Any line starting with ` ``` ` closes an open block. ` ```prolog ` is rewritten to ` ```datalog `.
  - `Finish` joins the lines and writes them back when they differ and `--dry-run` is off.
- **Cross-check.** The operators `MigrateCodeLine` (both modes) and `MigrateProseLine` were evaluated by TLC on 600 random lines over 21 characters, together with the script's own functions on the same lines. All results agreed. That harness is not part of this directory.

## 3. Runs

| Run | Checks | Shows |
|---|---|---|
| `vars_pass` (`MC_VarEnv.cfg`) | `TypeOK`, `NoAccidentalJoin`, `ImplementsVarClasses` | In every order of env calls that the entry points allow, two columns that were never equated never share a variable. Path halving never changes a class. `unify` merges exactly the two classes (a refinement of `VarClasses`). |
| `vars_unified` (`MC_VarEnv_unified.cfg`) | `UnifiedColumnsShareVariable`, violated | Every entry point is enabled. TLC's shortest trace is `compile_conditional_delete` with `p.id == p.dept`: the seeded `X0` and `X1` are unified, so the equality disappears from the output. The same property also fails in `compile_query` (`get_var(e.id)`, `get_var(e.dept)`, then `unify`), and both findings cite this run. |
| `migration_pass` (`MC_Migration.cfg`) | `TypeOK`, `RecordedIsPrefix`, `MigrateAppliesPending`, `RevertToLandsOnTarget`, `StoreMatchesRecorded` | Any sequence of `makemigrations`, `migrate`, `revert` and `showmigrations`, interleaved and with a transport failure at any step, keeps the recorder at 1..k. A completed call returns the right names and leaves the right records. With no failure, the store is at the newest recorded state. |
| `migration_strict` | `StoreMatchesRecorded`, violated, with `StrictRefs = TRUE` | Migration S2→S4 drops relation `a` and then index `i` on `a`. Its revert recreates `i` before `a`, the rejection is swallowed, and the index is lost. |
| `connection_pass` (`MC_Connection.cfg`) | `TypeOK`, `ResultMatchesCommand`, `NoNotificationBelowLastSeqLost` | Under every interleaving of the caller, the receive task, the steps of a reconnect, pings and server closes: an execute that returns something returns its own command's reply, with pongs from `ping` skipped; and every notification since `connect` at or below `last_seq` is dispatched or still buffered on `self._ws`. The second one means the `?last_seq=` replay never leaves a gap, although the caller and the receive task read different sockets. |
| `connection_auth` (`MC_Connection_auth.cfg`) | `ReconnectSettles`, violated | An execute is sent on socket 1, and the server closes socket 1. `_reconnect` opens socket 2, which becomes `self._ws`. `_read_result` re-reads `self._ws`, enters `recv` on socket 2, and takes the `AuthenticatedResponse`, raising InternalError. `_authenticate`'s `recv` then waits on a socket that never sends anything, so `_connected` stays False, the reconnect never ends, and every later execute raises "Not connected". |
| `connection_concurrent` | `NoConcurrentRecv`, violated | After `connect`, the receive task sits in `recv`, so `execute`'s `recv` on the same socket raises `ConcurrencyError`. In the sync client this happens on every execute, because `run_until_complete(connect)` starts the task before it returns. |
| `connection_hang` | `ExecuteTerminates`, violated | A reconnect during an execute moves `_read_result` to the new socket. The reply comes on the old one, and execute never returns. |
| `kg_pass` (`MC_KnowledgeGraphs.cfg`) | `TypeOK`, `CompilesUnlessOrBelowRoot`, `SplitQueriesFilterLikeWhere` | `query()` raises exactly when an `Or` sits below an `And` or a `Not`. The queries of an OR split, with their rows concatenated, return exactly the rows on which the condition holds, for every condition up to depth 2 whose joins are conjuncts of the whole condition. |
| `kg_handle` | `HandleTargetsItsKG`, violated | A write through `knowledge_graph("sales")` lands in the default KG, because the handle never sends `.kg use`. |
| `kg_query` | `QueryReadsOneKG`, violated | After `.kg use sales`, an OR-split query sends its first query, the receive task reconnects into `initial_kg`, and the second query reads another KG. |
| `docs_rerun` (`MC_DocsSyntax_rerun.cfg`) | `MigrationIdempotent`, violated | A second run of the script rewrites a file the first run migrated. The trace is the meta line `.%%`, which becomes `.//%` and then `.////`. A `%` inside a converted comment is taken for a new comment marker. The same happens to `edge(1, 2). % 50% weight`, and a line ending in `..` loses one more dot on each run. |

Findings are in `PROJECT.json`:

- two variable-environment bugs;
- the index-ordering gap on revert;
- three connection bugs: the concurrent `recv`; the hung execute with its duplicate dispatch; and the reconnect whose authentication reply an execute takes;
- the handle that never switches KG;
- the reconnect that moves the session back to `initial_kg`;
- the docs migration script, which is not safe to run twice.

The spec (property 4 of section 8) says that the OR-splitter produces 2^k branches for k `Or` nodes on the root spine. The code produces k+1, one per maximal non-`Or` subtree. `SplitQueriesFilterLikeWhere` shows that k+1 branches give the right rows, so the code is right and the spec's count is not. No run checks the count itself.

### Bounds

- **VarEnv, passing run.** Three keys (`e.id`, `d.id`, `d.x0`), two of which share the base name `Id`.
  - That is enough for the counter suffix and a name collision to happen.
  - It is also enough for a three-element union chain, so path halving really rewrites a path.
  - The delete mode seeds one key.
  - 8,460 states.
- **VarEnv, violation runs.** Four keys, which are needed to seed two target columns.
- **Migration, passing run.** Up to three migrations, which `makemigrations` writes from four model states, with at most one transport failure. About 2.6M states in 2 minutes.
  - The states cover every phase: new, modified and removed relations; new, replaced and removed rules; new, modified and removed indexes.
  - Three migrations let a revert cross two of them, and let `makemigrations` add one while a `migrate` runs on two.
  - One failure is enough to cut any call at any step, including a lost reply to a command or to a record.

- **Connection.** Three sockets, two executes, two notifications, one server close, one ping, and `max_reconnect_attempts = 2`. About 4.4M states in 70 seconds. The three Connection violation runs keep `MaxPings = 0`: a ping adds nothing to the traces they show.
  - Three sockets allow the first connection, a reconnect, and a second reconnect or a fresh connect after `close`.
  - Two notifications are enough for out-of-order delivery across two sockets.
  - Two executes let a late reply meet a later command.
  - The violations are found within 15 steps.
- **KnowledgeGraphs.** Two KG names and one reconnect.
  - `kg_pass` allows three facade calls. The conditions are every tree of depth up to 2 over two leaves, `p` and the join `j`: 312 trees, each with and without an aggregate. That includes an `Or` under an `And` and under a `Not`, an `Or` of `Or`s, and a join inside an `Or`. About 74k states in 2 minutes.
  - `kg_query` allows four calls and depth-1 conditions. An OR split needs `.kg use`, a query, a reconnect and the rest of the query.

- **DocsSyntax.** Each file is a code block holding one line of up to six characters from `a 5 . %`, or a prose line of up to three. Each file is run through the script twice, each time with or without `--dry-run`. This gives 138k states in 3 seconds. Six characters are enough for `a.%5%a`, the shape of `edge(1, 2). % 50% weight`.

### Fairness

- **Migration, KnowledgeGraphs and DocsSyntax.** No liveness is checked. Nothing there retries on its own: the CLI is run by a person, and `migrate` and `revert_to` loop over a finite list.
- **Connection.** `Spec` has weak fairness on the steps that asyncio runs once their await is satisfied:
  - the caller's `recv` and delivery;
  - the receive task's steps;
  - a reconnect attempt once its `asyncio.sleep` is over, and each step of its `_authenticate`.

  It also assumes the server answers every command it received (`ServerReply`). Nothing is fair for what a user chooses to do (`ExecSend`, `Connect`, `Close`), for notifications, or for drops.

## 4. Not modelled, and the plan

1. **Connection.** This is modelled, apart from the abstractions listed under Connection above. A clean server close ends the receive task with `_connected` still True and no reconnect. The model reproduces this (`LoopEnd`), but no statement in the code or the spec says what should happen, so no property checks it.
2. **Server errors in the executor.** This would model the `error` row explicitly, so that a property can state spec 7 ("the first failing command aborts the migration") and the `get_applied` error path.
3. **Autodetector reference checks.** `detect_changes(S, S) = <<>>`, and forward then backward round trips over all pairs of a small state set.
4. **Loader numbering.** The writer formats 10000 as `10000_auto.py`, which `_MIGRATION_RE` (`\d{4}`) skips. Reaching it takes 10000 migrations, far past any bound TLC can explore, so it is listed as a hazard.
5. **Notifications.** This is modelled in `Connection`. The queue is unbounded, and nothing in the client consumes it.
6. **Compiler text.** Expression, aggregation, `in_`, match, ordering and limit text is not modelled. `on=` conditions are not modelled either. OrSplit abstracts every leaf to a comparison.
7. **Sync wrappers.** Each `*Sync` method runs one async method to completion with `run_until_complete`. That adds no interleaving the async model lacks, so the wrappers are not separate actions. The one exception, `KnowledgeGraphSync.session`, is `SyncSessionCall`.

8. **The `migrate` target.** `migrate(target=t)` breaks at `t` before applying it (`executor.py:47`), although the check after `record_applied` shows that the intent is to stop after applying it. `MigrationExec` keeps this control flow. No run states the intent, because the CLI never passes a target, and a unit test with two migrations shows the bug. The hazard is listed in `PROJECT.json`.
9. **The aggregate query and `Or`.** `_compile_agg_query` never reads `or_branches`, so an aggregate with the where-condition `p | p` has no filter at all (`compiler.py:422`). `OrSplit` models it (`AggQueryBody`), but no run checks it: one `query()` call in a unit test shows it, and the runs are spent on interleavings. It is listed as a hazard.
10. **The docs script's two string scanners.** They disagree on a string that ends in an escaped backslash. This is listed as a hazard. Only the re-run question has a run.
11. **A ping during a reconnect.** `ping` sends on the reconnect's socket before `_authenticate` has sent, and a pong ahead of the `AuthenticatedResponse` fails that attempt. `Connection` models this path (`Ping`, `Greet`, `AuthDeliver`). The property it breaks, `ReconnectSettles`, is already shown violated by `connection_auth` through an execute, so it has no run of its own.
12. **Migration numbers across branches.** `get_next_number` is the last number plus one. Two branches from one base therefore both write the same number. The executor orders migrations by number and never reads `dependencies`, and `get_latest_state` snapshots only one of the two. `MigrationExec` has one directory, written by one `makemigrations` at a time, so numbers are unique there. A merge of two directories happens outside the code, so this is listed as a hazard only.

Pure text formatting is not modelled: schema text, value encoding, type mapping, naming, and the writer's rendering. It has no state and no interleaving, and unit tests reach it fully.
