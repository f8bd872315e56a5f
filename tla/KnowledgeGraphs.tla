--------------------------- MODULE KnowledgeGraphs ---------------------------
(***************************************************************************)
(* The knowledge-graph facades (client.py, knowledge_graph.py) over one   *)
(* connection, and the server session's current knowledge graph they run *)
(* in.  Every KnowledgeGraph method builds a command text and sends it    *)
(* with self._conn.execute; the handle's own name appears only in the     *)
(* `.kg acl` commands.  The server runs every other command in the        *)
(* session's current KG, which a `.kg use X` changes (its result carries  *)
(* switched_kg) and which a new connection sets from ?kg=initial_kg or,   *)
(* without it, to the server's default.                                    *)
(*                                                                         *)
(* A command is abstracted to what it does to a KG: a write (define,      *)
(* insert, delete, rule and index changes, load, clear), a read, an ACL  *)
(* change of the named KG, or a session command (no `+` prefix), which    *)
(* the server keeps in the session and never persists.  `persisted[k]`    *)
(* records which handles' writes landed in KG k.  Executes are one step   *)
(* each; a method with several executes has a step per execute, and the *)
(* receive task's reconnect (Connection) may come between two of them.   *)
(***************************************************************************)
EXTENDS Naturals, FiniteSets, OrSplit

CONSTANTS
    Names,          \* knowledge-graph names (handles and server KGs)
    DefaultKG,      \* the KG the server gives a session without ?kg=
    InitialKG,      \* InputLayer(initial_kg=...), None when not given
    None,           \* model value: Python's None
    MaxSteps,       \* bound: facade calls in a behaviour
    MaxReconnects   \* bound: reconnects in a behaviour

ASSUME DefaultKG \in Names /\ InitialKG \in Names \cup {None}

VARIABLES
    kgs,        \* InputLayer._kgs: names that have a KnowledgeGraph handle
    srvKg,      \* the server session's current KG
    curKg,      \* Connection._current_kg
    persisted,  \* persisted[k]: handles whose writes landed in KG k
    op,         \* a facade method between two of its executes
    lastQuery,  \* KGs the last completed query read from
    query,      \* where-condition and aggregate flag of a query() call in this step
    steps,      \* facade calls so far
    reconnects  \* reconnects so far

vars == <<kgs, srvKg, curKg, persisted, op, lastQuery, query, steps, reconnects>>

NoOp == [m |-> "none", h |-> None, reads |-> {}, left |-> 0]
NoQuery == [cond |-> None, agg |-> FALSE]

\* Mutant: ?kg= is sent without the `if self._initial_kg` guard.
StartKGUnguarded == InitialKG

\* The KG connect() lands in: ?kg=initial_kg when set, else the default.
StartKG == IF InitialKG = None THEN DefaultKG ELSE InitialKG

\* The server runs one command sent through handle h.
Run(h, kind) ==
    persisted' = CASE kind = "write" -> [persisted EXCEPT ![srvKg] = @ \cup {h}]
                   [] kind = "acl"   -> [persisted EXCEPT ![h] = @ \cup {h}]
                   [] kind \in {"read", "session"} -> persisted

\* compile_insert and compile_bulk_insert: the `+` prefix (persistent=True,
\* the default) makes a persistent insert, no prefix a session fact.
InsertKind(persistent) == IF persistent THEN "write" ELSE "session"

\* A KnowledgeGraph method that sends one command of one of the kinds.
Call(h, kinds) ==
    /\ op = NoOp /\ h \in kgs /\ steps < MaxSteps
    /\ \E kind \in kinds : Run(h, kind)
    /\ steps' = steps + 1
    /\ query' = NoQuery
    /\ UNCHANGED <<kgs, srvKg, curKg, op, lastQuery, reconnects>>

\* A method that returns or raises before its first execute: insert or
\* delete of an empty list, an unsupported argument, a compile that raises.
NoCommand(h) ==
    /\ op = NoOp /\ h \in kgs /\ steps < MaxSteps
    /\ steps' = steps + 1
    /\ query' = NoQuery
    /\ UNCHANGED <<kgs, srvKg, curKg, persisted, op, lastQuery, reconnects>>

-----------------------------------------------------------------------------
(* InputLayer.                                                             *)

\* knowledge_graph(name): a cached handle; no command is sent.
KnowledgeGraph(n) ==
    /\ op = NoOp /\ n \notin kgs
    /\ kgs' = kgs \cup {n}
    /\ query' = NoQuery
    /\ UNCHANGED <<srvKg, curKg, persisted, op, lastQuery, steps, reconnects>>

\* drop_knowledge_graph(name): `.kg drop name`, then the cached handle is
\* forgotten whatever the answer; the server drops a KG that is not the
\* session's current one (and answers an error otherwise).
DropKnowledgeGraph(n) ==
    /\ op = NoOp /\ steps < MaxSteps
    /\ persisted' = IF n # srvKg THEN [persisted EXCEPT ![n] = {}] ELSE persisted
    /\ kgs' = kgs \ {n}
    /\ steps' = steps + 1
    /\ query' = NoQuery
    /\ UNCHANGED <<srvKg, curKg, op, lastQuery, reconnects>>

\* The user and the API-key commands: meta commands the server runs
\* whatever the session's KG is.
ServerCommand ==
    /\ op = NoOp /\ steps < MaxSteps
    /\ steps' = steps + 1
    /\ query' = NoQuery
    /\ UNCHANGED <<kgs, srvKg, curKg, persisted, op, lastQuery, reconnects>>

\* list_knowledge_graphs: `.kg list`, a read of no particular KG.
ListKnowledgeGraphs ==
    /\ op = NoOp /\ steps < MaxSteps
    /\ steps' = steps + 1
    /\ query' = NoQuery
    /\ UNCHANGED <<kgs, srvKg, curKg, persisted, op, lastQuery, reconnects>>

-----------------------------------------------------------------------------
(* KnowledgeGraph: one action per group of methods.                        *)

\* define (one schema command per relation), relations, describe, drop_relation.
Schema(h) == Call(h, {"write", "read"})

\* insert: one insert or bulk-insert command, or none for an empty list
\* or a TypeError.
Insert(h) == Call(h, {InsertKind(TRUE)}) \/ NoCommand(h)

\* delete: a conditional delete, one delete, or one per fact of a list
\* (none for an empty one).
Delete(h) == Call(h, {"write"}) \/ NoCommand(h)

\* query(where=e): compile_query (OrSplit) raises before anything is sent,
\* or returns one query, executed at once, or the queries of an OR split,
\* of which the first is executed here and the rest follow.
QueryStart(h) ==
    /\ op = NoOp /\ h \in kgs /\ steps < MaxSteps
    /\ \E e \in Conditions, agg \in BOOLEAN :
         LET w == CompileWhere(e)
             n == Len(QueryBodies(w.val, agg))
         IN  /\ query' = [cond |-> e, agg |-> agg]
             /\ CASE w.err -> UNCHANGED <<op, lastQuery>>
                  [] n = 1  -> lastQuery' = {srvKg} /\ UNCHANGED op
                  [] n > 1  -> /\ op' = [m |-> "query", h |-> h, reads |-> {srvKg}, left |-> n - 1]
                               /\ UNCHANGED lastQuery
    /\ steps' = steps + 1
    /\ UNCHANGED <<kgs, srvKg, curKg, persisted, reconnects>>

\* The next query of the split; its rows are appended to the others'.
QueryRest ==
    /\ op.m = "query"
    /\ IF op.left = 1 THEN lastQuery' = op.reads \cup {srvKg} /\ op' = NoOp
       ELSE op' = [op EXCEPT !.reads = @ \cup {srvKg}, !.left = @ - 1] /\ UNCHANGED lastQuery
    /\ query' = NoQuery
    /\ UNCHANGED <<kgs, srvKg, curKg, persisted, steps, reconnects>>

\* vector_search: one top_k or within_radius query.
VectorSearch(h) == Call(h, {"read"})

\* define_rules, list_rules, rule_definition, drop_rule, drop_rule_clause;
\* define_rules sends nothing when compile_rule raises on its first clause.
Rules(h) == Call(h, {"write", "read"}) \/ NoCommand(h)

\* clear_rule, drop_rules_by_prefix.
RuleClear(h) == Call(h, {"write"})

\* edit_rule_clause: drop_rule_clause first ...
EditStart(h) ==
    /\ op = NoOp /\ h \in kgs /\ steps < MaxSteps
    /\ Run(h, "write")
    /\ op' = [NoOp EXCEPT !.m = "edit", !.h = h]
    /\ steps' = steps + 1
    /\ query' = NoQuery
    /\ UNCHANGED <<kgs, srvKg, curKg, lastQuery, reconnects>>

\* ... then compile_rule on the new clause's condition (or none) and its
\* execute; when compile_rule raises the dropped clause stays dropped.
EditRest ==
    /\ op.m = "edit"
    /\ \E e \in Conditions \cup {None} :
         IF e # None /\ CompileRule(e).err THEN UNCHANGED persisted
         ELSE Run(op.h, "write")
    /\ op' = NoOp
    /\ query' = NoQuery
    /\ UNCHANGED <<kgs, srvKg, curKg, lastQuery, steps, reconnects>>

\* create_index, list_indexes, index_stats, drop_index, rebuild_index.
Indexes(h) == Call(h, {"write", "read"})

\* grant_access, revoke_access, list_acl: `.kg acl ... {self._name}`.
Acl(h) == Call(h, {"acl", "read"})

\* explain, compact, status, load, clear_prefix.
Meta(h) == Call(h, {"write", "read"})

-----------------------------------------------------------------------------
(* Session (KnowledgeGraph.session): commands compiled with               *)
(* persistent=False, run in the session's current KG.                      *)

\* insert: one insert or bulk insert without `+`; an empty list returns.
SessionInsert(h) == Call(h, {InsertKind(FALSE)}) \/ NoCommand(h)

\* define_rules: compile_rule(persistent=False) per clause, one execute each.
SessionDefineRules(h) == Call(h, {"session"}) \/ NoCommand(h)

\* list_rules: `.session list`.
SessionListRules(h) == Call(h, {"read"})

\* drop_rule: `.session remove name i` or `.session drop name`; without a
\* name it raises ValueError and sends nothing.
SessionDropRule(h) == Call(h, {"session"}) \/ NoCommand(h)

\* clear: `.session clear`.
SessionClear(h) == Call(h, {"session"})

\* KnowledgeGraphSync.session returns the async Session: a method called
\* on it from synchronous code makes a coroutine nobody awaits, and no
\* command is sent.
SyncSessionCall(h) == NoCommand(h)

-----------------------------------------------------------------------------

\* `.kg use x`: the server switches the session; _read_result (or
\* _assemble_stream) copies the result's switched_kg to _current_kg.
Use(x) ==
    /\ srvKg' = x
    /\ curKg' = x

\* execute(datalog): raw text, which may be a `.kg use`.
Execute(h) ==
    /\ op = NoOp /\ h \in kgs /\ steps < MaxSteps
    /\ \/ \E kind \in {"write", "read"} : Run(h, kind) /\ UNCHANGED <<srvKg, curKg>>
       \/ \E x \in Names : Use(x) /\ UNCHANGED persisted
    /\ steps' = steps + 1
    /\ query' = NoQuery
    /\ UNCHANGED <<kgs, op, lastQuery, reconnects>>

\* The receive task's _reconnect: connect() passes ?kg=initial_kg, and
\* _authenticate sets _current_kg from the AuthenticatedResponse.
Reconnect ==
    /\ reconnects < MaxReconnects
    /\ srvKg' = StartKG /\ curKg' = StartKG
    /\ reconnects' = reconnects + 1
    /\ query' = NoQuery
    /\ UNCHANGED <<kgs, persisted, op, lastQuery, steps>>

-----------------------------------------------------------------------------

\* Right after connect().
Init ==
    /\ kgs = {}
    /\ srvKg = StartKG /\ curKg = StartKG
    /\ persisted = [k \in Names |-> {}]
    /\ op = NoOp /\ lastQuery = {} /\ query = NoQuery
    /\ steps = 0 /\ reconnects = 0

Next ==
    \/ \E n \in Names : KnowledgeGraph(n) \/ DropKnowledgeGraph(n)
    \/ \E h \in Names : \/ Schema(h) \/ Insert(h) \/ Delete(h) \/ QueryStart(h)
                        \/ VectorSearch(h) \/ Rules(h) \/ RuleClear(h)
                        \/ EditStart(h)
                        \/ Indexes(h) \/ Acl(h) \/ Meta(h) \/ Execute(h)
    \/ \E h \in Names : \/ SessionInsert(h) \/ SessionDefineRules(h) \/ SessionListRules(h)
                        \/ SessionDropRule(h) \/ SessionClear(h) \/ SyncSessionCall(h)
    \/ ListKnowledgeGraphs \/ ServerCommand \/ QueryRest \/ EditRest \/ Reconnect

Spec == Init /\ [][Next]_vars

-----------------------------------------------------------------------------
(* Properties.                                                             *)

TypeOK ==
    /\ kgs \subseteq Names /\ srvKg \in Names /\ curKg \in Names
    /\ persisted \in [Names -> SUBSET Names]
    /\ op \in {NoOp} \cup [m : {"query", "edit"}, h : Names, reads : SUBSET Names,
                            left : Nat]
    /\ lastQuery \subseteq Names
    /\ query \in {NoQuery} \cup [cond : Conditions, agg : BOOLEAN]
    /\ steps \in 0 .. MaxSteps /\ reconnects \in 0 .. MaxReconnects

\* Every write made through the handle knowledge_graph(k) lands in KG k
\* ("Get a KnowledgeGraph handle. Switches the session's active KG.").
HandleTargetsItsKG == \A k \in Names : persisted[k] \subseteq {k}

\* The queries of one OR-split query all read the same KG, so the union it
\* returns is a result of one KG.
QueryReadsOneKG == Cardinality(lastQuery) <= 1

\* query(where=...) raises exactly when the condition has an Or below an And
\* or a Not: compile_or_branches only splits the Ors at the root.
CompilesUnlessOrBelowRoot ==
    query # NoQuery => (CompileWhere(query.cond).err <=> OrOffRootSpine(query.cond))

\* The queries of an OR split, executed by query() one by one and their
\* rows concatenated, return exactly the rows on which the where-condition
\* holds (for conditions whose joins are conjuncts of the whole condition).
SplitQueriesFilterLikeWhere ==
    query # NoQuery /\ ~query.agg /\ ~CompileWhere(query.cond).err
      /\ JoinsAreConjuncts(query.cond)
        => FiltersLikeWhere(query.cond, FALSE)

=============================================================================
