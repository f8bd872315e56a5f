------------------------------- MODULE VarEnv -------------------------------
(***************************************************************************)
(* The compiler's variable environment (compiler.py, class _VarEnv) and   *)
(* the order in which the three compile entry points call it.             *)
(*                                                                         *)
(* A column key is "alias_or_relation.column".  The environment keeps a   *)
(* union-find parent map over keys (path halving in _find), a map from    *)
(* union roots to Datalog variable names, and a disambiguation counter.   *)
(* Every variable name the compiler writes into the output text is        *)
(* recorded in the history variable `emitted` as a pair <<key, var>>.     *)
(*                                                                         *)
(* A variable name is a record [base |-> b, n |-> i]: b is what           *)
(* column_to_variable(col.name) (or the positional X<i> of a conditional  *)
(* delete) returns, and n > 0 is the "_<n>" suffix added by get_var and   *)
(* unify when b is already taken.                                          *)
(***************************************************************************)
EXTENDS Naturals, Sequences, FiniteSets, Functions

CONSTANTS
    Keys,       \* column keys occurring in one compilation
    Bases,      \* variable base names
    ColVar,     \* ColVar[k]: column_to_variable of k's column name
    DelKeys,    \* keys of the relation a conditional delete targets
    DelVar,     \* DelVar[k]: the positional variable X<i> of k in a delete
    Modes       \* entry points exercised: "query", "rule", "delete"

ASSUME ColVar \in [Keys -> Bases]
ASSUME DelKeys \subseteq Keys /\ DelVar \in [DelKeys -> Bases]
ASSUME Modes \subseteq {"query", "rule", "delete"} /\ Modes # {}

VARIABLES
    parent,     \* _parent, total: a key absent from the dict maps to itself
    varmap,     \* _map: root key -> variable name (only on its domain)
    counter,    \* _counter
    mode,       \* which compile_* function is running
    phase,      \* where that function is in its sequence of env calls
    emitted     \* history: <<key, var>> pairs written into the output text

vars == <<parent, varmap, counter, mode, phase, emitted>>

VarName == [base : Bases, n : 0 .. Cardinality(Keys)]
Plain(b) == [base |-> b, n |-> 0]

(***************************************************************************)
(* _find: walk to the root; each visited key is re-pointed to its         *)
(* grandparent before moving on (path halving).  Root gives the result,   *)
(* Halve the parent map the walk leaves behind.                            *)
(***************************************************************************)
RECURSIVE Root(_, _)
Root(p, k) == IF p[k] = k THEN k ELSE Root(p, p[k])

RECURSIVE Halve(_, _)
Halve(p, k) ==
    IF p[k] = k THEN p
    ELSE LET q == [p EXCEPT ![k] = p[p[k]]] IN Halve(q, q[k])

\* The name get_var / unify mint for a fresh root: the base name, or the
\* base with the next counter value if any map entry already uses it.
Used == Range(varmap)
\* Mutant: the name check against _map's values is dropped.
FreshUnchecked(b) == Plain(b)

Fresh(b) == IF Plain(b) \in Used
            THEN [base |-> b, n |-> counter + 1]
            ELSE Plain(b)
FreshCounter(b) == IF Plain(b) \in Used THEN counter + 1 ELSE counter

Assign(r, v) == [x \in DOMAIN varmap \cup {r} |-> IF x = r THEN v ELSE varmap[x]]

(***************************************************************************)
(* The three env operations, each the whole method body.                   *)
(***************************************************************************)

\* get_var(col): resolve the key's root, minting a variable for it if the
\* root has none; the variable is written into the output.
GetVar(k) ==
    LET p1 == Halve(parent, k)
        r  == Root(parent, k)
    IN /\ parent' = p1
       /\ IF r \in DOMAIN varmap
          THEN /\ emitted' = emitted \cup {<<k, varmap[r]>>}
               /\ UNCHANGED <<varmap, counter>>
          ELSE /\ varmap' = Assign(r, Fresh(ColVar[k]))
               /\ counter' = FreshCounter(ColVar[k])
               /\ emitted' = emitted \cup {<<k, Fresh(ColVar[k])>>}

\* Mutant: _union links key b itself, not b's root, under a's root.
UnifyLinkKey(a, b) ==
    LET p1 == Halve(parent, a)
        ra == Root(parent, a)
        p2 == Halve(p1, b)
        rb == Root(p1, b)
        p3 == IF ra # rb THEN [p2 EXCEPT ![b] = ra] ELSE p2
        p4 == Halve(p3, a)
        r  == Root(p3, a)
    IN /\ parent' = p4
       /\ IF r \in DOMAIN varmap
          THEN UNCHANGED <<varmap, counter>>
          ELSE /\ varmap' = Assign(r, Fresh(ColVar[a]))
               /\ counter' = FreshCounter(ColVar[a])
       /\ UNCHANGED emitted

\* unify(col_a, col_b): _union(a, b) links b's root under a's root, then
\* a's (new) root gets a variable if it has none, named after col_a.  The
\* callers discard the result: a join emits no text.
Unify(a, b) ==
    LET p1 == Halve(parent, a)
        ra == Root(parent, a)
        p2 == Halve(p1, b)
        rb == Root(p1, b)
        p3 == IF ra # rb THEN [p2 EXCEPT ![rb] = ra] ELSE p2
        p4 == Halve(p3, a)
        r  == Root(p3, a)
    IN /\ parent' = p4
       /\ IF r \in DOMAIN varmap
          THEN UNCHANGED <<varmap, counter>>
          ELSE /\ varmap' = Assign(r, Fresh(ColVar[a]))
               /\ counter' = FreshCounter(ColVar[a])
       /\ UNCHANGED emitted

\* lookup(col): the root's variable if it has one (written into a body
\* atom), else None (the body atom gets "_").
Lookup(k) ==
    LET r == Root(parent, k)
    IN /\ parent' = Halve(parent, k)
       /\ emitted' = IF r \in DOMAIN varmap
                     THEN emitted \cup {<<k, varmap[r]>>}
                     ELSE emitted
       /\ UNCHANGED <<varmap, counter>>

(***************************************************************************)
(* The compile entry points.  Each creates a fresh _VarEnv and calls it in *)
(* a fixed order of phases:                                                *)
(*   compile_query: on/where (unify, get_var), head and order_by           *)
(*                  (get_var), body atoms (lookup);                        *)
(*   compile_rule:  join (unify), head (get_var), body atoms (lookup),     *)
(*                  condition literals (get_var, unify);                   *)
(*   compile_conditional_delete: env pre-seeded with X0..Xn for the        *)
(*                  target's columns, head and body written with them,     *)
(*                  then condition literals (get_var, unify).              *)
(***************************************************************************)
Phases == [query  |-> <<"where", "head", "body">>,
           rule   |-> <<"join", "head", "body", "cond">>,
           delete |-> <<"cond">>]

CanUnify  == phase \in {"where", "join", "cond"}
CanGetVar == phase \in {"where", "head", "cond"}
CanLookup == phase = "body"

\* A fresh _VarEnv as entry point m sets it up: compile_conditional_delete
\* writes X<i> into env._map for the target's own keys (and uses them in
\* the head and body atom it has already written); the others start empty.
\* Mutant: the delete seeds _map under the variable instead of the key.
SeededMapByVar(m) == IF m = "delete" THEN [v \in {DelVar[k] : k \in DelKeys} |-> Plain(v)]
                                     ELSE [k \in {} |-> Plain(ColVar[k])]
SeededMap(m) == IF m = "delete" THEN [k \in DelKeys |-> Plain(DelVar[k])]
                                ELSE [k \in {} |-> Plain(ColVar[k])]
SeededText(m) == IF m = "delete" THEN {<<k, Plain(DelVar[k])>> : k \in DelKeys}
                                 ELSE {}

Init == \E m \in Modes :
    /\ mode = m
    /\ phase = Phases[m][1]
    /\ parent = [k \in Keys |-> k]
    /\ counter = 0
    /\ varmap = SeededMap(m)
    /\ emitted = SeededText(m)

PhaseIndex == CHOOSE i \in DOMAIN Phases[mode] : Phases[mode][i] = phase

\* The function moves on to its next group of env calls.
NextPhase ==
    /\ PhaseIndex < Len(Phases[mode])
    /\ phase' = Phases[mode][PhaseIndex + 1]
    /\ UNCHANGED <<parent, varmap, counter, mode, emitted>>

\* The function returns; the caller compiles something else next, with a
\* new environment.
Finish ==
    /\ PhaseIndex = Len(Phases[mode])
    /\ \E m \in Modes :
          /\ mode' = m
          /\ phase' = Phases[m][1]
          /\ parent' = [k \in Keys |-> k]
          /\ counter' = 0
          /\ varmap' = SeededMap(m)
          /\ emitted' = SeededText(m)

Next ==
    \/ \E k \in Keys : CanGetVar /\ GetVar(k) /\ UNCHANGED <<mode, phase>>
    \/ \E a, b \in Keys : CanUnify /\ Unify(a, b) /\ UNCHANGED <<mode, phase>>
    \/ \E k \in Keys : CanLookup /\ Lookup(k) /\ UNCHANGED <<mode, phase>>
    \/ NextPhase
    \/ Finish

Spec == Init /\ [][Next]_vars

-----------------------------------------------------------------------------
(***************************************************************************)
(* Properties.                                                             *)
(***************************************************************************)

SameClass(k1, k2) == Root(parent, k1) = Root(parent, k2)

TypeOK ==
    /\ parent \in [Keys -> Keys]
    /\ DOMAIN varmap \subseteq Keys /\ \A r \in DOMAIN varmap : varmap[r] \in VarName
    /\ counter \in 0 .. Cardinality(Keys)
    /\ mode \in Modes
    /\ emitted \subseteq Keys \X VarName

\* No accidental join: two columns the program never equated are never
\* written with the same variable name, whatever order get_var, unify and
\* lookup ran in (get_var/unify's disambiguation against every name in
\* _map, including the stale names of roots that unify has since absorbed).
NoAccidentalJoin ==
    \A e1, e2 \in emitted : e1[2] = e2[2] => SameClass(e1[1], e2[1])

\* Spec 3.3: after compilation, two columns that have been unified resolve
\* to the same variable name in every position of the output text.  This
\* is about unify() running after a variable was already written for the
\* absorbed root (rb's old name stays in the text, the merged class gets
\* another), and about the pre-seeded X<i> of a conditional delete.
UnifiedColumnsShareVariable ==
    \A e1, e2 \in emitted : SameClass(e1[1], e2[1]) => e1[2] = e2[2]

\* The union-find implements the abstract join classes of VarClasses: the
\* classes are the sets of keys with a common root; get_var and lookup
\* (whose path halving rewrites parent) never change them, and unify(a, b)
\* merges exactly the classes of a and b.
JoinClasses == {{j \in Keys : SameClass(j, k)} : k \in Keys}

Abstract == INSTANCE VarClasses WITH classes <- JoinClasses

ImplementsVarClasses == Abstract!Spec
=============================================================================
