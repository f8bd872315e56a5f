------------------------------- MODULE OrSplit -------------------------------
(***************************************************************************)
(* How compile_query turns a where-condition into Datalog filters         *)
(* (compiler.py): _has_or decides whether to split, compile_or_branches   *)
(* splits on the Or nodes, compile_bool_expr compiles one branch and      *)
(* raises on an Or, and the query, or its aggregate variant, is built     *)
(* from where_parts or from one body per branch.  KnowledgeGraph.query    *)
(* executes the branches and concatenates their rows.                     *)
(*                                                                         *)
(* A condition is a tree of And, Or and Not over leaf comparisons.  A     *)
(* leaf in Joins is a column = column comparison: _compile_comparison     *)
(* unifies the two columns in the shared environment and returns "", so   *)
(* the equality holds in every body the query has.  A row is abstracted  *)
(* to the truth values of the leaf comparisons on it.                     *)
(***************************************************************************)
EXTENDS Naturals, Sequences

CONSTANTS
    Cmps,       \* leaf comparisons
    Joins,      \* the leaves that are column = column comparisons
    MaxDepth    \* bound: depth of a condition tree

ASSUME Joins \subseteq Cmps

Leaf(c)    == [t |-> "cmp", c |-> c]
AndE(l, r) == [t |-> "and", l |-> l, r |-> r]
OrE(l, r)  == [t |-> "or", l |-> l, r |-> r]
NotE(o)    == [t |-> "not", o |-> o]

RECURSIVE TreesOf(_)
TreesOf(d) ==
    IF d = 0 THEN {Leaf(c) : c \in Cmps}
    ELSE LET S == TreesOf(d - 1)
         IN  S \cup {AndE(l, r) : l, r \in S} \cup {OrE(l, r) : l, r \in S}
               \cup {NotE(o) : o \in S}

\* The where-conditions a query may be given.
Conditions == TreesOf(MaxDepth)

\* A compiled body literal: a comparison, the "" of a join, or !(...).
Lit(c)    == [k |-> "cmp", c |-> c]
Blank     == [k |-> "blank"]
NegLit(s) == [k |-> "neg", s |-> s]

\* The outcome of a compile call: it raised, or it returned val.
Raise  == [err |-> TRUE, val |-> <<>>]
Ok(v)  == [err |-> FALSE, val |-> v]

\* _has_or
RECURSIVE HasOr(_)
HasOr(e) ==
    CASE e.t = "or"  -> TRUE
      [] e.t = "and" -> HasOr(e.l) \/ HasOr(e.r)
      [] e.t = "not" -> HasOr(e.o)
      [] e.t = "cmp" -> FALSE

\* _compile_comparison: a join unifies and returns "".
CompileComparison(c) == IF c \in Joins THEN Blank ELSE Lit(c)

\* Mutant: an Or is compiled like an And instead of raising.
RECURSIVE CompileBoolExprOrAsAnd(_)
CompileBoolExprOrAsAnd(e) ==
    CASE e.t = "cmp" -> Ok(<<CompileComparison(e.c)>>)
      [] e.t \in {"and", "or"} ->
            LET l == CompileBoolExprOrAsAnd(e.l)
                r == CompileBoolExprOrAsAnd(e.r)
            IN  IF l.err \/ r.err THEN Raise ELSE Ok(l.val \o r.val)
      [] e.t = "not" ->
            LET p == CompileBoolExprOrAsAnd(e.o)
            IN  IF p.err THEN Raise ELSE Ok(<<NegLit(p.val)>>)

\* compile_bool_expr: And concatenates, Not wraps, Or raises.
RECURSIVE CompileBoolExpr(_)
CompileBoolExpr(e) ==
    CASE e.t = "cmp" -> Ok(<<CompileComparison(e.c)>>)
      [] e.t = "and" ->
            LET l == CompileBoolExpr(e.l)
                r == CompileBoolExpr(e.r)
            IN  IF l.err \/ r.err THEN Raise ELSE Ok(l.val \o r.val)
      [] e.t = "or"  -> Raise
      [] e.t = "not" ->
            LET p == CompileBoolExpr(e.o)
            IN  IF p.err THEN Raise ELSE Ok(<<NegLit(p.val)>>)

\* Mutant: the two sides of an Or are merged into one body.
RECURSIVE CompileOrBranchesMerged(_)
CompileOrBranchesMerged(e) ==
    IF e.t = "or"
    THEN LET l == CompileOrBranchesMerged(e.l)
             r == CompileOrBranchesMerged(e.r)
         IN  IF l.err \/ r.err THEN Raise ELSE Ok(<<l.val[1] \o r.val[1]>>)
    ELSE LET b == CompileBoolExpr(e)
         IN  IF b.err THEN Raise ELSE Ok(<<b.val>>)

\* compile_or_branches: one body per maximal non-Or subtree under the Ors
\* at the root.
RECURSIVE CompileOrBranches(_)
CompileOrBranches(e) ==
    IF e.t = "or"
    THEN LET l == CompileOrBranches(e.l)
             r == CompileOrBranches(e.r)
         IN  IF l.err \/ r.err THEN Raise ELSE Ok(l.val \o r.val)
    ELSE LET b == CompileBoolExpr(e)
         IN  IF b.err THEN Raise ELSE Ok(<<b.val>>)

\* The "" literals are removed before they reach a body.
NonBlank(s) == SelectSeq(s, LAMBDA x : x # Blank)

\* compile_query's where step: or_branches when _has_or, else where_parts.
CompileWhere(e) ==
    IF HasOr(e)
    THEN LET b == CompileOrBranches(e)
         IN  IF b.err THEN Raise
             ELSE Ok([split |-> TRUE, parts |-> <<>>, branches |-> b.val])
    ELSE LET p == CompileBoolExpr(e)
         IN  IF p.err THEN Raise
             ELSE Ok([split |-> FALSE, parts |-> NonBlank(p.val), branches |-> <<>>])

\* _compile_agg_query: one body from where_parts; or_branches is passed
\* in and never read.
AggQueryBody(w) == <<w.parts>>

\* The plain query: one body per branch of a split, else where_parts.
PlainQueryBodies(w) ==
    IF w.split THEN [i \in DOMAIN w.branches |-> NonBlank(w.branches[i])]
    ELSE <<w.parts>>

\* compile_query hands a select with an aggregate to _compile_agg_query.
QueryBodies(w, agg) == IF agg THEN AggQueryBody(w) ELSE PlainQueryBodies(w)

\* compile_rule: _process_join_condition only unifies, then compile_bool_expr
\* compiles the whole condition, so an Or anywhere in it raises; the ""
\* of the joins are dropped from the body.
CompileRule(e) ==
    LET p == CompileBoolExpr(e)
    IN  IF p.err THEN Raise ELSE Ok(NonBlank(p.val))

-----------------------------------------------------------------------------
(* Meaning of a condition and of the compiled queries on one row.          *)

Rows == [Cmps -> BOOLEAN]

RECURSIVE Eval(_, _)
Eval(e, row) ==
    CASE e.t = "cmp" -> row[e.c]
      [] e.t = "and" -> Eval(e.l, row) /\ Eval(e.r, row)
      [] e.t = "or"  -> Eval(e.l, row) \/ Eval(e.r, row)
      [] e.t = "not" -> ~Eval(e.o, row)

RECURSIVE JoinsOf(_)
JoinsOf(e) ==
    CASE e.t = "cmp" -> {e.c} \cap Joins
      [] e.t = "not" -> JoinsOf(e.o)
      [] e.t \in {"and", "or"} -> JoinsOf(e.l) \cup JoinsOf(e.r)

RECURSIVE Holds(_, _)
Holds(lit, row) ==
    CASE lit.k = "cmp"   -> row[lit.c]
      [] lit.k = "blank" -> TRUE
      [] lit.k = "neg"   -> ~\A i \in DOMAIN lit.s : Holds(lit.s[i], row)

\* A row is returned by one of the queries: the unified joins hold in
\* every body, and the row satisfies that body's literals.
Returned(e, agg, row) ==
    LET bodies == QueryBodies(CompileWhere(e).val, agg)
    IN  /\ \A j \in JoinsOf(e) : row[j]
        /\ \E i \in DOMAIN bodies : \A n \in DOMAIN bodies[i] : Holds(bodies[i][n], row)

\* Every join comparison is a conjunct of the whole condition.
RECURSIVE JoinsAreConjuncts(_)
JoinsAreConjuncts(e) ==
    CASE e.t = "cmp" -> TRUE
      [] e.t = "and" -> JoinsAreConjuncts(e.l) /\ JoinsAreConjuncts(e.r)
      [] e.t \in {"or", "not"} -> JoinsOf(e) = {}

RECURSIVE SubTrees(_)
SubTrees(e) ==
    {e} \cup CASE e.t = "cmp" -> {}
              [] e.t = "not" -> SubTrees(e.o)
              [] e.t \in {"and", "or"} -> SubTrees(e.l) \cup SubTrees(e.r)

\* Reference: an Or that is not on the chain of Ors from the root.
RECURSIVE OrOffRootSpine(_)
OrOffRootSpine(e) ==
    IF e.t = "or" THEN OrOffRootSpine(e.l) \/ OrOffRootSpine(e.r)
    ELSE \E s \in SubTrees(e) : s.t = "or"

\* The queries compile_query returns for (e, agg), their rows concatenated,
\* return exactly the rows on which e holds.
FiltersLikeWhere(e, agg) ==
    \A row \in Rows : Returned(e, agg, row) <=> Eval(e, row)

=============================================================================
