---------------------------- MODULE MigrationOps ----------------------------
(***************************************************************************)
(* The migration data: ModelState snapshots (migrations/state.py), the    *)
(* seven operations the autodetector produces with their forward and      *)
(* backward command lists (migrations/operations.py), and detect_changes  *)
(* (migrations/autodetector.py) as a pure operator.                        *)
(*                                                                         *)
(* Text is abstracted to what the store tells apart: a column list is a   *)
(* value of Cols, a compiled rule clause a value of Clauses (ClauseRefs    *)
(* gives the relations its body atoms name), and an index's               *)
(* {relation, column, metric, m, ef_construction, ef_search} dict a        *)
(* record [relation, params].  A command is a record naming the textual   *)
(* command it stands for.                                                  *)
(***************************************************************************)
EXTENDS Naturals, Sequences, SequencesExt

CONSTANTS
    Rels,        \* relation names (plain and derived)
    RuleNames,   \* rule (derived relation) names
    IdxNames,    \* index names
    Cols,        \* column lists
    Clauses,     \* compiled rule clauses
    ClauseRefs,  \* ClauseRefs[c]: relations referenced by clause c
    IdxParams,   \* index parameter tuples (column, metric, m, ef_*)
    NameOrder    \* all names in sorted() order

ASSUME ClauseRefs \in [Clauses -> SUBSET Rels]

(***************************************************************************)
(* ModelState: {relations: name -> cols, rules: name -> [clause],         *)
(* indexes: name -> info}.  Functions with the names as their domain.     *)
(***************************************************************************)
IdxInfo == [relation : Rels, params : IdxParams]

EmptyState == [rels |-> <<>>, rules |-> <<>>, idx |-> <<>>]

\* sorted(S) for a set of names.
Sorted(S) == SelectSeq(NameOrder, LAMBDA n : n \in S)

(***************************************************************************)
(* Operations and their command lists.                                     *)
(***************************************************************************)
CreateRelation(n, c) == [type |-> "CreateRelation", name |-> n, cols |-> c]
DropRelation(n, c)   == [type |-> "DropRelation", name |-> n, cols |-> c]
CreateRule(n, cl)    == [type |-> "CreateRule", name |-> n, clauses |-> cl]
DropRule(n, cl)      == [type |-> "DropRule", name |-> n, clauses |-> cl]
ReplaceRule(n, o, w) == [type |-> "ReplaceRule", name |-> n, old |-> o, new |-> w]
CreateIndex(n, i)    == [type |-> "CreateIndex", name |-> n, info |-> i]
DropIndex(n, i)      == [type |-> "DropIndex", name |-> n, info |-> i]

\* "+name(col: type, ...)", ".rel drop name", a clause "+head(..) <- ..",
\* ".rule drop name", ".index create name on rel(col) ...", ".index drop name".
SchemaCmd(n, c)    == [cmd |-> "schema", name |-> n, cols |-> c]
RelDropCmd(n)      == [cmd |-> "reldrop", name |-> n]
ClauseCmd(n, c)    == [cmd |-> "clause", name |-> n, clause |-> c]
RuleDropCmd(n)     == [cmd |-> "ruledrop", name |-> n]
IdxCreateCmd(n, i) == [cmd |-> "idxcreate", name |-> n, info |-> i]
IdxDropCmd(n)      == [cmd |-> "idxdrop", name |-> n]

ClauseCmds(n, cl) == [j \in DOMAIN cl |-> ClauseCmd(n, cl[j])]

\* Mutant: ReplaceRule's backward list re-adds the old clauses without
\* first dropping the new ones.
BackwardNoDrop(op) ==
    CASE op.type = "CreateRelation" -> <<RelDropCmd(op.name)>>
      [] op.type = "DropRelation"   -> <<SchemaCmd(op.name, op.cols)>>
      [] op.type = "CreateRule"     -> <<RuleDropCmd(op.name)>>
      [] op.type = "DropRule"       -> ClauseCmds(op.name, op.clauses)
      [] op.type = "ReplaceRule"    -> ClauseCmds(op.name, op.old)
      [] op.type = "CreateIndex"    -> <<IdxDropCmd(op.name)>>
      [] op.type = "DropIndex"      -> <<IdxCreateCmd(op.name, op.info)>>

\* Mutant: DropIndex's backward command recreates the index under its
\* relation's name.
BackwardIdxRelName(op) ==
    CASE op.type = "CreateRelation" -> <<RelDropCmd(op.name)>>
      [] op.type = "DropRelation"   -> <<SchemaCmd(op.name, op.cols)>>
      [] op.type = "CreateRule"     -> <<RuleDropCmd(op.name)>>
      [] op.type = "DropRule"       -> ClauseCmds(op.name, op.clauses)
      [] op.type = "ReplaceRule"    -> <<RuleDropCmd(op.name)>> \o ClauseCmds(op.name, op.old)
      [] op.type = "CreateIndex"    -> <<IdxDropCmd(op.name)>>
      [] op.type = "DropIndex"      -> <<IdxCreateCmd(op.info.relation, op.info)>>

Forward(op) ==
    CASE op.type = "CreateRelation" -> <<SchemaCmd(op.name, op.cols)>>
      [] op.type = "DropRelation"   -> <<RelDropCmd(op.name)>>
      [] op.type = "CreateRule"     -> ClauseCmds(op.name, op.clauses)
      [] op.type = "DropRule"       -> <<RuleDropCmd(op.name)>>
      [] op.type = "ReplaceRule"    -> <<RuleDropCmd(op.name)>> \o ClauseCmds(op.name, op.new)
      [] op.type = "CreateIndex"    -> <<IdxCreateCmd(op.name, op.info)>>
      [] op.type = "DropIndex"      -> <<IdxDropCmd(op.name)>>

Backward(op) ==
    CASE op.type = "CreateRelation" -> <<RelDropCmd(op.name)>>
      [] op.type = "DropRelation"   -> <<SchemaCmd(op.name, op.cols)>>
      [] op.type = "CreateRule"     -> <<RuleDropCmd(op.name)>>
      [] op.type = "DropRule"       -> ClauseCmds(op.name, op.clauses)
      [] op.type = "ReplaceRule"    -> <<RuleDropCmd(op.name)>> \o ClauseCmds(op.name, op.old)
      [] op.type = "CreateIndex"    -> <<IdxDropCmd(op.name)>>
      [] op.type = "DropIndex"      -> <<IdxCreateCmd(op.name, op.info)>>

(***************************************************************************)
(* detect_changes(old, new): nine loops, each over sorted names.           *)
(***************************************************************************)
Each(S, F(_)) == LET s == Sorted(S) IN FlattenSeq([j \in DOMAIN s |-> F(s[j])])

DetectChanges(old, new) ==
    LET oR == DOMAIN old.rels   nR == DOMAIN new.rels
        oQ == DOMAIN old.rules  nQ == DOMAIN new.rules
        oI == DOMAIN old.idx    nI == DOMAIN new.idx
    IN  Each(nR \ oR, LAMBDA n : <<CreateRelation(n, new.rels[n])>>)
     \o Each(oR \cap nR, LAMBDA n : IF old.rels[n] # new.rels[n]
                 THEN <<DropRelation(n, old.rels[n]), CreateRelation(n, new.rels[n])>>
                 ELSE <<>>)
     \o Each(oQ \ nQ, LAMBDA n : <<DropRule(n, old.rules[n])>>)
     \o Each(oQ \cap nQ, LAMBDA n : IF old.rules[n] # new.rules[n]
                 THEN <<ReplaceRule(n, old.rules[n], new.rules[n])>>
                 ELSE <<>>)
     \o Each(nQ \ oQ, LAMBDA n : <<CreateRule(n, new.rules[n])>>)
     \o Each(oR \ nR, LAMBDA n : <<DropRelation(n, old.rels[n])>>)
     \o Each(oI \ nI, LAMBDA n : <<DropIndex(n, old.idx[n])>>)
     \o Each(oI \cap nI, LAMBDA n : IF old.idx[n] # new.idx[n]
                 THEN <<DropIndex(n, old.idx[n]), CreateIndex(n, new.idx[n])>>
                 ELSE <<>>)
     \o Each(nI \ oI, LAMBDA n : <<CreateIndex(n, new.idx[n])>>)
=============================================================================
