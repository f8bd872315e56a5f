---------------------------- MODULE MC_Migration ----------------------------
(***************************************************************************)
(* The models makemigrations may see: relations a, b, d, rule d (body    *)
(* reading a) and index i on a.  The four ModelStates exercise every      *)
(* detect_changes phase: new, modified and removed relations, new,        *)
(* replaced and removed rules, new, modified and removed indexes.          *)
(***************************************************************************)
EXTENDS MigrationExec, TLC

MCRels == {"a", "b", "d"}
MCRuleNames == {"d"}
MCIdxNames == {"i"}
MCCols == {"v1", "v2"}
MCClauses == {"d1", "d2"}
MCClauseRefs == [c \in MCClauses |-> {"a"}]
MCIdxParams == {"p1", "p2"}
MCNameOrder == <<"a", "b", "d", "i">>

\* S1: a.  S2: a, d with rule [d1], index i on a.  S3: a retyped, rule
\* [d2, d1], i retuned.  S4: only b.
S1 == [rels |-> "a" :> "v1", rules |-> <<>>, idx |-> <<>>]
S2 == [rels |-> ("a" :> "v1") @@ ("d" :> "v1"), rules |-> "d" :> <<"d1">>,
       idx |-> "i" :> [relation |-> "a", params |-> "p1"]]
S3 == [rels |-> ("a" :> "v2") @@ ("d" :> "v1"), rules |-> "d" :> <<"d2", "d1">>,
       idx |-> "i" :> [relation |-> "a", params |-> "p2"]]
S4 == [rels |-> "b" :> "v1", rules |-> <<>>, idx |-> <<>>]

MCStates == {S1, S2, S3, S4}
=============================================================================
