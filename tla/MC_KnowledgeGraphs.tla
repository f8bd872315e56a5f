------------------------- MODULE MC_KnowledgeGraphs -------------------------
(* Two KG names, one of them the server default; the passing run connects  *)
(* without initial_kg, as the migration CLI does.                          *)
EXTENDS KnowledgeGraphs

\* Where-conditions: trees of depth 2 over one filter comparison p and one
\* join comparison j (312 conditions).
MCCmps == {"p", "j"}
MCJoins == {"j"}

=============================================================================
