----------------------------- MODULE MC_VarEnv -----------------------------
(***************************************************************************)
(* Two relations, employee (e) and dept (d), with two columns each.       *)
(* e.id and d.id share the variable base Id, so get_var must              *)
(* disambiguate; d.x0 has base X0, which is also the positional variable  *)
(* a conditional delete on employee gives e.id.                            *)
(***************************************************************************)
EXTENDS VarEnv

MCKeys == {"e.id", "e.dept", "d.id", "d.x0"}
MCBases == {"Id", "Dept", "X0", "X1"}
MCColVar == [k \in MCKeys |->
                CASE k = "e.id"   -> "Id"
                  [] k = "e.dept" -> "Dept"
                  [] k = "d.id"   -> "Id"
                  [] k = "d.x0"   -> "X0"]
MCDelKeys == {"e.id", "e.dept"}
MCDelVar == [k \in MCDelKeys |-> IF k = "e.id" THEN "X0" ELSE "X1"]
MCModesAll == {"query", "rule", "delete"}

\* The checking model of the passing run: three keys, e.id and d.id sharing
\* the base Id, d.x0 colliding with the X0 a delete on employee seeds.
MCKeys3 == {"e.id", "d.id", "d.x0"}
MCColVar3 == [k \in MCKeys3 |-> MCColVar[k]]
MCDelKeys1 == {"e.id"}
MCDelVar1 == [k \in MCDelKeys1 |-> "X0"]
MCModesQuery == {"query"}
MCModesDelete == {"delete"}
=============================================================================
