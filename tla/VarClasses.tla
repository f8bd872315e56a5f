----------------------------- MODULE VarClasses -----------------------------
(***************************************************************************)
(* What the compiler's variable environment promises, abstractly: within  *)
(* one compilation the column keys are partitioned into join classes.     *)
(* Classes only ever merge (a Column = Column join); a new compilation    *)
(* starts from singletons.  Resolving a column never changes the classes. *)
(***************************************************************************)
CONSTANT Keys

VARIABLE classes

Singletons == {{k} : k \in Keys}

ClassOf(k) == CHOOSE c \in classes : k \in c

Init == classes = Singletons

\* Two columns are equated: their classes become one.
Merge(a, b) ==
    classes' = (classes \ {ClassOf(a), ClassOf(b)}) \cup {ClassOf(a) \cup ClassOf(b)}

\* The compilation ends; the next one has its own environment.
Reset == classes' = Singletons

Next == (\E a, b \in Keys : Merge(a, b)) \/ Reset

Spec == Init /\ [][Next]_classes
=============================================================================
