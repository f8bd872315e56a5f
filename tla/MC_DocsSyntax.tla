---------------------------- MODULE MC_DocsSyntax ----------------------------
(***************************************************************************)
(* The files the script is run on: one untagged (Datalog) code block      *)
(* holding one line over a small alphabet, and the same lines as prose.   *)
(***************************************************************************)
EXTENDS DocsSyntax

\* bound: the characters and length of a line
MCChars == {"a", "5", ".", "%"}
MCMaxLen == 6

MCFence == <<Tick, Tick, Tick>>

MCDocs == {<<MCFence, l, MCFence>> : l \in SeqOf(MCChars, MCMaxLen)}
    \cup {<<l>> : l \in SeqOf(MCChars, 3)}
=============================================================================
