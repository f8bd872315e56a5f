----------------------------- MODULE DocsSyntax -----------------------------
(***************************************************************************)
(* scripts/migrate_docs_syntax.py: rewrites Markdown documentation from    *)
(* the old Datalog syntax (:-  ?-  % comments  .dl  trailing dots) to the  *)
(* new one (<-  ?  //  .idl, no trailing dots).  migrate_file walks the    *)
(* lines of a file with a code-fence state machine; lines of a Datalog,    *)
(* Prolog, untagged or EBNF block go through migrate_code_line, lines      *)
(* outside a block through migrate_prose_line.                             *)
(*                                                                         *)
(* The rewriting is what the properties are about, so a line is kept as   *)
(* a sequence of one-character strings and every string operation the     *)
(* script calls (strip, replace, the regular expressions, the two string   *)
(* scanners) is defined by what it does to such a sequence.               *)
(***************************************************************************)
EXTENDS Naturals, Sequences, SequencesExt

CONSTANTS
    Docs,       \* the files the script may be run on: sequences of lines
    MaxRuns     \* bound: invocations of the script

None == "None"

Digit == {"0", "1", "2", "3", "4", "5", "6", "7", "8", "9"}
UpperSeq == <<"A", "B", "C", "D", "E", "F", "G", "H", "I", "J", "K", "L", "M",
              "N", "O", "P", "Q", "R", "S", "T", "U", "V", "W", "X", "Y", "Z">>
LowerSeq == <<"a", "b", "c", "d", "e", "f", "g", "h", "i", "j", "k", "l", "m",
              "n", "o", "p", "q", "r", "s", "t", "u", "v", "w", "x", "y", "z">>
Upper == ToSet(UpperSeq)
Alnum == Digit \cup Upper \cup ToSet(LowerSeq)
WordCh == Alnum \cup {"_"}          \* \w, the characters around a \b
WS == {" ", "\t"}                   \* what strip() and \s remove

\* str.lower() of a sequence of characters
Lower(s) == [k \in DOMAIN s |->
                IF s[k] \in Upper
                THEN LowerSeq[CHOOSE j \in 1..26 : UpperSeq[j] = s[k]]
                ELSE s[k]]

RECURSIVE RStrip(_), LStrip(_)
RStrip(s) == IF s # <<>> /\ Last(s) \in WS THEN RStrip(Front(s)) ELSE s
LStrip(s) == IF s # <<>> /\ Head(s) \in WS THEN LStrip(Tail(s)) ELSE s
Strip(s)  == LStrip(RStrip(s))

StartsWith(s, p) == IsPrefix(p, s)
EndsWith(s, p)   == Len(p) <= Len(s) /\ SubSeq(s, Len(s) - Len(p) + 1, Len(s)) = p
From(s, k)       == SubSeq(s, k, Len(s))     \* s[k-1:]

\* str.replace: every occurrence of old, left to right, without overlap.
RECURSIVE Replace(_, _, _)
Replace(s, old, new) ==
    IF Len(s) < Len(old) THEN s
    ELSE IF StartsWith(s, old) THEN new \o Replace(From(s, Len(old) + 1), old, new)
    ELSE <<Head(s)>> \o Replace(Tail(s), old, new)

Dot  == <<".">>
Dl   == <<".", "d", "l">>
Idl  == <<".", "i", "d", "l">>
Tick == "tick"   \* a backtick (SANY refuses one inside a string literal)
Fence == <<Tick, Tick, Tick>>
Slashes == <<"/", "/">>

\* re.sub(r'\.dl\b', '.idl', s), and with prose = TRUE the prose pattern
\* r'\.dl\b(?!\.)(?!l)', which also refuses a following dot.
RECURSIVE SubDl(_, _)
SubDl(s, prose) ==
    IF s = <<>> THEN s
    ELSE IF /\ StartsWith(s, Dl)
            /\ Len(s) > 3 => (s[4] \notin WordCh /\ ~(prose /\ s[4] = "."))
         THEN Idl \o SubDl(From(s, 4), prose)
    ELSE <<Head(s)>> \o SubDl(Tail(s), prose)
DlToIdl(s) == SubDl(s, FALSE)

(***************************************************************************)
(* split_code_and_comment                                                 *)
(***************************************************************************)

\* rest_stripped.split()[0], or '' when rest is blank
FirstWord(s) ==
    LET t == LStrip(s)
        n == SelectInSeq(t, LAMBDA c : c \in WS)
    IN  IF n = 0 THEN t ELSE SubSeq(t, 1, n - 1)

AllIn(s, a, b, S) == \A k \in a..b : s[k] \in S

\* re.match(r'\s*(\d+|[A-Z][a-zA-Z0-9]?)\s*[,).><=!;\s]', s)
ModuloMatch(s) ==
    \E a, b, c \in 0..Len(s) :
        /\ a < b /\ b <= c /\ c < Len(s)
        /\ AllIn(s, 1, a, WS)
        /\ \/ AllIn(s, a + 1, b, Digit)
           \/ s[a + 1] \in Upper /\ b - a <= 2 /\ AllIn(s, a + 2, b, Alnum)
        /\ AllIn(s, b + 1, c, WS)
        /\ s[c + 1] \in {",", ")", ".", ">", "<", "=", "!", ";"} \cup WS

\* The % at k is taken for a modulo operator.
IsModulo(line, k) ==
    LET before == RStrip(SubSeq(line, 1, k - 1))
        rest   == From(line, k + 1)
        fw     == FirstWord(rest)
    IN  /\ before # <<>>
        /\ Last(before) \in Alnum \cup {")", "_"}
        /\ ModuloMatch(rest \o <<" ">>)
        /\ fw # <<>>
        /\ fw[1] \in Digit \/ (Len(fw) <= 2 /\ fw[1] \in Upper)

RECURSIVE SplitFrom(_, _, _)
SplitFrom(line, k, inString) ==
    IF k > Len(line) THEN [code |-> line, comment |-> None]
    ELSE CASE line[k] = "\"" -> SplitFrom(line, k + 1, ~inString)
           [] line[k] = "\\" /\ inString /\ k < Len(line) ->
                 SplitFrom(line, k + 2, inString)
           [] line[k] = "%" /\ ~inString /\ ~IsModulo(line, k) ->
                 [code |-> SubSeq(line, 1, k - 1), comment |-> From(line, k + 1)]
           [] OTHER -> SplitFrom(line, k + 1, inString)

SplitCodeAndComment(line) == SplitFrom(line, 1, FALSE)

\* replace_outside_strings: a quote toggles unless the character before
\* it is a backslash.
RECURSIVE ReplaceFrom(_, _, _, _, _)
ReplaceFrom(line, old, new, k, inString) ==
    IF k > Len(line) THEN <<>>
    ELSE IF line[k] = "\"" /\ (k = 1 \/ line[k - 1] # "\\")
         THEN <<line[k]>> \o ReplaceFrom(line, old, new, k + 1, ~inString)
    ELSE IF ~inString /\ k + Len(old) - 1 <= Len(line)
            /\ SubSeq(line, k, k + Len(old) - 1) = old
         THEN new \o ReplaceFrom(line, old, new, k + Len(old), inString)
    ELSE <<line[k]>> \o ReplaceFrom(line, old, new, k + 1, inString)

ReplaceOutsideStrings(line, old, new) == ReplaceFrom(line, old, new, 1, FALSE)

\* remove_trailing_dot (the decimal-number branch falls through).
RemoveTrailingDot(line) ==
    LET st == RStrip(line)
    IN  IF \/ st = <<>>
           \/ ~EndsWith(st, Dot)
           \/ StartsWith(LStrip(st), Dot)
           \/ EndsWith(st, <<".", ".", ".">>)
        THEN line
        ELSE Front(st) \o From(line, Len(st) + 1)

Neck    == <<":", "-">>          \* the old rule operator :-
NewNeck == <<"<", "-">>
Quoted(t) == <<"\"">> \o t \o <<"\"">>

\* The code-line path of migrate_code_line, after the comment is split off.
MigrateCode(code) ==
    LET t1 == ReplaceOutsideStrings(code, <<" ">> \o Neck \o <<" ">>, <<" ">> \o NewNeck \o <<" ">>)
        t2 == ReplaceOutsideStrings(t1, <<"\t">> \o Neck \o <<" ">>, <<"\t">> \o NewNeck \o <<" ">>)
        t3 == IF EndsWith(RStrip(t2), Neck)
              THEN Front(Front(RStrip(t2))) \o NewNeck ELSE t2
        t4 == ReplaceOutsideStrings(t3, <<")">> \o Neck, <<")">> \o NewNeck)
        t5 == ReplaceOutsideStrings(t4, <<")", " ">> \o Neck, <<")", " ">> \o NewNeck)
        ls   == LStrip(t5)
        lead == SubSeq(t5, 1, Len(t5) - Len(ls))
        t6 == CASE StartsWith(ls, <<"?", "-", " ">>) -> lead \o <<"?">> \o From(ls, 4)
                [] StartsWith(ls, <<"?", "-">>)      -> lead \o <<"?">> \o From(ls, 3)
                [] OTHER                             -> t5
    IN  DlToIdl(RemoveTrailingDot(t6))

\* migrate_code_line
MigrateCodeLine(line, inEbnf) ==
    LET st == Strip(line)
        m  == DlToIdl(line)
        sp == SplitCodeAndComment(IF StartsWith(st, Dot) THEN m ELSE line)
        code    == RStrip(sp.code)
        trailWs == From(sp.code, Len(code) + 1)
        comment == IF sp.comment = None THEN <<>>
                   ELSE trailWs \o Slashes \o DlToIdl(sp.comment)
    IN  CASE inEbnf ->
               Replace(Replace(line, Quoted(Neck), Quoted(NewNeck)),
                       Quoted(<<"?", "-">>), Quoted(<<"?">>))
          [] StartsWith(st, Slashes) -> m
          [] StartsWith(st, Dot) -> IF sp.comment = None THEN m ELSE code \o comment
          [] OTHER -> MigrateCode(code) \o comment

\* The body of one code span in migrate_inline_code.
MigrateSpan(code) ==
    LET c1 == Replace(code, <<" ">> \o Neck \o <<" ">>, <<" ">> \o NewNeck \o <<" ">>)
        c2 == Replace(c1, <<")">> \o Neck \o <<" ">>, <<")", " ">> \o NewNeck \o <<" ">>)
        c3 == Replace(c2, Neck, NewNeck)
        c4 == IF StartsWith(c3, <<"?", "-">>) THEN <<"?">> \o From(c3, 3) ELSE c3
        c5 == IF /\ EndsWith(c4, Dot) /\ ~StartsWith(c4, Dot)
                 /\ ~(Len(c4) >= 2 /\ c4[Len(c4) - 1] \in Digit)
              THEN Front(c4) ELSE c4
    IN  DlToIdl(c5)

\* migrate_inline_code: each `...` span is migrated; an unclosed backtick
\* and the rest of the line after it are kept as they are.
RECURSIVE MigrateInlineCode(_)
MigrateInlineCode(s) ==
    IF s = <<>> THEN s
    ELSE IF Head(s) # Tick THEN <<Head(s)>> \o MigrateInlineCode(Tail(s))
    ELSE LET e == SelectInSeq(Tail(s), LAMBDA c : c = Tick)
         IN  IF e = 0 THEN s
             ELSE <<Tick>> \o MigrateSpan(SubSeq(Tail(s), 1, e - 1)) \o <<Tick>>
                  \o MigrateInlineCode(From(Tail(s), e + 1))

\* migrate_prose_line
MigrateProseLine(line) ==
    MigrateInlineCode(SubDl(Replace(line, <<Tick>> \o Dl \o <<Tick>>,
                                          <<Tick>> \o Idl \o <<Tick>>), TRUE))

\* is_datalog_code_block
IsDatalogCodeBlock(lang) ==
    Lower(Strip(lang)) \in {<<>>, <<"d", "a", "t", "a", "l", "o", "g">>,
                                  <<"p", "r", "o", "l", "o", "g">>}

(***************************************************************************)
(* migrate_file, called by main once per invocation of the script.         *)
(***************************************************************************)
VARIABLES
    disk,       \* the file's lines as stored
    runs,       \* invocations of the script so far
    dry,        \* the run's --dry-run flag
    pc,         \* "idle" between runs, "scan" inside migrate_file
    lines,      \* original.split('\n')
    k,          \* index of the next line of the for loop
    newLines,   \* new_lines
    inCode,     \* in_code_block
    fenceLang,  \* code_fence_lang
    inEbnf,     \* in_ebnf
    writes      \* history: runs that wrote a changed file back

vars == <<disk, runs, dry, pc, lines, k, newLines, inCode, fenceLang, inEbnf, writes>>

Init ==
    /\ disk \in Docs
    /\ runs = 0 /\ dry = FALSE /\ pc = "idle"
    /\ lines = <<>> /\ k = 1 /\ newLines = <<>>
    /\ inCode = FALSE /\ fenceLang = <<>> /\ inEbnf = FALSE
    /\ writes = 0

\* main: the script is started, with or without --dry-run; migrate_file
\* reads the file and resets the fence state.
StartRun ==
    /\ pc = "idle" /\ runs < MaxRuns
    /\ \E d \in BOOLEAN : dry' = d
    /\ runs' = runs + 1 /\ pc' = "scan"
    /\ lines' = disk /\ k' = 1 /\ newLines' = <<>>
    /\ inCode' = FALSE /\ fenceLang' = <<>> /\ inEbnf' = FALSE
    /\ UNCHANGED <<disk, writes>>

Line == lines[k]
IsFence == StartsWith(Strip(Line), Fence)

\* One iteration of the loop that appends new to new_lines.
Emit(new) ==
    /\ newLines' = Append(newLines, new)
    /\ k' = k + 1
    /\ UNCHANGED <<disk, runs, dry, pc, lines, writes>>

Scanning == pc = "scan" /\ k <= Len(lines)

\* Any line starting with ``` closes an open block.
CloseFence ==
    /\ Scanning /\ IsFence /\ inCode
    /\ inCode' = FALSE /\ inEbnf' = FALSE
    /\ Emit(Line)
    /\ UNCHANGED fenceLang

\* An opening fence records its language; ```prolog becomes ```datalog.
OpenFence ==
    /\ Scanning /\ IsFence /\ ~inCode
    /\ LET lang == Strip(From(Strip(Line), 4))
       IN  /\ inCode' = TRUE /\ fenceLang' = lang
           /\ inEbnf' = (Lower(lang) = <<"e", "b", "n", "f">>)
           /\ Emit(IF Lower(lang) = <<"p", "r", "o", "l", "o", "g">>
                   THEN Replace(Line, <<"p", "r", "o", "l", "o", "g">>,
                                      <<"d", "a", "t", "a", "l", "o", "g">>)
                   ELSE Line)

\* A line inside a block: migrated only in Datalog-like and EBNF blocks.
BlockLine ==
    /\ Scanning /\ ~IsFence /\ inCode
    /\ Emit(IF IsDatalogCodeBlock(fenceLang) \/ inEbnf
            THEN MigrateCodeLine(Line, inEbnf) ELSE Line)
    /\ UNCHANGED <<inCode, fenceLang, inEbnf>>

ProseLine ==
    /\ Scanning /\ ~IsFence /\ ~inCode
    /\ Emit(MigrateProseLine(Line))
    /\ UNCHANGED <<inCode, fenceLang, inEbnf>>

\* The joined result is written back when it differs and --dry-run is off.
Finish ==
    /\ pc = "scan" /\ k > Len(lines)
    /\ pc' = "idle"
    /\ IF newLines # lines /\ ~dry
       THEN disk' = newLines /\ writes' = writes + 1
       ELSE UNCHANGED <<disk, writes>>
    /\ UNCHANGED <<runs, dry, lines, k, newLines, inCode, fenceLang, inEbnf>>

Next ==
    \/ StartRun
    \/ CloseFence \/ OpenFence \/ BlockLine \/ ProseLine
    \/ Finish

Spec == Init /\ [][Next]_vars

TypeOK ==
    /\ runs \in 0..MaxRuns /\ dry \in BOOLEAN /\ pc \in {"idle", "scan"}
    /\ k \in 1..Len(lines) + 1 /\ Len(newLines) = k - 1
    /\ inCode \in BOOLEAN /\ inEbnf \in BOOLEAN /\ writes \in 0..runs

\* The script skips lines that are "purely comments (already migrated ...)"
\* (migrate_code_line), so running it again over documentation it has
\* already migrated must leave it alone: no file is rewritten twice.
MigrationIdempotent == writes <= 1

=============================================================================
