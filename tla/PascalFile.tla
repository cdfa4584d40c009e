------------------------------ MODULE PascalFile ------------------------------
(* A file variable as the dialect describes it: a name, a sequence of         *)
(* elements - the characters of a text, the components of a typed file - and  *)
(* a place in it. Every statement on it is one step; how the elements are     *)
(* stored and what is read ahead is not visible here.                         *)
EXTENDS Naturals, Sequences

CONSTANTS Paths,      \* the names files can have
          NoPath,     \* a file variable before it is given a name
          Missing,    \* the content of a file that does not exist
          Newline, Space,
          Data(_),    \* what a statement may write, by the kind of the file
          Requests    \* the variables a statement may read, as their sorts

VARIABLES kind,       \* "text" or "typed"
          contents,   \* the elements of every file
          cut,        \* the files that end inside a component
          name,       \* the name given to the variable
          open,       \* the file it is open on, and how
          at,         \* how many elements have been read
          missed,     \* a component was asked for where there was none
          answer      \* what the last statement delivered

vars == <<kind, contents, cut, name, open, at, missed, answer>>

Closed == [path |-> NoPath, mode |-> "closed"]
Init ==
    /\ kind \in {"text", "typed"}
    /\ name = NoPath /\ open = Closed
    /\ at = 0 /\ missed = FALSE
    /\ answer.values = <<>>

---------------------------------------------------------------------------
(* What the statements that read a text deliver: places are numbers of        *)
(* characters passed, and one is looked for that has none or one of certain   *)
(* characters after it, and none of them before.                              *)

First(s, from, stops) ==
    CHOOSE k \in from..Len(s) :
        /\ k = Len(s) \/ k + 1 \in stops
        /\ \A j \in from + 1..k : j \notin stops
LineEnds(s) == {j \in DOMAIN s : s[j] = Newline}
Blanks(s) == {j \in DOMAIN s : s[j] \in {Space, Newline}}

LineEnd(s, k) == First(s, k, LineEnds(s))
WordEnd(s, k) ==
    IF k = Len(s) THEN k
    ELSE IF s[k + 1] = Newline THEN k ELSE First(s, k + 1, Blanks(s))
NumberStart(s, k) == First(s, k, DOMAIN s \ Blanks(s))
NumberEnd(s, k) == First(s, NumberStart(s, k), Blanks(s))
NextLine(s, k) == IF LineEnd(s, k) = Len(s) THEN Len(s) ELSE LineEnd(s, k) + 1

(* One variable: where reading it ends, and its value.                        *)
PlaceAfter(s, k, sort, wholeLine) ==
    CASE sort = "char" -> IF k = Len(s) THEN k ELSE k + 1
      [] sort = "string" -> IF wholeLine THEN LineEnd(s, k) ELSE WordEnd(s, k)
      [] sort = "number" -> NumberEnd(s, k)
ValueAt(s, k, sort, wholeLine) ==
    CASE sort = "char" -> IF k = Len(s) THEN <<0>> ELSE <<s[k + 1]>>
      [] sort = "string" -> SubSeq(s, k + 1, PlaceAfter(s, k, sort, wholeLine))
      [] sort = "number" -> SubSeq(s, NumberStart(s, k) + 1, NumberEnd(s, k))
(* The variables of a statement, from the left.                               *)
Places(s, k, sorts, wholeLine) ==
    LET place[j \in 0..Len(sorts)] ==
            IF j = 0 THEN k ELSE PlaceAfter(s, place[j - 1], sorts[j], wholeLine)
    IN  place
ValuesRead(s, k, sorts, wholeLine) ==
    LET place == Places(s, k, sorts, wholeLine)
    IN  [j \in DOMAIN sorts |-> ValueAt(s, place[j - 1], sorts[j], wholeLine)]

---------------------------------------------------------------------------
Truth(p) == IF p THEN <<<<1>>>> ELSE <<<<0>>>>
Text == contents[open.path]
Length == IF Text = Missing THEN 0 ELSE Len(Text)
Answered(what, values) == answer' = [what |-> what, values |-> values]
Nothing == [what |-> "nothing", values |-> <<>>]
Reading == open.mode = "reading"
Kept == kind' = kind

(* The program goes on with what it was given.                                *)
Use ==
    /\ answer' = Nothing
    /\ Kept /\ UNCHANGED <<contents, cut, name, open, at, missed>>
Assign ==
    /\ \E p \in Paths : name' = p
    /\ Kept /\ UNCHANGED <<contents, cut, open, at, missed, answer>>
(* A file is opened by a name given before or now; what was open is left.     *)
Named == name' = name \/ name' \in Paths
Reset ==
    /\ Named /\ name' # NoPath
    /\ contents[name'] # Missing
    /\ open' = [path |-> name', mode |-> "reading"]
    /\ at' = 0 /\ missed' = FALSE
    /\ Kept /\ UNCHANGED <<contents, cut, answer>>
Rewrite ==
    /\ Named /\ name' # NoPath
    /\ open' = [path |-> name', mode |-> "writing"]
    /\ contents' = [contents EXCEPT ![name'] = <<>>] /\ cut' = cut \ {name'}
    /\ at' = 0 /\ missed' = FALSE
    /\ Kept /\ UNCHANGED answer
Close ==
    /\ open' = Closed /\ at' = 0
    /\ Kept /\ UNCHANGED <<contents, cut, name, missed, answer>>
Write ==
    /\ open.mode = "writing"
    /\ \E data \in Data(kind) :
           contents' = [contents EXCEPT ![open.path] = @ \o data]
    /\ cut' = cut \ {open.path}
    /\ Kept /\ UNCHANGED <<name, open, at, missed, answer>>
(* A component is written in parts, and the program may end between them.     *)
WritePart ==
    /\ kind = "typed" /\ open.mode = "writing"
    /\ cut' = cut \cup {open.path}
    /\ Kept /\ UNCHANGED <<contents, name, open, at, missed, answer>>
ReadText ==
    /\ kind = "text" /\ Reading
    /\ \E sorts \in Requests, wholeLine \in BOOLEAN :
           LET last == Places(Text, at, sorts, wholeLine)[Len(sorts)]
           IN  /\ at' = IF wholeLine THEN NextLine(Text, last) ELSE last
               /\ Answered("read", ValuesRead(Text, at, sorts, wholeLine))
    /\ Kept /\ UNCHANGED <<contents, cut, name, open, missed>>
(* A part of a component at the end of a file is no component, but a program  *)
(* that reads it need not be told.                                            *)
ReadComponent ==
    /\ kind = "typed" /\ Reading
    /\ IF at < Length
       THEN /\ at' = at + 1 /\ Answered("read", Text[at + 1]) /\ UNCHANGED missed
       ELSE /\ at' = at
            /\ missed' = TRUE \/ (open.path \in cut /\ missed' = missed)
    /\ Kept /\ UNCHANGED <<contents, cut, name, open>>
Eof ==
    /\ kind = "text" => Reading
    /\ Answered("eof", Truth(IF kind = "text" THEN at = Length ELSE missed))
    /\ Kept /\ UNCHANGED <<contents, cut, name, open, at, missed>>
Eoln ==
    /\ kind = "text" /\ Reading
    /\ Answered("eoln", Truth(at = Length \/ Text[at + 1] = Newline))
    /\ Kept /\ UNCHANGED <<contents, cut, name, open, at, missed>>
(* Reading a file that is closed has no meaning; it changes no file.          *)
Undefined ==
    /\ open = Closed
    /\ Kept /\ UNCHANGED <<contents, cut, name, open, at, missed>>
(* The program ends, in order or not, and is run again on the same files.     *)
Restart ==
    /\ name' = NoPath /\ open' = Closed /\ at' = 0 /\ missed' = FALSE
    /\ answer' = Nothing
    /\ Kept /\ UNCHANGED <<contents, cut>>

Next == \/ Use \/ Assign \/ Reset \/ Rewrite \/ Close \/ Write \/ WritePart
        \/ ReadText \/ ReadComponent \/ Eof \/ Eoln \/ Undefined \/ Restart
Spec == Init /\ [][Next]_vars
================================================================================
