---------------------------- MODULE SourceLines ----------------------------
(***************************************************************************)
(* SourceFile (src/common/SourceFile.cpp): the lines of a text and the     *)
(* line and column of an offset.  A text is a sequence of characters; as   *)
(* in the code, offsets count from 0, lines and columns from 1.            *)
(***************************************************************************)
EXTENDS Integers, Sequences, FiniteSets

LineBreaks == {"\r", "\n"}
IsPair(text, k) == k < Len(text) /\ text[k] = "\r" /\ text[k + 1] = "\n"

(* Mutant of BuildLineStarts: a carriage return and a line feed are two     *)
(* ends.                                                                    *)
LineStartsPerCharacter(text) ==
    LET from[k \in 1..Len(text) + 1] ==
            IF k > Len(text) THEN <<>>
            ELSE (IF text[k] \in LineBreaks /\ k < Len(text) THEN <<k>> ELSE <<>>) \o from[k + 1]
    IN  IF text = <<>> THEN <<>> ELSE <<0>> \o from[1]

(* from[k]: the starts found by the loop from its round for character k on. *)
(* A break at the end of the text starts no line.                           *)
NextCharacter(text, k) == IF IsPair(text, k) THEN k + 2 ELSE k + 1
StartAfter(text, k) ==
    IF text[k] \in LineBreaks /\ NextCharacter(text, k) <= Len(text)
      THEN <<NextCharacter(text, k) - 1>> ELSE <<>>
StartsFrom(text) ==
    LET from[k \in 1..Len(text) + 1] ==
            IF k > Len(text) THEN <<>>
            ELSE StartAfter(text, k) \o from[NextCharacter(text, k)]
    IN  from
BuildLineStarts(text) == IF text = <<>> THEN <<>> ELSE <<0>> \o StartsFrom(text)[1]

LineCount(text) == Len(BuildLineStarts(text))

NPos == -1                                             \* std::string::npos
LineStartOffset(text, line) ==
    IF line \in 1..LineCount(text) THEN BuildLineStarts(text)[line] ELSE NPos

(* The line up to the next one, without the break that ended it.            *)
LineText(text, line) ==
    LET starts == BuildLineStarts(text)
        end == IF line < Len(starts) THEN starts[line + 1] ELSE Len(text)
        broken == end > starts[line] /\ text[end] \in LineBreaks
        paired == end - 1 > starts[line] /\ IsPair(text, end - 1)
        kept == IF paired THEN end - 2 ELSE IF broken THEN end - 1 ELSE end
    IN  IF line \in 1..Len(starts) THEN SubSeq(text, starts[line] + 1, kept) ELSE <<>>

LocationAt(text, offset) ==
    LET starts == BuildLineStarts(text)
        at == IF offset > Len(text) THEN Len(text) ELSE offset
        index == Cardinality({k \in DOMAIN starts : starts[k] <= at})
        line == IF index = 0 THEN 1 ELSE index
    IN  IF text = <<>> THEN [line |-> 1, column |-> 1, offset |-> 0]
        ELSE [line |-> line, column |-> at - starts[line] + 1, offset |-> at]
=============================================================================
