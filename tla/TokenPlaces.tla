---------------------------- MODULE TokenPlaces ----------------------------
(* Where the scanner's offsets are for a reader: what a line and a column    *)
(* are, by counting the line breaks of a text, and what the scanner and the  *)
(* source files have to have to do with it.                                  *)
EXTENDS Scanner, SourceLines

(* A break is a line feed, or a carriage return that none follows.  What     *)
(* comes after a break that is not the end of the text is a new line.        *)
IsBreak(text, k) == text[k] = "\n" \/ (text[k] = "\r" /\ ~IsPair(text, k))
BreaksBefore(text, offset) == {k \in 1..offset : k < Len(text) /\ IsBreak(text, k)}
LineOf(text, offset) == Cardinality(BreaksBefore(text, offset)) + 1
StartOf(text, offset) ==
    CHOOSE start \in BreaksBefore(text, offset) \cup {0} :
        \A k \in BreaksBefore(text, offset) : k <= start

LocationOf(text, offset) ==
    [line |-> LineOf(text, offset),
     column |-> offset - StartOf(text, offset) + 1,
     offset |-> offset]

(* The text of a line and its breaks: a character that breaks no line stands *)
(* in the text of its line at its column, and nothing else stands there.     *)
LineHolds(text, offset) ==
    LET at == LocationAt(text, offset)
        line == LineText(text, at.line)
    IN  IF text[offset + 1] \in LineBreaks
          THEN at.column > Len(line)
          ELSE at.column <= Len(line) /\ line[at.column] = text[offset + 1]

LinesAreExact(text) ==
    /\ LineCount(text) = IF text = <<>> THEN 0 ELSE LineOf(text, Len(text))
    /\ \A offset \in 0..Len(text) : LocationAt(text, offset) = LocationOf(text, offset)
    /\ \A line \in 1..LineCount(text) :
           LocationAt(text, LineStartOffset(text, line)).line = line
    /\ \A offset \in 0..Len(text) - 1 : LineHolds(text, offset)

(* Every offset has the line and the column that counting breaks gives, up   *)
(* to one past the end, and every line has the text between two breaks       *)
(* (buildLineStarts, locationAt, lineText).                                  *)
LocationsAreExact == done => \A key \in DOMAIN files : LinesAreExact(files[key])

(* The same text as a Unix system has it, every line ended by a line feed,   *)
(* and the offset there of what stands at an offset here: of a pair, one     *)
(* character stays.                                                         *)
Kept(text, offset) == {k \in 1..offset : ~IsPair(text, k)}
UnixOffset(text, offset) == Cardinality(Kept(text, offset))
UnixText(text) ==
    [n \in 1..UnixOffset(text, Len(text)) |->
        LET k == CHOOSE k \in Kept(text, Len(text)) : UnixOffset(text, k) = n
        IN  IF text[k] = "\r" THEN "\n" ELSE text[k]]

Visible(text) == {o \in 0..Len(text) - 1 : text[o + 1] \notin LineBreaks}
LineEndsDoNotMatter(text) ==
    LET unix == UnixText(text)
    IN  /\ LineCount(unix) = LineCount(text)
        /\ \A offset \in Visible(text) :
               LET there == LocationAt(unix, UnixOffset(text, offset))
                   here == LocationAt(text, offset)
               IN  there.line = here.line /\ there.column = here.column

(* A text has the same lines however it ends them: LF, CR and CR LF give the *)
(* same line and column to each character (buildLineStarts, locationAt;      *)
(* milestone 01 asks it of LF and CR LF).                                    *)
LineEndsAgree == done => \A key \in DOMAIN files : LineEndsDoNotMatter(files[key])

(* The range of a token, made of two locations, is where a reader finds it:  *)
(* its characters stand at that column in the text of that line of its file, *)
(* and none goes on past the end of a line (makeToken, scanQuotedLiteral).   *)
TokensLieInTheirLines ==
    \A k \in DOMAIN tokens :
        LET token == tokens[k]
            text == files[Canonical(token.path)]
            from == LocationAt(text, token.from - 1)
            to == LocationAt(text, token.to - 1)
            line == LineText(text, from.line)
            length == token.to - token.from
        IN  length > 0 =>
              /\ LocationAt(text, token.to - 2).line = from.line
              /\ from.column + length - 1 <= Len(line)
              /\ \A j \in 0..length - 1 : line[from.column + j] = text[token.from + j]
              /\ to.line = from.line => to.column = from.column + length
=============================================================================
