---------------------------- MODULE ScannerProofs ----------------------------
(***************************************************************************)
(* For every file system, every way of resolving names and every depth:    *)
(* first the discipline of the include stack, which holds wherever a scan  *)
(* stops; then the positions and the tokens, from what the scans do; last  *)
(* the lines of a source file, what the loop of buildLineStarts collects   *)
(* and the line and column that locationAt makes of it.                    *)
(***************************************************************************)
EXTENDS TokenPlaces, LoopLemmas, SequenceTheorems, FiniteSetTheorems, TLAPS

Frames(positions) == [path : Paths \cup {Root}, key : Paths, pos : positions]

(* The stack is one of frames with some positions: what they are does not   *)
(* matter here.                                                             *)
IsStack == \E positions : stack \in Seq(Frames(positions))

Open == {stack[k].key : k \in DOMAIN stack}
OpenOnce == \A j, k \in DOMAIN stack : stack[j].key = stack[k].key => j = k

IInv ==
    /\ DOMAIN files \subseteq Paths
    /\ IsStack
    /\ Len(stack) \in 1..MaxIncludeDepth + 1
    /\ stack[1].path = Root
    /\ active = Open /\ OpenOnce
    /\ activePath = Top.path

---------------------------------------------------------------------------
LEMMA InitInv == Init => IInv
<1> SUFFICES ASSUME Init PROVE IInv
  OBVIOUS
<1> DEFINE frame == [path |-> Root, key |-> Canonical(Root), pos |-> 1]
<1>1. frame \in Frames({1})
  BY ScannerAssumption DEF Frames
<1>2. stack = <<frame>> /\ stack \in Seq(Frames({1})) /\ Len(stack) = 1 /\ stack[1] = frame
  BY <1>1 DEF Init
<1>3. IsStack
  BY <1>2 DEF IsStack
<1>4. DOMAIN stack = {1}
  BY <1>2
<1>5. active = Open /\ OpenOnce
  BY <1>2, <1>4 DEF Init, Open, OpenOnce
<1>6. DOMAIN files \subseteq Paths
  BY ScannerAssumption DEF Init
<1> QED
  BY <1>2, <1>3, <1>5, <1>6, ScannerAssumption DEF Init, IInv, Top

(* What a directive that is not rejected has passed.                        *)
LEMMA Accepted ==
    ASSUME DirectiveError = ""
    PROVE  /\ ~TooDeep
           /\ Included \notin active
           /\ Included \in DOMAIN files
  BY DEF DirectiveError, Unreadable

(* Only the stack, the active paths and the path of diagnostics matter.     *)
LEMMA SameFile == ASSUME IInv, InSameFile PROVE IInv'
  BY DEF IInv, InSameFile, IsStack, Open, OpenOnce, Top

LEMMA PushInv ==
    ASSUME IInv, Include
    PROVE  IInv'
<1> DEFINE n == Len(stack)
           here == DirectiveEnd + 1
           frame == [path |-> Included, key |-> Included, pos |-> 1]
<1>1. /\ Included \in DOMAIN files /\ Included \in Paths
      /\ Included \notin active /\ ~TooDeep
      /\ Canonical(Included) = Included
  BY Accepted, ScannerAssumption DEF Include, IInv
<1>2. PICK S : stack \in Seq(Frames(S))
  BY DEF IInv, IsStack
<1> DEFINE T == S \cup {here, 1}
<1>3. /\ n \in Nat /\ n >= 1 /\ n <= MaxIncludeDepth /\ MaxIncludeDepth \in Nat
      /\ DOMAIN stack = 1..n /\ \A k \in 1..n : stack[k] \in Frames(S)
  BY <1>1, <1>2, ScannerAssumption, ElementOfSeq, LenProperties DEF IInv, TooDeep
<1>4. Frames(S) \subseteq Frames(T)
  BY DEF Frames
<1>5. stack \in Seq(Frames(T))
  BY <1>2, <1>4, SeqMonotonic
<1>6. SavedTopPos = [stack EXCEPT ![n] = [stack[n] EXCEPT !.pos = here]]
  BY DEF SavedTopPos
<1>7. [stack[n] EXCEPT !.pos = here] \in Frames(T)
  BY <1>3 DEF Frames
<1>8. /\ SavedTopPos \in Seq(Frames(T)) /\ Len(SavedTopPos) = n
      /\ \A k \in 1..n : SavedTopPos[k] = IF k = n THEN [stack[n] EXCEPT !.pos = here]
                                                   ELSE stack[k]
  <2> HIDE DEF T, here
  <2> QED BY <1>3, <1>5, <1>6, <1>7, ExceptSeq
<1>9. \A k \in 1..n : SavedTopPos[k].key = stack[k].key /\ SavedTopPos[k].path = stack[k].path
  BY <1>3, <1>8 DEF Frames
<1>10. frame \in Frames(T)
  BY <1>1 DEF Frames
<1>11. stack' = Append(SavedTopPos, frame) /\ active' = active \cup {Included}
       /\ activePath' = Included /\ files' = files
  BY <1>1 DEF Include
<1>12. /\ stack' \in Seq(Frames(T)) /\ Len(stack') = n + 1 /\ DOMAIN stack' = 1..n + 1
       /\ \A k \in 1..n : stack'[k] = SavedTopPos[k]
       /\ stack'[n + 1] = frame
  <2> HIDE DEF T, frame
  <2> QED BY <1>3, <1>8, <1>10, <1>11
<1>13. \A k \in 1..n : stack'[k].key = stack[k].key /\ stack'[k].path = stack[k].path
  BY <1>9, <1>12
<1>14. stack'[n + 1].key = Included /\ stack'[n + 1].path = Included
  BY <1>12
<1>15. active' = Open'
  BY <1>3, <1>11, <1>12, <1>13, <1>14 DEF IInv, Open
<1>16. OpenOnce'
  BY <1>1, <1>3, <1>12, <1>13, <1>14 DEF IInv, Open, OpenOnce
<1>17. IsStack'
  BY <1>12 DEF IsStack
<1>18. stack'[1].path = Root
  BY <1>3, <1>13 DEF IInv
<1> QED
  BY <1>3, <1>11, <1>12, <1>14, <1>15, <1>16, <1>17, <1>18 DEF IInv, Top

LEMMA PopInv ==
    ASSUME IInv, PopFrame
    PROVE  IInv'
<1> DEFINE n == Len(stack)
<1>1. PICK S : stack \in Seq(Frames(S))
  BY DEF IInv, IsStack
<1>2. /\ n \in Nat /\ n >= 2 /\ DOMAIN stack = 1..n
      /\ n <= MaxIncludeDepth + 1 /\ MaxIncludeDepth \in Nat
      /\ \A k \in 1..n : stack[k] \in Frames(S)
  BY <1>1, ScannerAssumption, ElementOfSeq, LenProperties DEF IInv, PopFrame
<1>3. stack' = SubSeq(stack, 1, n - 1)
  BY DEF PopFrame
<1>4. /\ stack' \in Seq(Frames(S)) /\ Len(stack') = n - 1 /\ DOMAIN stack' = 1..n - 1
      /\ \A k \in 1..n - 1 : stack'[k] = stack[k]
  <2>1. \A k \in 1..n - 1 : stack[k] \in Frames(S)
    BY <1>2
  <2>2. /\ stack' \in Seq(Frames(S)) /\ Len(stack') = n - 1
        /\ \A k \in 1..n - 1 : stack'[k] = stack[k]
    BY <1>2, <1>3, <2>1, SubSeqProperties
  <2> QED
    BY <2>2, LenProperties
<1>5. active' = Open \ {stack[n].key}
  BY DEF IInv, PopFrame, StillActive, Top
<1>6. active' = Open'
  BY <1>2, <1>4, <1>5 DEF IInv, Open, OpenOnce
<1>7. OpenOnce'
  BY <1>2, <1>4 DEF IInv, OpenOnce
<1>8. activePath' = Top'.path
  BY <1>2, <1>4 DEF PopFrame, Includer, Top
<1>9. IsStack' /\ stack'[1].path = Root /\ files' = files
  BY <1>2, <1>4 DEF IInv, IsStack, PopFrame
<1> QED
  BY <1>2, <1>4, <1>6, <1>7, <1>8, <1>9 DEF IInv

LEMMA EndInv ==
    ASSUME IInv, EndOfFile
    PROVE  IInv'
  BY DEF IInv, EndOfFile, IsStack, Open, OpenOnce, Top

LEMMA NextInv == IInv /\ [Next]_vars => IInv'
<1> SUFFICES ASSUME IInv, [Next]_vars PROVE IInv'
  OBVIOUS
<1>1. CASE SkipBlanks
  BY <1>1, SameFile DEF SkipBlanks
<1>2. CASE SkipBraceComment
  BY <1>2, SameFile DEF SkipBraceComment
<1>3. CASE SkipParenStarComment
  BY <1>3, SameFile DEF SkipParenStarComment
<1>4. CASE RejectDirective
  BY <1>4, SameFile DEF RejectDirective
<1>5. CASE Include
  BY <1>5, PushInv
<1>6. CASE NextToken
  BY <1>6, SameFile DEF NextToken
<1>7. CASE UnexpectedCharacter
  BY <1>7, SameFile DEF UnexpectedCharacter
<1>8. CASE PopFrame
  BY <1>8, PopInv
<1>9. CASE EndOfFile
  BY <1>9, EndInv
<1>10. CASE UNCHANGED vars
  BY <1>10, SameFile DEF vars, InSameFile
<1> QED
  BY <1>1, <1>2, <1>3, <1>4, <1>5, <1>6, <1>7, <1>8, <1>9, <1>10 DEF Next

(* The stack, the active paths and the path of diagnostics stay in step.    *)
THEOREM StackInvariant == Spec => []IInv
  BY InitInv, NextInv, PTL DEF Spec

(* Cycle detection looks at exactly the open files, each open once          *)
(* (activeCanonicalPaths_).                                                 *)
THEOREM ActivePathsAreOpen == Spec => []ActiveAreOpen
<1>1. IInv => ActiveAreOpen
  BY DEF IInv, ActiveAreOpen, Open, OpenOnce
<1> QED
  BY <1>1, StackInvariant, PTL

(* Includes nest no deeper than kMaxIncludeDepth.                           *)
THEOREM DepthIsBounded == Spec => []DepthBounded
<1>1. IInv => DepthBounded
  BY DEF IInv, DepthBounded
<1> QED
  BY <1>1, StackInvariant, PTL

(* Diagnostics are reported under the path of the file being read           *)
(* (setActivePath in pushFrame and popFrame).                               *)
THEOREM DiagnosticsAreAttributed == Spec => []Attributed
<1>1. IInv => Attributed
  BY DEF IInv, Attributed
<1> QED
  BY <1>1, StackInvariant, PTL
---------------------------------------------------------------------------
(* Where a scan stops.                                                      *)

TextsAreTexts ==
    DOMAIN files \subseteq Paths /\ \A path \in DOMAIN files : files[path] \in Seq(STRING)
ReadsText == Text \in Seq(STRING)

(* No line ends between two positions.                                      *)
OnOneLine(from, to) == \A q \in from..to - 1 : CharAt(q) \notin LineEnds

LEMMA EndIs ==
    ASSUME ReadsText
    PROVE  /\ Len(Text) \in Nat /\ End = Len(Text) + 1 /\ DOMAIN Text = 1..Len(Text)
  BY LenProperties DEF ReadsText, End

LEMMA InText ==
    ASSUME ReadsText, NEW p, CharAt(p) # ""
    PROVE  p \in 1..Len(Text)
  BY LenProperties DEF ReadsText, CharAt

LEMMA FirstIs ==
    ASSUME ReadsText, NEW stops \in SUBSET (1..Len(Text))
    PROVE  /\ First(stops) \in stops \cup {End}
           /\ First(stops) \in Nat
           /\ First(stops) <= End
           /\ \A r \in stops : First(stops) <= r
<1>1. Len(Text) \in Nat /\ End = Len(Text) + 1
  BY EndIs
<1>2. stops \cup {End} \in SUBSET Nat /\ stops \cup {End} # {}
  <2>1. stops \subseteq 1..Len(Text)
    OBVIOUS
  <2>2. 1..Len(Text) \subseteq Nat /\ End \in Nat
    BY <1>1
  <2> QED BY <2>1, <2>2
<1>3. PICK q \in stops \cup {End} : \A r \in stops \cup {End} : q <= r
  BY <1>2, LeastExists
<1>4. /\ First(stops) \in stops \cup {End}
      /\ \A r \in stops : First(stops) <= r
  BY <1>3 DEF First
<1> QED
  BY <1>1, <1>2, <1>4

LEMMA SkipWhileIs ==
    ASSUME ReadsText, NEW p \in 1..End, NEW chars
    PROVE  /\ SkipWhile(p, chars) \in p..End
           /\ \A q \in p..SkipWhile(p, chars) - 1 : CharAt(q) \in chars
<1> DEFINE stops == {q \in p..Len(Text) : CharAt(q) \notin chars}
           stop == First(stops)
<1>1. Len(Text) \in Nat /\ End = Len(Text) + 1
  BY EndIs
<1>2. stops \in SUBSET (1..Len(Text))
  BY <1>1
<1>3. /\ stop \in stops \cup {End} /\ stop \in Nat /\ stop <= End
      /\ \A r \in stops : stop <= r
  <2> HIDE DEF stops
  <2> QED BY <1>2, FirstIs
<1>4. SkipWhile(p, chars) = stop
  BY DEF SkipWhile
<1>5. stop \in p..End
  BY <1>1, <1>3
<1>6. ASSUME NEW q \in p..stop - 1
      PROVE  CharAt(q) \in chars
  <2>1. q \in p..Len(Text) /\ ~(stop <= q)
    <3> HIDE DEF stop
    <3> QED BY <1>1, <1>5
  <2>2. q \notin stops
    <3> HIDE DEF stops
    <3> QED BY <1>3, <2>1
  <2> QED BY <2>1, <2>2
<1> HIDE DEF stops
<1> QED
  BY <1>4, <1>5, <1>6

Kinds == {"Identifier", "Keyword", "Integer", "Real", "Char", "String", "Operator"}

(* What a scan from p has to give: a kind, a place after p and in the text,  *)
(* and no line end on the way.                                              *)
Reads(p, scanned) ==
    /\ scanned.kind \in Kinds
    /\ scanned.to \in p + 1..End
    /\ OnOneLine(p, scanned.to)

LEMMA ScannedReads ==
    ASSUME NEW p, NEW kind \in Kinds, NEW to \in p + 1..End, OnOneLine(p, to)
    PROVE  /\ Reads(p, Scanned(kind, to))
           /\ \A error, offset : Reads(p, Malformed(kind, to, error, offset))
  BY DEF Reads, Scanned, Malformed

LEMMA LettersEndNoLine == \A ch \in Letters : ch \notin LineEnds /\ ch # ""
<1>1. \A k \in 1..5 : k = 1 \/ k = 2 \/ k = 3 \/ k = 4 \/ k = 5
  OBVIOUS
<1>2. \A k \in 1..5 : LowerCase[k] \in {"d", "e", "f", "i", "o"}
  BY <1>1 DEF LowerCase
<1>3. \A k \in 1..5 : UpperCase[k] \in {"D", "E", "F", "I", "O"}
  BY <1>1 DEF UpperCase
<1> QED
  BY <1>2, <1>3 DEF Letters, LineEnds

LEMMA IdentifierReads ==
    ASSUME ReadsText, NEW p \in 1..Len(Text), CharAt(p) \in IdentStart
    PROVE  Reads(p, ScanIdentifierOrKeyword(p))
<1> DEFINE to == SkipWhile(p + 1, IdentContinue)
<1>1. Len(Text) \in Nat /\ End = Len(Text) + 1 /\ p + 1 \in 1..End
  <2>1. Len(Text) \in Nat /\ End = Len(Text) + 1
    BY EndIs
  <2> QED BY <2>1
<1>2. to \in p + 1..End /\ \A q \in p + 1..to - 1 : CharAt(q) \in IdentContinue
  BY <1>1, SkipWhileIs
<1>3. \A ch \in IdentContinue : ch \notin LineEnds
  BY LettersEndNoLine DEF IdentContinue, IdentStart, Digits, LineEnds
<1>4. \A q \in p..to - 1 : CharAt(q) \notin LineEnds
  <2>1. \A q \in p..to - 1 : q = p \/ q \in p + 1..to - 1
    <3> HIDE DEF to
    <3> QED BY <1>1, <1>2
  <2> QED BY <1>2, <1>3, <2>1 DEF IdentContinue
<1>5. LookupKeyword(Lexeme(p, to)) \in Kinds
  BY DEF LookupKeyword, Kinds
<1>6. OnOneLine(p, to)
  BY <1>4 DEF OnOneLine
<1>7. ScanIdentifierOrKeyword(p) = Scanned(LookupKeyword(Lexeme(p, to)), to)
  BY DEF ScanIdentifierOrKeyword
<1> HIDE DEF to
<1> QED
  BY <1>2, <1>5, <1>6, <1>7, ScannedReads

LEMMA NumberReads ==
    ASSUME ReadsText, NEW p \in 1..Len(Text), CharAt(p) \in Digits
    PROVE  Reads(p, ScanNumber(p))
<1> DEFINE n == Len(Text)
           whole == SkipWhile(p, Digits)
           hasPoint == CharAt(whole) = "." /\ CharAt(whole + 1) \in Digits
           mark == IF hasPoint THEN SkipWhile(whole + 1, Digits) ELSE whole
           hasExponent == ToLower(CharAt(mark)) = "e"
           sign == IF CharAt(mark + 1) \in {"+", "-"} THEN mark + 2 ELSE mark + 1
           last == SkipWhile(sign, Digits)
           Inside == Digits \cup {".", "+", "-", "e", "E"}
           In(from, to) == \A q \in from..to - 1 : CharAt(q) \in Inside
<1>1. n \in Nat /\ End = n + 1 /\ p \in 1..End
  <2>1. n \in Nat /\ End = n + 1
    BY EndIs
  <2> QED BY <2>1
<1>2. \A ch \in Digits : ch # ""
  BY DEF Digits
<1>3. whole \in p + 1..End /\ In(p, whole)
  <2>1. whole \in p..End /\ \A q \in p..whole - 1 : CharAt(q) \in Digits
    BY <1>1, SkipWhileIs
  <2>2. whole # p
    <3> SUFFICES ASSUME whole = p PROVE FALSE
      OBVIOUS
    <3> DEFINE stops == {q \in p..n : CharAt(q) \notin Digits}
    <3>1. stops \in SUBSET (1..n) /\ p \notin stops
      BY <1>1
    <3>2. whole = First(stops)
      BY DEF SkipWhile
    <3>3. p \in stops \cup {End}
      <4> HIDE DEF stops
      <4> QED BY <3>1, <3>2, FirstIs
    <3> QED BY <1>1, <3>1, <3>3
  <2> QED BY <1>1, <2>1, <2>2
<1>4. mark \in p + 1..End /\ In(p, mark)
  <2>1. CASE hasPoint
    <3>1. whole \in 1..n /\ whole + 1 \in 1..n
      <4>1. CharAt(whole) # "" /\ CharAt(whole + 1) # ""
        BY <1>2, <2>1
      <4> QED BY <4>1, InText
    <3>2. mark \in whole + 1..End /\ \A q \in whole + 1..mark - 1 : CharAt(q) \in Digits
      BY <1>1, <2>1, <3>1, SkipWhileIs
    <3>3. \A q \in p..mark - 1 : q \in p..whole - 1 \/ q = whole \/ q \in whole + 1..mark - 1
      <4> HIDE DEF whole, mark
      <4> QED BY <1>1, <1>3, <3>2
    <3>4. In(p, mark)
      <4> HIDE DEF whole, mark
      <4> QED BY <1>3, <2>1, <3>2, <3>3
    <3> HIDE DEF whole, mark
    <3> QED BY <1>1, <1>3, <3>2, <3>4
  <2>2. CASE ~hasPoint
    BY <1>3, <2>2
  <2> QED BY <2>1, <2>2
<1>5. ASSUME hasExponent
      PROVE  sign \in p + 1..End /\ In(p, sign)
  <2>1. CharAt(mark) \in {"e", "E"}
    <3> DEFINE ch == CharAt(mark)
    <3>1. ch = "e" \/ \E k \in 1..5 : ch = UpperCase[k]
      BY <1>5 DEF ToLower
    <3>2. ASSUME \E k \in 1..5 : ch = UpperCase[k]
          PROVE  ch = "E"
      <4>1. PICK k \in 1..5 : ch = UpperCase[k] /\ LowerCase[k] = "e"
        <5>1. ToLower(ch) = LowerCase[CHOOSE k \in 1..5 : ch = UpperCase[k]]
          BY <3>2 DEF ToLower
        <5> HIDE DEF ch
        <5> QED BY <1>5, <3>2, <5>1 DEF ch
      <4>2. k = 2
        BY <4>1 DEF LowerCase
      <4> QED BY <4>1, <4>2 DEF UpperCase
    <3> QED BY <3>1, <3>2
  <2>2. mark \in 1..n
    <3> HIDE DEF mark
    <3> QED BY <2>1, InText
  <2>3. CASE CharAt(mark + 1) \in {"+", "-"}
    <3>1. mark + 1 \in 1..n /\ sign = mark + 2
      <4> HIDE DEF mark
      <4> QED BY <2>3, InText
    <3>2. \A q \in p..sign - 1 : q \in p..mark - 1 \/ q = mark \/ q = mark + 1
      <4> HIDE DEF mark, sign
      <4> QED BY <1>1, <1>4, <3>1
    <3> HIDE DEF mark, sign
    <3> QED BY <1>1, <1>4, <2>1, <2>3, <3>1, <3>2
  <2>4. CASE ~(CharAt(mark + 1) \in {"+", "-"})
    <3>1. sign = mark + 1
      BY <2>4
    <3>2. \A q \in p..sign - 1 : q \in p..mark - 1 \/ q = mark
      <4> HIDE DEF mark, sign
      <4> QED BY <1>1, <1>4, <3>1
    <3> HIDE DEF mark, sign
    <3> QED BY <1>1, <1>4, <2>1, <2>2, <3>1, <3>2
  <2> QED BY <2>3, <2>4
<1>6. ASSUME hasExponent
      PROVE  last \in p + 1..End /\ In(p, last)
  <2>1. sign \in 1..End
    <3> HIDE DEF sign
    <3> QED BY <1>1, <1>5, <1>6
  <2>2. last \in sign..End /\ \A q \in sign..last - 1 : CharAt(q) \in Digits
    <3> HIDE DEF sign
    <3> QED BY <2>1, SkipWhileIs
  <2>3. \A q \in p..last - 1 : q \in p..sign - 1 \/ q \in sign..last - 1
    <3> HIDE DEF sign, last
    <3> QED BY <1>1, <2>1, <2>2
  <2> HIDE DEF sign, last
  <2> QED BY <1>1, <1>5, <1>6, <2>1, <2>2, <2>3
<1>7. \A ch \in Inside : ch \notin LineEnds
  BY DEF Digits, LineEnds
<1>8. \A to : In(p, to) => OnOneLine(p, to)
  <2> HIDE DEF Inside
  <2> QED BY <1>7 DEF OnOneLine
<1>9. ScanNumber(p) =
        IF ~hasExponent THEN Scanned(IF hasPoint THEN "Real" ELSE "Integer", mark)
        ELSE IF CharAt(sign) \in Digits THEN Scanned("Real", last)
        ELSE Malformed("Real", sign, "malformed real exponent", mark)
  BY DEF ScanNumber
<1>10. "Real" \in Kinds /\ "Integer" \in Kinds
  BY DEF Kinds
<1> HIDE DEF In, mark, hasExponent, sign, last, hasPoint
<1> QED
  BY <1>4, <1>5, <1>6, <1>8, <1>9, <1>10, ScannedReads

LEMMA OperatorReads ==
    ASSUME ReadsText, NEW p \in 1..Len(Text), CharAt(p) \in Operators
    PROVE  Reads(p, ScanOperatorOrPunct(p))
<1> DEFINE two == <<CharAt(p), CharAt(p + 1)>> \in TwoCharacterOperators
           to == IF two THEN p + 2 ELSE p + 1
<1>1. Len(Text) \in Nat /\ End = Len(Text) + 1
  BY EndIs
<1>2. two => p + 1 \in 1..Len(Text) /\ CharAt(p + 1) \notin LineEnds
  BY InText DEF TwoCharacterOperators, LineEnds
<1>3. CharAt(p) \notin LineEnds
  BY DEF Operators, LineEnds
<1>4. to \in p + 1..End
  <2> HIDE DEF two
  <2> QED BY <1>1, <1>2
<1>5. \A q \in p..to - 1 : q = p \/ (two /\ q = p + 1)
  <2> HIDE DEF two
  <2> QED BY <1>1
<1>6. OnOneLine(p, to)
  BY <1>2, <1>3, <1>5 DEF OnOneLine
<1>7. ScanOperatorOrPunct(p) = Scanned("Operator", to)
  BY DEF ScanOperatorOrPunct
<1>8. "Operator" \in Kinds
  BY DEF Kinds
<1> HIDE DEF to, two
<1> QED
  BY <1>4, <1>6, <1>7, <1>8, ScannedReads

(* One character of a literal, or a pair of quotes, and what is left of it.  *)
Goes(p, q) == q < End /\ CharAt(q) \notin LineEnds /\ (CharAt(q) # "'" \/ CharAt(q + 1) = "'")
NextInLiteral(q) == IF CharAt(q) = "'" THEN q + 2 ELSE q + 1
Literals == [to : Nat, size : Nat, closed : BOOLEAN]
StopsAt(q) == IF q >= End \/ CharAt(q) \in LineEnds THEN Opened(q) ELSE Closed(q + 1)

LEMMA NextInLiteralIsAhead ==
    ASSUME ReadsText, NEW p \in 1..Len(Text), NEW q \in p + 1..End, Goes(p, q)
    PROVE  NextInLiteral(q) \in q + 1..End
<1>1. Len(Text) \in Nat /\ End = Len(Text) + 1
  BY EndIs
<1>2. CASE CharAt(q) = "'"
  <2>1. q + 1 \in 1..Len(Text)
    BY <1>2, InText DEF Goes
  <2> QED BY <1>1, <1>2, <2>1 DEF NextInLiteral
<1>3. CASE CharAt(q) # "'"
  <2>1. q < End
    BY DEF Goes
  <2> QED BY <1>1, <1>3, <2>1 DEF NextInLiteral
<1> QED
  BY <1>2, <1>3

LEMMA LiteralAfterEquation ==
    ASSUME ReadsText, NEW p \in 1..Len(Text)
    PROVE  \A q \in p + 1..End : LiteralAfter(p)[q] =
             IF Goes(p, q) THEN [LiteralAfter(p)[NextInLiteral(q)] EXCEPT !.size = @ + 1]
             ELSE StopsAt(q)
<1> DEFINE D == p + 1..End
           Body1(f, q) ==
             IF q >= End \/ CharAt(q) \in LineEnds THEN Opened(q)
             ELSE IF CharAt(q) # "'" THEN [f[q + 1] EXCEPT !.size = @ + 1]
             ELSE IF CharAt(q + 1) = "'" THEN [f[q + 2] EXCEPT !.size = @ + 1]
             ELSE Closed(q + 1)
           Body2(f, q) ==
             IF Goes(p, q) THEN [f[NextInLiteral(q)] EXCEPT !.size = @ + 1] ELSE StopsAt(q)
           base == [q \in D |-> StopsAt(q)]
           next == [q \in D |-> IF Goes(p, q) THEN NextInLiteral(q) ELSE 0]
           step == [q \in D |-> [r \in Literals |-> [r EXCEPT !.size = @ + 1]]]
<1>1. Len(Text) \in Nat /\ End = Len(Text) + 1 /\ End \in Int /\ p + 1 \in Int
  <2>1. Len(Text) \in Nat /\ End = Len(Text) + 1
    BY EndIs
  <2> QED BY <2>1
<1>2. \A q \in D : StopsAt(q) \in Literals
  BY <1>1 DEF StopsAt, Opened, Closed, Literals
<1>3. base \in [D -> Literals]
  BY <1>2
<1>4. next \in [D -> Int]
  <2>1. \A q \in D : (IF Goes(p, q) THEN NextInLiteral(q) ELSE 0) \in Int
    BY <1>1 DEF NextInLiteral
  <2> QED BY <2>1
<1>5. step \in [D -> [Literals -> Literals]]
  BY DEF Literals
<1>6. PICK f \in [D -> Literals] : \A q \in D :
          f[q] = IF q < next[q] /\ next[q] <= End THEN step[q][f[next[q]]] ELSE base[q]
  <2> DEFINE a == p + 1
             b == End
  <2>1. a \in Int /\ b \in Int /\ D = a..b
    BY <1>1
  <2> HIDE DEF base, next, step, a, b, D
  <2>2. HasRecursiveFunction(a, b, Literals, base, next, step)
    BY <2>1, <1>3, <1>4, <1>5, RecursionExists
  <2> QED BY <2>1, <2>2 DEF HasRecursiveFunction, b
<1>7. \A q \in D : f[q] = Body2(f, q)
  <2> SUFFICES ASSUME NEW q \in D PROVE f[q] = Body2(f, q)
    OBVIOUS
  <2>1. CASE Goes(p, q)
    <3>1. next[q] = NextInLiteral(q) /\ next[q] \in q + 1..End
      BY <2>1, NextInLiteralIsAhead
    <3>2. q < next[q] /\ next[q] <= End /\ next[q] \in D
      <4> HIDE DEF next
      <4> QED BY <1>1, <3>1
    <3>3. f[q] = step[q][f[next[q]]] /\ f[next[q]] \in Literals
      <4> HIDE DEF next, step, base
      <4> QED BY <1>6, <3>2
    <3>4. step[q][f[next[q]]] = [f[next[q]] EXCEPT !.size = @ + 1]
      <4> HIDE DEF next
      <4> QED BY <3>3
    <3> HIDE DEF next, step
    <3> QED BY <2>1, <3>1, <3>3, <3>4
  <2>2. CASE ~Goes(p, q)
    <3>1. next[q] = 0 /\ ~(q < next[q]) /\ base[q] = StopsAt(q)
      BY <2>2, <1>1
    <3> HIDE DEF next, step, base
    <3> QED BY <1>6, <2>2, <3>1
  <2> QED BY <2>1, <2>2
<1>8. \A g, q : q \in D => Body1(g, q) = Body2(g, q)
  <2> SUFFICES ASSUME NEW g, NEW q \in D PROVE Body1(g, q) = Body2(g, q)
    OBVIOUS
  <2>1. q >= End \/ q < End
    BY <1>1
  <2>2. ~(q >= End /\ q < End)
    BY <1>1
  <2>3. CASE q >= End
    BY <2>2, <2>3 DEF Goes, StopsAt
  <2>4. CASE q < End
    BY <2>2, <2>4 DEF Goes, NextInLiteral, StopsAt
  <2> QED BY <2>1, <2>3, <2>4
<1> DEFINE Equation(g) == g = [q \in D |-> Body1(g, q)]
<1>9. Equation(f)
  <2> HIDE DEF Body1, Body2
  <2>1. f = [q \in D |-> f[q]]
    BY <1>6
  <2> QED BY <1>7, <1>8, <2>1
<1>10. LiteralAfter(p) = CHOOSE g : Equation(g)
  BY DEF LiteralAfter
<1>11. Equation(LiteralAfter(p))
  <2> HIDE DEF Equation
  <2> QED BY <1>9, <1>10
<1> DEFINE after == LiteralAfter(p)
<1>12. \A q \in D : after[q] = Body2(after, q)
  <2> HIDE DEF Body1, Body2
  <2> QED BY <1>8, <1>11
<1> QED
  BY <1>12

(* A literal ends in its text and on its line.                               *)
LEMMA LiteralAfterStops ==
    ASSUME ReadsText, NEW p \in 1..Len(Text), NEW start \in p + 1..End
    PROVE  /\ LiteralAfter(p)[start] \in Literals
           /\ LiteralAfter(p)[start].to \in start..End
           /\ OnOneLine(start, LiteralAfter(p)[start].to)
<1> DEFINE D == p + 1..End
           after == LiteralAfter(p)
           Ok(q) == /\ after[q] \in Literals
                    /\ after[q].to \in q..End
                    /\ OnOneLine(q, after[q].to)
           Bad == {q \in D : ~Ok(q)}
<1>1. Len(Text) \in Nat /\ End = Len(Text) + 1 /\ End \in Int
  <2>1. Len(Text) \in Nat /\ End = Len(Text) + 1
    BY EndIs
  <2> QED BY <2>1
<1> SUFFICES ASSUME Bad # {} PROVE FALSE
  OBVIOUS
<1>2. PICK q \in Bad : \A r \in Bad : r <= q
  <2>1. Bad \in SUBSET Int
    BY <1>1
  <2>2. \A r \in Bad : r <= End
    BY <1>1
  <2> HIDE DEF Bad
  <2> QED BY <1>1, <2>1, <2>2, GreatestExists
<1>3. q \in D /\ ~Ok(q) /\ \A r \in D : ~Ok(r) => r <= q
  <2> HIDE DEF Ok, D
  <2> QED BY <1>2
<1>4. after[q] = IF Goes(p, q) THEN [after[NextInLiteral(q)] EXCEPT !.size = @ + 1]
                 ELSE StopsAt(q)
  BY <1>3, LiteralAfterEquation
<1> DEFINE r == NextInLiteral(q)
<1>5. CASE Goes(p, q)
  <2>1. r \in q + 1..End /\ r \in {q + 1, q + 2}
    BY <1>3, <1>5, NextInLiteralIsAhead DEF NextInLiteral
  <2>2. r \in D /\ ~(r <= q)
    <3> HIDE DEF r
    <3> QED BY <1>1, <1>3, <2>1
  <2>3. Ok(r)
    <3> HIDE DEF Ok, D, r
    <3> QED BY <1>3, <2>2
  <2>4. after[q] \in Literals /\ after[q].to = after[r].to
    <3>1. after[r] \in Literals
      BY <2>3
    <3>2. after[q] = [after[r] EXCEPT !.size = @ + 1]
      BY <1>4, <1>5
    <3> HIDE DEF after, r
    <3> QED BY <3>1, <3>2 DEF Literals
  <2> DEFINE to == after[r].to
  <2>5. to \in r..End /\ OnOneLine(r, to)
    BY <2>3
  <2>6. to \in q..End /\ \A k \in q..to - 1 : k = q \/ (k = q + 1 /\ r = q + 2) \/ k \in r..to - 1
    <3> HIDE DEF to, r
    <3> QED BY <1>1, <1>3, <2>1, <2>5
  <2>7. CharAt(q) \notin LineEnds /\ (r = q + 2 => CharAt(q + 1) \notin LineEnds)
    <3>1. r = q + 2 => CharAt(q) = "'"
      BY <1>1, <1>3 DEF NextInLiteral
    <3> QED BY <1>5, <3>1 DEF Goes, LineEnds
  <2>8. OnOneLine(q, to)
    <3> HIDE DEF to, r
    <3> QED BY <2>5, <2>6, <2>7 DEF OnOneLine
  <2>9. Ok(q)
    <3> HIDE DEF after, r
    <3> QED BY <2>4, <2>6, <2>8
  <2> QED BY <1>3, <2>9
<1>6. CASE ~Goes(p, q)
  <2>1. after[q] = StopsAt(q)
    BY <1>4, <1>6
  <2>2. CASE q >= End \/ CharAt(q) \in LineEnds
    <3>1. after[q] = Opened(q) /\ after[q].to = q
      BY <2>1, <2>2 DEF StopsAt, Opened
    <3>2. after[q] \in Literals
      BY <3>1, <1>1, <1>3 DEF Opened, Literals
    <3>3. q \in q..End /\ q..q - 1 = {}
      BY <1>1, <1>3
    <3> QED BY <1>3, <3>1, <3>2, <3>3 DEF OnOneLine
  <2>3. CASE ~(q >= End \/ CharAt(q) \in LineEnds)
    <3>1. after[q] = Closed(q + 1) /\ after[q].to = q + 1
      BY <2>1, <2>3 DEF StopsAt, Closed
    <3>2. after[q] \in Literals
      BY <3>1, <1>1, <1>3 DEF Closed, Literals
    <3>3. q + 1 \in q..End /\ \A k \in q..(q + 1) - 1 : k = q
      <4>1. ~(q >= End)
        BY <2>3
      <4> QED BY <1>1, <1>3, <4>1
    <3> QED BY <1>3, <2>3, <3>1, <3>2, <3>3 DEF OnOneLine
  <2> QED BY <2>2, <2>3
<1> QED
  BY <1>5, <1>6

LEMMA LiteralReads ==
    ASSUME ReadsText, NEW p \in 1..Len(Text), CharAt(p) = "'"
    PROVE  Reads(p, ScanQuotedLiteral(p))
<1> DEFINE literal == LiteralAfter(p)[p + 1]
           to == literal.to
<1>1. p + 1 \in p + 1..End
  <2>1. Len(Text) \in Nat /\ End = Len(Text) + 1
    BY EndIs
  <2> QED BY <2>1
<1>2. to \in p + 1..End /\ OnOneLine(p + 1, to)
  BY <1>1, LiteralAfterStops
<1>3. \A q \in p..to - 1 : q = p \/ q \in p + 1..to - 1
  <2> HIDE DEF to
  <2>1. p \in Int
    OBVIOUS
  <2> QED BY <2>1
<1>4. OnOneLine(p, to)
  BY <1>2, <1>3 DEF OnOneLine, LineEnds
<1>5. "Char" \in Kinds /\ "String" \in Kinds
  BY DEF Kinds
<1>6. ScanQuotedLiteral(p) =
        IF literal.closed THEN Scanned(IF literal.size = 1 THEN "Char" ELSE "String", to)
        ELSE Malformed("String", to, "unclosed string or character literal", p)
  BY DEF ScanQuotedLiteral
<1> HIDE DEF literal, to
<1> QED
  BY <1>2, <1>4, <1>5, <1>6, ScannedReads

LEMMA TokenReads ==
    ASSUME ReadsText, NEW p \in 1..Len(Text),
           CharAt(p) \in IdentStart \cup Digits \cup {"'"} \cup Operators
    PROVE  Reads(p, ScanToken(p))
  BY IdentifierReads, NumberReads, LiteralReads, OperatorReads DEF ScanToken

---------------------------------------------------------------------------
(* What is read: positions lie in their texts, files that wait have their    *)
(* directive behind them, tokens cover text of one line of their file.       *)

OpenFrames == [path : Paths \cup {Root}, key : DOMAIN files, pos : Nat \ {0}]
Resumes(frame) ==
    /\ frame.pos - 1 \in DOMAIN files[frame.key]
    /\ files[frame.key][frame.pos - 1] = "}"
TokensRead == [kind : Kinds \cup {"EndOfFile"}, path : Paths \cup {Root},
               from : Nat \ {0}, to : Nat \ {0}]

Covers(text, from, to) ==
    /\ from \in 1..Len(text) + 1
    /\ to \in from..Len(text) + 1
    /\ \A q \in from..to - 1 : text[q] \notin LineEnds
LiesInFile(token) ==
    /\ Canonical(token.path) \in DOMAIN files
    /\ Covers(files[Canonical(token.path)], token.from, token.to)

StackReads ==
    /\ stack \in Seq(OpenFrames) /\ Len(stack) >= 1
    /\ \A k \in 1..Len(stack) : stack[k].key = Canonical(stack[k].path)
    /\ \A k \in 1..Len(stack) - 1 : Resumes(stack[k])
StreamReads ==
    /\ tokens \in Seq(TokensRead)
    /\ \A k \in DOMAIN tokens : LiesInFile(tokens[k])

RInv ==
    /\ TextsAreTexts
    /\ StackReads
    /\ pos \in 1..End
    /\ StreamReads
    /\ done \in BOOLEAN

LEMMA InitReads == Init => RInv
<1> SUFFICES ASSUME Init PROVE RInv
  OBVIOUS
<1> DEFINE frame == [path |-> Root, key |-> Canonical(Root), pos |-> 1]
<1>1. TextsAreTexts /\ Canonical(Root) \in DOMAIN files
  BY ScannerAssumption DEF Init, TextsAreTexts
<1>2. frame \in OpenFrames
  BY <1>1 DEF OpenFrames
<1>3. stack = <<frame>> /\ stack \in Seq(OpenFrames) /\ Len(stack) = 1 /\ stack[1] = frame
  <2> HIDE DEF frame
  <2>1. stack = <<frame>>
    BY DEF Init, frame
  <2> QED BY <1>2, <2>1
<1>4. StackReads
  BY <1>3 DEF StackReads
<1>5. Text \in Seq(STRING)
  BY <1>1, <1>3 DEF Text, Top, TextsAreTexts
<1>6. pos \in 1..End
  <2>1. Len(Text) \in Nat /\ End = Len(Text) + 1
    BY <1>5, EndIs DEF ReadsText
  <2> QED BY <2>1 DEF Init
<1>7. StreamReads /\ done \in BOOLEAN
  <2>1. tokens = <<>> /\ done = FALSE
    BY DEF Init
  <2>2. <<>> \in Seq(TokensRead) /\ DOMAIN <<>> = {}
    OBVIOUS
  <2> QED BY <2>1, <2>2 DEF StreamReads
<1> QED
  BY <1>1, <1>4, <1>6, <1>7 DEF RInv

(* What the file on top is.                                                 *)
LEMMA TopReads ==
    ASSUME RInv
    PROVE  /\ Top \in OpenFrames /\ Top.key = Canonical(Top.path)
           /\ Len(stack) \in 1..Len(stack)
           /\ ReadsText /\ Len(Text) \in Nat /\ End = Len(Text) + 1
<1>1. Len(stack) \in Nat /\ Len(stack) >= 1
  BY LenProperties DEF RInv, StackReads
<1>2. Len(stack) \in 1..Len(stack)
  BY <1>1
<1>3. Top \in OpenFrames /\ Top.key = Canonical(Top.path)
  BY <1>2, ElementOfSeq DEF RInv, StackReads, Top
<1>4. ReadsText
  BY <1>3 DEF RInv, TextsAreTexts, OpenFrames, Text, ReadsText
<1> QED
  BY <1>2, <1>3, <1>4, EndIs

LEMMA ScanningReads ==
    ASSUME RInv, Scanning
    PROVE  pos \in 1..Len(Text)
<1>1. Len(Text) \in Nat /\ End = Len(Text) + 1 /\ pos \in 1..End
  BY TopReads DEF RInv
<1>2. ~(pos >= End)
  BY DEF Scanning, AtEnd
<1> QED
  BY <1>1, <1>2

(* A step within a file keeps all this, if it stays in the text.             *)
LEMMA StaysReads ==
    ASSUME RInv, InSameFile, pos' \in 1..End, UNCHANGED tokens
    PROVE  RInv'
<1>1. Text' = Text /\ End' = End
  BY DEF InSameFile, Text, Top, End
<1>2. TextsAreTexts' /\ done' \in BOOLEAN
  BY DEF RInv, InSameFile, TextsAreTexts
<1>3. StackReads'
  BY DEF RInv, InSameFile, StackReads, OpenFrames, Resumes
<1>4. StreamReads'
  BY DEF RInv, InSameFile, StreamReads, LiesInFile
<1> QED
  BY <1>1, <1>2, <1>3, <1>4 DEF RInv

LEMMA TokenAdded ==
    ASSUME RInv, UNCHANGED files,
           NEW kind \in Kinds \cup {"EndOfFile"},
           NEW from \in 1..End, NEW to \in from..End, OnOneLine(from, to),
           tokens' = Append(tokens, Token(kind, from, to))
    PROVE  StreamReads'
<1> DEFINE token == Token(kind, from, to)
           n == Len(tokens)
<1>1. /\ Top \in OpenFrames /\ Top.key = Canonical(Top.path)
      /\ Len(Text) \in Nat /\ End = Len(Text) + 1 /\ ReadsText
  BY TopReads
<1>2. from \in Nat \ {0} /\ to \in Nat \ {0}
  BY <1>1
<1>3. token \in TokensRead
  BY <1>1, <1>2 DEF Token, TokensRead, OpenFrames
<1>4. LiesInFile(token)
  <2>1. /\ Canonical(token.path) \in DOMAIN files
        /\ files[Canonical(token.path)] = Text
        /\ token.from = from /\ token.to = to
    BY <1>1 DEF Token, OpenFrames, Text
  <2>2. from \in 1..Len(Text) + 1 /\ to \in from..Len(Text) + 1
    BY <1>1
  <2>3. \A q \in from..to - 1 : Text[q] \notin LineEnds
    <3> SUFFICES ASSUME NEW q \in from..to - 1 PROVE Text[q] \notin LineEnds
      OBVIOUS
    <3>1. q \in 1..Len(Text)
      BY <1>1, <2>2
    <3>2. q \in DOMAIN Text
      BY <1>1, <3>1, EndIs
    <3> QED BY <3>2 DEF OnOneLine, CharAt
  <2>4. Covers(Text, from, to)
    BY <2>2, <2>3 DEF Covers
  <2> QED BY <2>1, <2>4 DEF LiesInFile
<1>5. /\ tokens' \in Seq(TokensRead) /\ Len(tokens') = n + 1
      /\ \A k \in 1..n : tokens'[k] = tokens[k]
      /\ tokens'[n + 1] = token /\ n \in Nat
  <2>1. tokens \in Seq(TokensRead) /\ tokens' = Append(tokens, token)
    BY DEF RInv, StreamReads
  <2> HIDE DEF token
  <2> QED BY <1>3, <2>1, AppendProperties, LenProperties
<1>6. ASSUME NEW k \in DOMAIN tokens'
      PROVE  LiesInFile(tokens'[k])
  <2>1. k \in 1..n \/ k = n + 1
    BY <1>5, LenProperties
  <2>2. k \in 1..n => LiesInFile(tokens[k])
    BY LenProperties DEF RInv, StreamReads
  <2> HIDE DEF token
  <2> QED BY <1>4, <1>5, <2>1, <2>2
<1>7. (\A k \in DOMAIN tokens : LiesInFile(tokens[k]))'
  BY <1>6 DEF LiesInFile
<1>8. (tokens \in Seq(TokensRead))'
  BY <1>5 DEF TokensRead
<1> QED
  BY <1>7, <1>8 DEF StreamReads

LEMMA SkipBlanksReads == ASSUME RInv, SkipBlanks PROVE RInv'
<1>1. pos \in 1..End /\ ReadsText /\ Len(Text) \in Nat /\ End = Len(Text) + 1
  BY TopReads DEF RInv
<1>2. pos' \in pos..End
  BY <1>1, SkipWhileIs DEF SkipBlanks
<1>3. pos' \in 1..End
  BY <1>1, <1>2
<1> QED
  BY <1>3, StaysReads DEF SkipBlanks

(* The end of a comment, or of the text.                                     *)
LEMMA CloserReads ==
    ASSUME RInv, NEW closers \in SUBSET (1..Len(Text)), NEW length \in {1, 2},
           \A q \in closers : q + length <= End,
           SkipComment(First(closers), length)
    PROVE  pos' \in 1..End
<1> DEFINE closer == First(closers)
<1>1. pos \in 1..End /\ ReadsText /\ Len(Text) \in Nat /\ End = Len(Text) + 1
  BY TopReads DEF RInv
<1>2. closer \in closers \cup {End} /\ closer \in Nat /\ closer <= End
  BY <1>1, FirstIs
<1>3. closer < End => closer \in closers
  <2> HIDE DEF closer
  <2> QED BY <1>1, <1>2
<1>4. closer < End => pos' = closer + length
  BY DEF SkipComment
<1>5. ~(closer < End) => pos' = End
  BY DEF SkipComment
<1>6. closer \in closers => closer + length <= End
  OBVIOUS
<1> HIDE DEF closer
<1> QED
  BY <1>1, <1>2, <1>3, <1>4, <1>5, <1>6

LEMMA SkipBraceCommentReads == ASSUME RInv, SkipBraceComment PROVE RInv'
<1> DEFINE closers == {q \in pos + 1..Len(Text) : CharAt(q) = "}"}
<1>1. pos \in 1..End /\ ReadsText /\ Len(Text) \in Nat /\ End = Len(Text) + 1
  BY TopReads DEF RInv
<1>2. closers \in SUBSET (1..Len(Text)) /\ \A q \in closers : q + 1 <= End
  <2>1. pos + 1..Len(Text) \subseteq 1..Len(Text) /\ \A q \in pos + 1..Len(Text) : q + 1 <= End
    BY <1>1
  <2> QED BY <2>1
<1>3. SkipComment(First(closers), 1)
  BY DEF SkipBraceComment
<1>4. pos' \in 1..End
  <2> HIDE DEF closers
  <2> QED BY <1>2, <1>3, CloserReads
<1> QED
  BY <1>4, StaysReads DEF SkipBraceComment

LEMMA SkipParenStarCommentReads == ASSUME RInv, SkipParenStarComment PROVE RInv'
<1> DEFINE closers == {q \in pos + 2..Len(Text) : CharAt(q) = "*" /\ CharAt(q + 1) = ")"}
<1>1. pos \in 1..End /\ ReadsText /\ Len(Text) \in Nat /\ End = Len(Text) + 1
  BY TopReads DEF RInv
<1>2. closers \in SUBSET (1..Len(Text))
  <2>1. pos + 2..Len(Text) \subseteq 1..Len(Text)
    BY <1>1
  <2> QED BY <2>1
<1>3. \A q \in closers : q + 2 <= End
  <2> SUFFICES ASSUME NEW q \in closers PROVE q + 2 <= End
    OBVIOUS
  <2>1. q + 1 \in 1..Len(Text)
    BY <1>1, InText
  <2> QED BY <1>1, <1>2, <2>1
<1>4. SkipComment(First(closers), 2)
  BY DEF SkipParenStarComment
<1>5. pos' \in 1..End
  <2> HIDE DEF closers
  <2> QED BY <1>2, <1>3, <1>4, CloserReads
<1> QED
  BY <1>5, StaysReads DEF SkipParenStarComment

(* The end of the directive at pos.                                          *)
LEMMA DirectiveEndIs ==
    ASSUME RInv, Scanning
    PROVE  /\ DirectiveEnd \in 1..End
           /\ DirectiveEnd # End => DirectiveEnd \in 1..Len(Text) /\ CharAt(DirectiveEnd) = "}"
<1> DEFINE closers == {q \in pos + 2..Len(Text) : CharAt(q) = "}"}
<1>1. pos \in 1..Len(Text) /\ ReadsText /\ Len(Text) \in Nat /\ End = Len(Text) + 1
  BY TopReads, ScanningReads
<1>2. closers \in SUBSET (1..Len(Text))
  <2>1. pos + 2..Len(Text) \subseteq 1..Len(Text)
    BY <1>1
  <2> QED BY <2>1
<1>3. First(closers) \in closers \cup {End}
  <2> HIDE DEF closers
  <2> QED BY <1>1, <1>2, FirstIs
<1>4. DirectiveEnd = First(closers)
  BY DEF DirectiveEnd
<1>5. DirectiveEnd # End => DirectiveEnd \in 1..Len(Text) /\ CharAt(DirectiveEnd) = "}"
  <2>1. DirectiveEnd # End => DirectiveEnd \in closers
    <3> HIDE DEF closers
    <3> QED BY <1>3, <1>4
  <2> QED BY <1>2, <2>1
<1>6. DirectiveEnd \in 1..End
  <2>1. 1..Len(Text) \subseteq 1..End /\ End \in 1..End
    BY <1>1
  <2> QED BY <1>5, <2>1
<1> QED
  BY <1>5, <1>6

LEMMA RejectDirectiveReads == ASSUME RInv, RejectDirective PROVE RInv'
<1>1. Len(Text) \in Nat /\ End = Len(Text) + 1
  BY TopReads
<1>2. /\ DirectiveEnd \in 1..End
      /\ DirectiveEnd # End => DirectiveEnd \in 1..Len(Text)
  BY DirectiveEndIs DEF RejectDirective
<1>3. pos' = IF DirectiveEnd = End THEN End ELSE DirectiveEnd + 1
  BY DEF RejectDirective
<1>4. pos' \in 1..End
  BY <1>1, <1>2, <1>3
<1> QED
  BY <1>4, StaysReads DEF RejectDirective

LEMMA UnexpectedCharacterReads == ASSUME RInv, UnexpectedCharacter PROVE RInv'
<1>1. pos \in 1..Len(Text) /\ Len(Text) \in Nat /\ End = Len(Text) + 1
  BY TopReads, ScanningReads DEF UnexpectedCharacter
<1>2. pos' = pos + 1
  BY DEF UnexpectedCharacter
<1>3. pos' \in 1..End
  BY <1>1, <1>2
<1> QED
  BY <1>3, StaysReads DEF UnexpectedCharacter

LEMMA NextTokenReads == ASSUME RInv, NextToken PROVE RInv'
<1> DEFINE scanned == ScanToken(pos)
<1>1. /\ pos \in 1..Len(Text) /\ ReadsText /\ Len(Text) \in Nat /\ End = Len(Text) + 1
  BY TopReads, ScanningReads DEF NextToken
<1>2. Reads(pos, scanned)
  BY <1>1, TokenReads DEF NextToken, StartsToken
<1>3. /\ tokens' = Append(tokens, Token(scanned.kind, pos, scanned.to)) /\ pos' = scanned.to
      /\ InSameFile
  BY DEF NextToken
<1> HIDE DEF scanned
<1>4. scanned.kind \in Kinds /\ scanned.to \in pos + 1..End /\ OnOneLine(pos, scanned.to)
  BY <1>2 DEF Reads
<1>5. pos \in 1..End /\ scanned.to \in pos..End /\ scanned.to \in 1..End
  BY <1>1, <1>4
<1>6. StreamReads'
  BY <1>3, <1>4, <1>5, TokenAdded DEF InSameFile
<1>7. Text' = Text /\ End' = End
  BY <1>3 DEF InSameFile, Text, Top, End
<1>8. TextsAreTexts' /\ done' \in BOOLEAN
  BY <1>3 DEF RInv, InSameFile, TextsAreTexts
<1>9. StackReads'
  BY <1>3 DEF RInv, InSameFile, StackReads, OpenFrames, Resumes
<1> QED
  BY <1>3, <1>5, <1>6, <1>7, <1>8, <1>9 DEF RInv

LEMMA EndOfFileReads == ASSUME RInv, EndOfFile PROVE RInv'
<1>1. pos \in 1..End /\ Len(Text) \in Nat /\ End = Len(Text) + 1
  BY TopReads DEF RInv
<1>2. pos \in pos..End /\ pos..pos - 1 = {}
  BY <1>1
<1>3. OnOneLine(pos, pos)
  BY <1>2 DEF OnOneLine
<1>4. StreamReads'
  BY <1>1, <1>2, <1>3, TokenAdded DEF EndOfFile
<1>5. Text' = Text /\ End' = End
  BY DEF EndOfFile, Text, Top, End
<1>6. TextsAreTexts' /\ done' \in BOOLEAN
  BY DEF RInv, EndOfFile, TextsAreTexts
<1>7. StackReads'
  BY DEF RInv, EndOfFile, StackReads, OpenFrames, Resumes
<1> QED
  BY <1>1, <1>4, <1>5, <1>6, <1>7 DEF RInv, EndOfFile

LEMMA IncludeReads == ASSUME RInv, Include PROVE RInv'
<1> DEFINE n == Len(stack)
           here == DirectiveEnd + 1
           saved == [Top EXCEPT !.pos = here]
           frame == [path |-> Included, key |-> Canonical(Included), pos |-> 1]
<1>1. /\ Top \in OpenFrames /\ Top.key = Canonical(Top.path) /\ n \in 1..n /\ n \in Nat
      /\ ReadsText /\ Len(Text) \in Nat /\ End = Len(Text) + 1
      /\ stack \in Seq(OpenFrames) /\ DOMAIN stack = 1..n
      /\ \A k \in 1..n : stack[k] \in OpenFrames /\ stack[k].key = Canonical(stack[k].path)
  <2>1. stack \in Seq(OpenFrames)
    BY DEF RInv, StackReads
  <2> QED BY <2>1, TopReads, LenProperties, ElementOfSeq DEF RInv, StackReads
<1>2. Included \in DOMAIN files /\ DOMAIN files \subseteq Paths /\ Canonical(Included) = Included
  <2>1. Included \in DOMAIN files
    BY Accepted DEF Include
  <2> QED BY <2>1, ScannerAssumption DEF Include, RInv, TextsAreTexts
<1>3. DirectiveEnd \in 1..Len(Text) /\ CharAt(DirectiveEnd) = "}"
  <2>1. DirectiveEnd # End
    BY DEF Include, DirectiveError
  <2> QED BY <2>1, DirectiveEndIs DEF Include
<1>4. here - 1 = DirectiveEnd /\ here \in Nat \ {0}
  <2>1. DirectiveEnd \in Nat
    <3>1. Len(Text) \in Nat /\ DirectiveEnd \in 1..Len(Text)
      BY <1>1, <1>3
    <3> QED BY <3>1
  <2> QED BY <2>1
<1>5. saved \in OpenFrames /\ saved.key = Top.key /\ saved.path = Top.path /\ saved.pos = here
  <2> HIDE DEF here
  <2> QED BY <1>1, <1>4 DEF OpenFrames
<1>6. Resumes(saved)
  <2>1. Text[DirectiveEnd] = "}" /\ DirectiveEnd \in DOMAIN Text
    BY <1>1, <1>3, EndIs DEF CharAt
  <2> HIDE DEF saved, here
  <2> QED BY <1>4, <1>5, <2>1 DEF Resumes, Text
<1>7. frame \in OpenFrames
  BY <1>2 DEF OpenFrames
<1>8. /\ SavedTopPos \in Seq(OpenFrames) /\ Len(SavedTopPos) = n
      /\ \A k \in 1..n : SavedTopPos[k] = IF k = n THEN saved ELSE stack[k]
  <2>1. SavedTopPos = [stack EXCEPT ![n] = saved]
    BY DEF SavedTopPos, Top
  <2> HIDE DEF saved
  <2> QED BY <1>1, <1>5, <2>1, ExceptSeq
<1>9. /\ stack' \in Seq(OpenFrames) /\ Len(stack') = n + 1
      /\ \A k \in 1..n : stack'[k] = SavedTopPos[k]
      /\ stack'[n + 1] = frame
  <2>1. stack' = Append(SavedTopPos, frame)
    BY DEF Include
  <2> HIDE DEF frame
  <2> QED BY <1>1, <1>7, <1>8, <2>1, AppendProperties
<1>10. UNCHANGED <<files, tokens, done>> /\ pos' = 1
  BY DEF Include
<1>11. TextsAreTexts' /\ StreamReads' /\ done' \in BOOLEAN
  BY <1>10 DEF RInv, TextsAreTexts, StreamReads, LiesInFile
<1>12. \A k \in 1..n + 1 : stack'[k].key = Canonical(stack'[k].path)
  <2> SUFFICES ASSUME NEW k \in 1..n + 1 PROVE stack'[k].key = Canonical(stack'[k].path)
    OBVIOUS
  <2>1. CASE k = n + 1
    BY <1>9, <2>1
  <2>2. CASE k = n
    <3>1. stack'[k] = saved
      <4> HIDE DEF saved
      <4> QED BY <1>1, <1>8, <1>9, <2>2
    <3> HIDE DEF saved
    <3> QED BY <1>1, <1>5, <3>1
  <2>3. CASE k # n /\ k # n + 1
    <3>1. k \in 1..n
      <4>1. n \in Nat
        BY <1>1
      <4> QED BY <4>1, <2>3
    <3>2. stack'[k] = stack[k]
      <4> HIDE DEF saved
      <4> QED BY <1>8, <1>9, <2>3, <3>1
    <3> QED BY <1>1, <3>1, <3>2
  <2> QED BY <2>1, <2>2, <2>3
<1>13. \A k \in 1..n : Resumes(stack'[k])
  <2> SUFFICES ASSUME NEW k \in 1..n PROVE Resumes(stack'[k])
    OBVIOUS
  <2>1. CASE k = n
    <3>1. stack'[k] = saved
      <4> HIDE DEF saved
      <4> QED BY <1>1, <1>8, <1>9, <2>1
    <3> HIDE DEF saved
    <3> QED BY <1>6, <3>1
  <2>2. CASE k # n
    <3>1. k \in 1..n - 1
      <4>1. n \in Nat
        BY <1>1
      <4> QED BY <4>1, <2>2
    <3>2. stack'[k] = stack[k]
      <4> HIDE DEF saved
      <4> QED BY <1>8, <1>9, <2>2
    <3> QED BY <3>1, <3>2 DEF RInv, StackReads
  <2> QED BY <2>1, <2>2
<1>14. StackReads'
  <2>1. (n + 1) - 1 = n /\ n + 1 >= 1
    BY <1>1
  <2>2. \A k \in 1..Len(stack') - 1 : Resumes(stack'[k])
    BY <1>9, <1>13, <2>1
  <2>3. (\A k \in 1..Len(stack) - 1 : Resumes(stack[k]))'
    BY <1>10, <2>2 DEF Resumes
  <2>4. (stack \in Seq(OpenFrames))'
    BY <1>9, <1>10 DEF OpenFrames
  <2>5. (\A k \in 1..Len(stack) : stack[k].key = Canonical(stack[k].path))'
    BY <1>9, <1>12
  <2> QED BY <1>9, <2>1, <2>3, <2>4, <2>5 DEF StackReads
<1>15. pos' \in 1..End'
  <2>1. Top' = frame
    <3> HIDE DEF frame
    <3> QED BY <1>9 DEF Top
  <2>2. Text' = files[Included]
    BY <1>2, <1>10, <2>1 DEF Text
  <2>3. Text' \in Seq(STRING)
    BY <1>2, <2>2 DEF RInv, TextsAreTexts
  <2>4. Len(Text') \in Nat /\ End' = Len(Text') + 1
    BY <2>3, LenProperties DEF End
  <2> QED BY <1>10, <2>4
<1> QED
  BY <1>11, <1>14, <1>15 DEF RInv

LEMMA PopFrameReads == ASSUME RInv, PopFrame PROVE RInv'
<1> DEFINE n == Len(stack)
<1>1. /\ n \in Nat /\ n >= 2 /\ stack \in Seq(OpenFrames)
      /\ \A k \in 1..n : stack[k] \in OpenFrames
  <2>1. stack \in Seq(OpenFrames)
    BY DEF RInv, StackReads
  <2>2. n \in Nat /\ \A k \in 1..n : stack[k] \in OpenFrames
    BY <2>1, LenProperties, ElementOfSeq
  <2> QED BY <2>1, <2>2 DEF PopFrame
<1>2. n - 1 \in 1..n - 1 /\ n - 1 \in 1..n /\ 1..n - 1 \subseteq 1..n /\ n - 1 >= 1
  BY <1>1
<1>3. /\ stack' \in Seq(OpenFrames) /\ Len(stack') = n - 1
      /\ \A k \in 1..n - 1 : stack'[k] = stack[k]
  <2>1. stack' = SubSeq(stack, 1, n - 1)
    BY DEF PopFrame
  <2>2. \A k \in 1..n - 1 : stack[k] \in OpenFrames
    BY <1>1, <1>2
  <2> QED BY <1>1, <2>1, <2>2, SubSeqProperties
<1>4. UNCHANGED <<files, tokens, done>> /\ pos' = stack[n - 1].pos
  BY DEF PopFrame, Includer
<1>5. TextsAreTexts' /\ StreamReads' /\ done' \in BOOLEAN
  BY <1>4 DEF RInv, TextsAreTexts, StreamReads, LiesInFile
<1>6. StackReads'
  <2>1. (stack \in Seq(OpenFrames))'
    BY <1>3, <1>4 DEF OpenFrames
  <2>2. (\A k \in 1..Len(stack) : stack[k].key = Canonical(stack[k].path))'
    BY <1>2, <1>3 DEF RInv, StackReads
  <2>3. \A k \in 1..Len(stack') - 1 : k \in 1..n - 1
    BY <1>1, <1>3
  <2>4. \A k \in 1..Len(stack') - 1 : Resumes(stack'[k])
    BY <1>3, <2>3 DEF RInv, StackReads
  <2>5. (\A k \in 1..Len(stack) - 1 : Resumes(stack[k]))'
    BY <1>4, <2>4 DEF Resumes
  <2> QED BY <1>2, <1>3, <2>1, <2>2, <2>5 DEF StackReads
<1>7. pos' \in 1..End'
  <2> DEFINE frame == stack[n - 1]
             text == files[frame.key]
  <2>1. frame \in OpenFrames /\ Resumes(frame)
    BY <1>1, <1>2 DEF RInv, StackReads
  <2>2. Text' = text
    BY <1>2, <1>3, <1>4 DEF Text, Top
  <2>3. text \in Seq(STRING)
    BY <2>1 DEF RInv, TextsAreTexts, OpenFrames
  <2>4. Len(text) \in Nat /\ DOMAIN text = 1..Len(text)
    <3> HIDE DEF text
    <3> QED BY <2>3, LenProperties
  <2>5. frame.pos \in Nat /\ frame.pos - 1 \in 1..Len(text)
    BY <2>1, <2>4 DEF Resumes, OpenFrames
  <2>6. End' = Len(text) + 1
    BY <2>2 DEF End
  <2> HIDE DEF frame, text
  <2>7. frame.pos \in 1..Len(text) + 1
    BY <2>4, <2>5
  <2> QED BY <1>4, <2>6, <2>7 DEF frame
<1> QED
  BY <1>5, <1>6, <1>7 DEF RInv

LEMMA NextReads == RInv /\ [Next]_vars => RInv'
<1> SUFFICES ASSUME RInv, [Next]_vars PROVE RInv'
  OBVIOUS
<1>1. CASE SkipBlanks
  BY <1>1, SkipBlanksReads
<1>2. CASE SkipBraceComment
  BY <1>2, SkipBraceCommentReads
<1>3. CASE SkipParenStarComment
  BY <1>3, SkipParenStarCommentReads
<1>4. CASE RejectDirective
  BY <1>4, RejectDirectiveReads
<1>5. CASE Include
  BY <1>5, IncludeReads
<1>6. CASE NextToken
  BY <1>6, NextTokenReads
<1>7. CASE UnexpectedCharacter
  BY <1>7, UnexpectedCharacterReads
<1>8. CASE PopFrame
  BY <1>8, PopFrameReads
<1>9. CASE EndOfFile
  BY <1>9, EndOfFileReads
<1>10. CASE UNCHANGED vars
  <2>1. InSameFile /\ UNCHANGED tokens /\ pos' = pos /\ End' = End
    BY <1>10 DEF vars, InSameFile, End, Text, Top
  <2>2. pos' \in 1..End
    BY <2>1 DEF RInv
  <2> QED BY <2>1, <2>2, StaysReads
<1> QED
  BY <1>1, <1>2, <1>3, <1>4, <1>5, <1>6, <1>7, <1>8, <1>9, <1>10 DEF Next

(* Every read of the scanner is of a place in its text, through includes,    *)
(* malformed tokens and texts that end anywhere.                             *)
THEOREM ReadingInvariant == Spec => []RInv
  BY InitReads, NextReads, PTL DEF Spec

(* A file that waits goes on right after the brace of its directive          *)
(* (saveTopPos before pushFrame, popFrame).                                  *)
THEOREM FilesResumeAfterDirective == Spec => []ResumesAfterDirective
<1>1. RInv => ResumesAfterDirective
  BY DEF RInv, StackReads, Resumes, ResumesAfterDirective
<1> QED
  BY <1>1, ReadingInvariant, PTL

(* The state of the scanner has its types.                                   *)
THEOREM ScannerTypes == Spec => []TypeOK
<1>1. ASSUME IInv, RInv
      PROVE  TypeOK
  <2>1. /\ DOMAIN files \subseteq Paths
        /\ \A path \in DOMAIN files : files[path] \in Seq(STRING)
    BY <1>1 DEF IInv, RInv, TextsAreTexts
  <2>2. stack \in Seq([path : Paths \cup {Root}, key : DOMAIN files, pos : Nat \ {0}])
    BY <1>1 DEF RInv, StackReads, OpenFrames
  <2>3. pos \in Nat \ {0}
    <3>1. Len(Text) \in Nat /\ End = Len(Text) + 1 /\ pos \in 1..End
      BY <1>1, TopReads DEF RInv
    <3> QED BY <3>1
  <2>4. \A k \in 1..Len(stack) : stack[k] \in OpenFrames
    BY <1>1, ElementOfSeq DEF RInv, StackReads
  <2>5. active \subseteq Paths
    <3>1. DOMAIN stack = 1..Len(stack)
      BY <1>1, LenProperties DEF RInv, StackReads
    <3> QED BY <1>1, <2>1, <2>4, <3>1 DEF IInv, Open, OpenFrames
  <2>6. activePath \in Paths \cup {Root}
    BY <1>1, TopReads DEF IInv, OpenFrames
  <2>7. tokens \in Seq([kind : {"Identifier", "Keyword", "Integer", "Real", "Char", "String",
                                "Operator", "EndOfFile"},
                        path : Paths \cup {Root}, from : Nat \ {0}, to : Nat \ {0}])
    <3>1. Kinds \cup {"EndOfFile"} = {"Identifier", "Keyword", "Integer", "Real", "Char",
                                      "String", "Operator", "EndOfFile"}
      BY DEF Kinds
    <3> QED BY <1>1, <3>1 DEF RInv, StreamReads, TokensRead
  <2>8. done \in BOOLEAN
    BY <1>1 DEF RInv
  <2> QED BY <2>1, <2>2, <2>3, <2>5, <2>6, <2>7, <2>8 DEF TypeOK
<1> QED
  BY <1>1, StackInvariant, ReadingInvariant, PTL

---------------------------------------------------------------------------
(* What a text is made of, the line feed that ends a Unix line among it.     *)
Character == STRING \cup {"\n"}

LEMMA TextIsOfCharacters == ASSUME NEW text \in Seq(STRING) PROVE text \in Seq(Character)
  BY DEF Character

(* Increasing enumerations of a set of offsets.                             *)

Enumerates(s, S) ==
    /\ s \in Seq(Nat)
    /\ \A i, j \in DOMAIN s : i < j => s[i] < s[j]
    /\ \A i \in DOMAIN s : s[i] \in S
    /\ \A x \in S : \E i \in DOMAIN s : s[i] = x

LEMMA ConsEnumerates ==
    ASSUME NEW s, NEW S \in SUBSET Nat, Enumerates(s, S),
           NEW x \in Nat, \A y \in S : x < y
    PROVE  Enumerates(<<x>> \o s, {x} \cup S)
<1> DEFINE t == <<x>> \o s
<1>1. s \in Seq(Nat) /\ Len(s) \in Nat /\ DOMAIN s = 1..Len(s)
  BY LenProperties DEF Enumerates
<1>2. <<x>> \in Seq(Nat) /\ Len(<<x>>) = 1 /\ <<x>>[1] = x
  OBVIOUS
<1>3. /\ t \in Seq(Nat) /\ Len(t) = Len(s) + 1
      /\ \A i \in 1..1 + Len(s) : t[i] = IF i <= 1 THEN <<x>>[i] ELSE s[i - 1]
  BY <1>1, <1>2, ConcatProperties
<1>4. DOMAIN t = 1..Len(s) + 1 /\ t[1] = x /\ \A i \in 2..Len(s) + 1 : t[i] = s[i - 1]
  <2> HIDE DEF t
  <2> QED BY <1>1, <1>2, <1>3, LenProperties
<1> HIDE DEF t
<1>5. \A i \in DOMAIN t : i = 1 \/ (i \in 2..Len(s) + 1 /\ i - 1 \in DOMAIN s)
  BY <1>1, <1>4
<1>6. \A i, j \in DOMAIN t : i < j => t[i] < t[j]
  <2> SUFFICES ASSUME NEW i \in DOMAIN t, NEW j \in DOMAIN t, i < j PROVE t[i] < t[j]
    OBVIOUS
  <2>1. j \in 2..Len(s) + 1 /\ j - 1 \in DOMAIN s /\ t[j] = s[j - 1]
    BY <1>1, <1>4, <1>5
  <2>2. CASE i = 1
    BY <2>1, <2>2, <1>4 DEF Enumerates
  <2>3. CASE i # 1
    <3>1. i - 1 \in DOMAIN s /\ t[i] = s[i - 1] /\ i - 1 < j - 1
      BY <1>1, <1>4, <1>5, <2>1, <2>3
    <3> QED BY <2>1, <3>1 DEF Enumerates
  <2> QED BY <2>2, <2>3
<1>7. \A i \in DOMAIN t : t[i] \in {x} \cup S
  BY <1>4, <1>5 DEF Enumerates
<1>8. \A y \in {x} \cup S : \E i \in DOMAIN t : t[i] = y
  <2> SUFFICES ASSUME NEW y \in S PROVE \E i \in DOMAIN t : t[i] = y
    BY <1>1, <1>4
  <2>1. PICK i \in DOMAIN s : s[i] = y
    BY DEF Enumerates
  <2>2. i + 1 \in 2..Len(s) + 1 /\ (i + 1) - 1 = i
    BY <1>1
  <2> QED BY <1>4, <2>1, <2>2
<1>9. t \in Seq(Nat)
  BY <1>3
<1>10. Enumerates(t, {x} \cup S)
  BY <1>6, <1>7, <1>8, <1>9 DEF Enumerates
<1> QED
  BY <1>10 DEF t

---------------------------------------------------------------------------
(* buildLineStarts                                                          *)

Breaks(text) == {k \in 1..Len(text) : k < Len(text) /\ IsBreak(text, k)}

LEMMA NextCharacterIsAhead ==
    ASSUME NEW text \in Seq(Character), NEW k \in 1..Len(text)
    PROVE  /\ NextCharacter(text, k) \in {k + 1, k + 2}
           /\ NextCharacter(text, k) <= Len(text) + 1
           /\ StartAfter(text, k) \in Seq(Nat)
<1>1. Len(text) \in Nat
  BY LenProperties
<1>2. /\ NextCharacter(text, k) \in {k + 1, k + 2}
      /\ NextCharacter(text, k) <= Len(text) + 1
  BY <1>1 DEF NextCharacter, IsPair
<1>3. NextCharacter(text, k) - 1 \in Nat
  BY <1>2, <1>1
<1>4. <<NextCharacter(text, k) - 1>> \in Seq(Nat) /\ <<>> \in Seq(Nat)
  BY <1>3
<1> QED
  BY <1>2, <1>4 DEF StartAfter

(* The function of the definition satisfies its equation.                   *)
LEMMA StartsFromEquation ==
    ASSUME NEW text \in Seq(Character)
    PROVE  StartsFrom(text)
             = [k \in 1..Len(text) + 1 |->
                   IF k > Len(text) THEN <<>>
                   ELSE StartAfter(text, k) \o StartsFrom(text)[NextCharacter(text, k)]]
<1> DEFINE n == Len(text)
           D == 1..n + 1
           Equation(f) ==
             f = [k \in D |-> IF k > n THEN <<>>
                              ELSE StartAfter(text, k) \o f[NextCharacter(text, k)]]
           base == [k \in D |-> <<>>]
           next == [k \in D |-> IF k > n THEN 0 ELSE NextCharacter(text, k)]
           step == [k \in D |-> [s \in Seq(Nat) |-> IF k > n THEN s ELSE StartAfter(text, k) \o s]]
<1>1. n \in Nat
  BY LenProperties
<1>2. \A k \in D : k > n \/ k \in 1..n
  BY <1>1
<1>3. base \in [D -> Seq(Nat)]
  OBVIOUS
<1>4. next \in [D -> Int]
  BY <1>1, <1>2, NextCharacterIsAhead
<1>5. step \in [D -> [Seq(Nat) -> Seq(Nat)]]
  <2>1. \A k \in D, s \in Seq(Nat) : k <= n => StartAfter(text, k) \o s \in Seq(Nat)
    BY <1>1, <1>2, NextCharacterIsAhead, ConcatProperties
  <2> QED BY <2>1, <1>1
<1>6. PICK f \in [D -> Seq(Nat)] : \A k \in D :
          f[k] = IF k < next[k] /\ next[k] <= n + 1 THEN step[k][f[next[k]]] ELSE base[k]
  <2> DEFINE b == n + 1
  <2>1. b \in Int /\ 1 \in Int
    BY <1>1
  <2>2. D = 1..b
    OBVIOUS
  <2> HIDE DEF base, next, step, D, b
  <2>3. \E f \in [1..b -> Seq(Nat)] : \A k \in 1..b :
            f[k] = IF k < next[k] /\ next[k] <= b THEN step[k][f[next[k]]] ELSE base[k]
    <3>1. /\ base \in [1..b -> Seq(Nat)] /\ next \in [1..b -> Int]
          /\ step \in [1..b -> [Seq(Nat) -> Seq(Nat)]]
      BY <2>2, <1>3, <1>4, <1>5
    <3>2. HasRecursiveFunction(1, b, Seq(Nat), base, next, step)
      BY <2>1, <3>1, RecursionExists
    <3> QED BY <3>2 DEF HasRecursiveFunction
  <2> QED BY <2>2, <2>3 DEF b
<1>7. \A k \in D : f[k] = IF k > n THEN <<>>
                          ELSE StartAfter(text, k) \o f[NextCharacter(text, k)]
  <2> SUFFICES ASSUME NEW k \in D PROVE f[k] = IF k > n THEN <<>>
                          ELSE StartAfter(text, k) \o f[NextCharacter(text, k)]
    OBVIOUS
  <2>1. CASE k > n
    <3>1. next[k] = 0 /\ ~(k < 0) /\ base[k] = <<>>
      BY <2>1, <1>1
    <3> HIDE DEF base, next, step
    <3> QED BY <3>1, <2>1, <1>6
  <2>2. CASE ~(k > n)
    <3>1. k \in 1..n
      BY <2>2, <1>2
    <3>2. /\ next[k] = NextCharacter(text, k) /\ k < next[k] /\ next[k] <= n + 1
          /\ next[k] \in D
      BY <3>1, <2>2, <1>1, NextCharacterIsAhead
    <3>3. f[k] = step[k][f[next[k]]]
      <4> HIDE DEF base, next, step
      <4> QED BY <3>2, <1>6
    <3>4. f[next[k]] \in Seq(Nat)
      <4> HIDE DEF next
      <4> QED BY <3>2, <1>6
    <3>5. step[k][f[next[k]]] = StartAfter(text, k) \o f[next[k]]
      <4> HIDE DEF next
      <4> QED BY <3>4, <2>2
    <3> QED BY <3>2, <3>3, <3>5, <2>2
  <2> QED BY <2>1, <2>2
<1>8. Equation(f)
  <2> DEFINE g == [k \in D |-> IF k > n THEN <<>>
                          ELSE StartAfter(text, k) \o f[NextCharacter(text, k)]]
  <2>1. \A k \in D : f[k] = g[k]
    BY <1>7
  <2>2. DOMAIN f = D /\ DOMAIN g = D
    BY <1>6
  <2>3. f = g
    <3>1. f = [k \in D |-> f[k]] /\ g = [k \in D |-> g[k]]
      BY <1>6
    <3> HIDE DEF g
    <3> QED BY <2>1, <2>2, <3>1
  <2> QED BY <2>3
<1>9. StartsFrom(text) = CHOOSE g : Equation(g)
  BY DEF StartsFrom
<1>10. Equation(StartsFrom(text))
  <2> HIDE DEF Equation
  <2> QED BY <1>8, <1>9
<1> QED
  BY <1>10

(* One round of the loop: what it adds is the break it has come to, if that  *)
(* is not the end of the text.                                               *)
LEMMA RoundAddsBreak ==
    ASSUME NEW text \in Seq(Character), NEW k \in 1..Len(text),
           NEW rest, Enumerates(rest, {j \in Breaks(text) : j >= NextCharacter(text, k)})
    PROVE  Enumerates(StartAfter(text, k) \o rest, {j \in Breaks(text) : j >= k})
<1> DEFINE n == Len(text)
           q == NextCharacter(text, k)
           later == {j \in Breaks(text) : j >= q}
<1>1. n \in Nat /\ q \in {k + 1, k + 2} /\ q <= n + 1 /\ Breaks(text) \subseteq 1..n
  BY LenProperties, NextCharacterIsAhead DEF Breaks
<1>2. later \in SUBSET Nat
  BY <1>1
<1>3. rest \in Seq(Nat)
  BY DEF Enumerates
<1>4. CASE text[k] \in LineBreaks /\ q <= n
  <2>1. StartAfter(text, k) = <<q - 1>>
    BY <1>4 DEF StartAfter
  <2>2. q - 1 \in Breaks(text)
    BY <1>1, <1>4 DEF NextCharacter, IsPair, Breaks, IsBreak, LineBreaks
  <2>3. \A j \in Breaks(text) : j >= k /\ j < q => j = q - 1
    BY <1>1, <1>4 DEF NextCharacter, IsPair, Breaks, IsBreak, LineBreaks
  <2>4. {j \in Breaks(text) : j >= k} = {q - 1} \cup later
    BY <1>1, <2>2, <2>3
  <2>5. q - 1 \in Nat /\ \A y \in later : q - 1 < y
    BY <1>1
  <2>6. Enumerates(<<q - 1>> \o rest, {q - 1} \cup later)
    <3> HIDE DEF q, later
    <3>1. Enumerates(rest, later)
      BY DEF q, later
    <3> QED BY <1>2, <2>5, <3>1, ConsEnumerates
  <2> QED BY <2>1, <2>4, <2>6
<1>5. CASE ~(text[k] \in LineBreaks /\ q <= n)
  <2>1. StartAfter(text, k) = <<>>
    BY <1>5 DEF StartAfter
  <2>2. StartAfter(text, k) \o rest = rest
    BY <1>3, <2>1, ConcatEmptySeq
  <2>3. \A j \in Breaks(text) : j >= k => j >= q
    <3> SUFFICES ASSUME NEW j \in Breaks(text), j >= k, j < q PROVE FALSE
      BY <1>1
    <3>1. j \in 1..n /\ j < n /\ (j = k \/ (j = k + 1 /\ q = k + 2))
      BY <1>1 DEF Breaks
    <3>2. CASE text[k] \in LineBreaks
      BY <1>1, <1>5, <3>1, <3>2 DEF Breaks, IsBreak, NextCharacter, IsPair
    <3>3. CASE text[k] \notin LineBreaks
      <4>1. q = k + 1 /\ j = k
        BY <1>1, <3>1, <3>3 DEF NextCharacter, IsPair, LineBreaks
      <4> QED BY <3>3, <4>1 DEF Breaks, IsBreak, LineBreaks
    <3> QED BY <3>2, <3>3
  <2>4. {j \in Breaks(text) : j >= k} = later
    BY <1>1, <2>3
  <2> QED BY <2>2, <2>4
<1> QED
  BY <1>4, <1>5

LEMMA StartsFromEnumerates ==
    ASSUME NEW text \in Seq(Character), NEW k \in 1..Len(text) + 1
    PROVE  Enumerates(StartsFrom(text)[k], {j \in Breaks(text) : j >= k})
<1> DEFINE n == Len(text)
           Ok(i) == Enumerates(StartsFrom(text)[i], {j \in Breaks(text) : j >= i})
           Bad == {i \in 1..n + 1 : ~Ok(i)}
<1>1. n \in Nat /\ Breaks(text) \subseteq 1..n
  BY LenProperties DEF Breaks
<1> SUFFICES ASSUME Bad # {} PROVE FALSE
  <2>1. k \notin Bad => Ok(k)
    OBVIOUS
  <2> QED BY <2>1
<1>2. PICK i \in Bad : \A j \in Bad : j <= i
  <2>1. Bad \in SUBSET Int /\ (n + 1) \in Int /\ \A j \in Bad : j <= n + 1
    BY <1>1
  <2> HIDE DEF Bad, n
  <2> QED BY <2>1, GreatestExists
<1>3. i \in 1..n + 1 /\ ~Ok(i) /\ \A j \in 1..n + 1 : j > i => Ok(j)
  <2>1. \A j \in 1..n + 1 : ~Ok(j) => j <= i
    BY <1>2
  <2> HIDE DEF Ok
  <2> QED BY <1>1, <1>2, <2>1
<1>4. CASE i > n
  <2>1. StartsFrom(text)[i] = <<>>
    BY <1>3, <1>4, StartsFromEquation
  <2>2. {j \in Breaks(text) : j >= i} = {}
    BY <1>1, <1>3, <1>4
  <2>3. Enumerates(<<>>, {})
    BY DEF Enumerates
  <2> QED BY <1>3, <2>1, <2>2, <2>3
<1>5. CASE ~(i > n)
  <2>1. i \in 1..n
    BY <1>1, <1>3, <1>5
  <2>2. /\ NextCharacter(text, i) \in 1..n + 1 /\ NextCharacter(text, i) > i
    BY <1>1, <2>1, NextCharacterIsAhead
  <2>3. Ok(NextCharacter(text, i))
    <3> HIDE DEF Ok
    <3> QED BY <1>3, <2>2
  <2>4. StartsFrom(text)[i] = StartAfter(text, i) \o StartsFrom(text)[NextCharacter(text, i)]
    BY <1>3, <1>5, StartsFromEquation
  <2>5. Ok(i)
    BY <2>1, <2>3, <2>4, RoundAddsBreak
  <2> QED BY <1>3, <2>5
<1> QED
  BY <1>4, <1>5

(* The starts of lines are 0 and the breaks, in order.                      *)
LEMMA LineStartsEnumerate ==
    ASSUME NEW text \in Seq(Character), text # <<>>
    PROVE  /\ Enumerates(BuildLineStarts(text), {0} \cup Breaks(text))
           /\ LineCount(text) \in Nat \ {0}
           /\ DOMAIN BuildLineStarts(text) = 1..LineCount(text)
           /\ BuildLineStarts(text)[1] = 0
<1> DEFINE n == Len(text)
           rest == StartsFrom(text)[1]
<1>1. n \in Nat /\ Breaks(text) \subseteq 1..n /\ 1 \in 1..n + 1
  BY LenProperties DEF Breaks
<1>2. Enumerates(rest, Breaks(text))
  <2>1. {j \in Breaks(text) : j >= 1} = Breaks(text)
    BY <1>1
  <2> QED BY <1>1, <2>1, StartsFromEnumerates
<1>3. BuildLineStarts(text) = <<0>> \o rest
  BY DEF BuildLineStarts
<1>4. Breaks(text) \in SUBSET Nat /\ \A y \in Breaks(text) : 0 < y
  BY <1>1
<1>5. Enumerates(BuildLineStarts(text), {0} \cup Breaks(text))
  <2> HIDE DEF rest
  <2> QED BY <1>2, <1>3, <1>4, ConsEnumerates
<1>6. rest \in Seq(Nat) /\ <<0>> \in Seq(Nat) /\ Len(<<0>>) = 1 /\ <<0>>[1] = 0
  BY <1>2 DEF Enumerates
<1>7. /\ Len(BuildLineStarts(text)) = 1 + Len(rest) /\ Len(rest) \in Nat
      /\ BuildLineStarts(text)[1] = 0 /\ BuildLineStarts(text) \in Seq(Nat)
  <2> HIDE DEF rest
  <2> QED BY <1>3, <1>6, ConcatProperties, LenProperties
<1>8. DOMAIN BuildLineStarts(text) = 1..LineCount(text) /\ LineCount(text) \in Nat \ {0}
  BY <1>7, LenProperties DEF LineCount
<1> QED
  BY <1>5, <1>7, <1>8

---------------------------------------------------------------------------
(* locationAt                                                               *)

(* The line an offset is on: the last that starts at or before it.          *)
IsOn(text, offset, line) ==
    /\ line \in 1..LineCount(text)
    /\ BuildLineStarts(text)[line] <= offset
    /\ \A k \in 1..LineCount(text) : BuildLineStarts(text)[k] <= offset <=> k <= line

LEMMA LineExists ==
    ASSUME NEW text \in Seq(Character), text # <<>>, NEW offset \in Nat
    PROVE  \E line : IsOn(text, offset, line)
<1> DEFINE starts == BuildLineStarts(text)
           count == LineCount(text)
           UpTo == {k \in 1..count : starts[k] <= offset}
<1>1. /\ count \in Nat /\ count >= 1 /\ DOMAIN starts = 1..count /\ starts[1] = 0
      /\ starts \in Seq(Nat) /\ \A i, j \in 1..count : i < j => starts[i] < starts[j]
  BY LineStartsEnumerate DEF Enumerates
<1>2. \A k \in 1..count : starts[k] \in Nat
  <2>1. count = Len(starts)
    BY DEF LineCount
  <2> HIDE DEF starts, count
  <2> QED BY <1>1, <2>1, ElementOfSeq
<1>3. 1 \in UpTo /\ UpTo \in SUBSET Int /\ \A k \in UpTo : k <= count
  BY <1>1
<1>4. PICK m \in UpTo : \A k \in UpTo : k <= m
  <2>1. count \in Int /\ UpTo # {}
    BY <1>1, <1>3
  <2> HIDE DEF UpTo, count
  <2> QED BY <1>3, <2>1, GreatestExists
<1>5. ASSUME NEW k \in 1..count, k <= m
      PROVE  starts[k] <= offset
  <2>1. k = m \/ starts[k] < starts[m]
    <3> HIDE DEF starts, count
    <3> QED BY <1>1, <1>4, <1>5
  <2> HIDE DEF starts, count
  <2> QED BY <1>2, <1>4, <2>1
<1> QED
  BY <1>4, <1>5 DEF IsOn

LEMMA LocationIs ==
    ASSUME NEW text \in Seq(Character), text # <<>>, NEW offset \in 0..Len(text),
           NEW line, IsOn(text, offset, line)
    PROVE  LocationAt(text, offset) = [line |-> line,
                                       column |-> offset - BuildLineStarts(text)[line] + 1,
                                       offset |-> offset]
<1> DEFINE starts == BuildLineStarts(text)
<1>1. /\ DOMAIN starts = 1..LineCount(text) /\ LineCount(text) \in Nat
      /\ Len(text) \in Nat /\ line \in Nat \ {0} /\ line <= LineCount(text)
  <2>1. DOMAIN starts = 1..LineCount(text) /\ LineCount(text) \in Nat
    BY LineStartsEnumerate
  <2>2. line \in 1..LineCount(text) /\ Len(text) \in Nat
    BY LenProperties DEF IsOn
  <2> QED BY <2>1, <2>2
<1>2. {k \in DOMAIN starts : starts[k] <= offset} = 1..line
  BY <1>1 DEF IsOn
<1>3. Cardinality(1..line) = line
  BY <1>1, FS_Interval
<1>4. ~(offset > Len(text))
  BY <1>1
<1> QED
  BY <1>1, <1>2, <1>3, <1>4 DEF LocationAt

(* Counting breaks comes to the same line and column.                       *)
LEMMA LocationIsCounted ==
    ASSUME NEW text \in Seq(Character), text # <<>>, NEW offset \in 0..Len(text),
           NEW line, IsOn(text, offset, line)
    PROVE  /\ LineOf(text, offset) = line
           /\ StartOf(text, offset) = BuildLineStarts(text)[line]
<1> DEFINE starts == BuildLineStarts(text)
           before == BreaksBefore(text, offset)
           count == LineCount(text)
<1>1. /\ DOMAIN starts = 1..count /\ count \in Nat
      /\ Len(text) \in Nat /\ line \in Nat \ {0} /\ line <= count
      /\ starts[1] = 0 /\ Enumerates(starts, {0} \cup Breaks(text))
  BY LineStartsEnumerate, LenProperties DEF IsOn
<1>2. before = {k \in Breaks(text) : k <= offset} /\ \A k \in before : k >= 1
  BY <1>1 DEF BreaksBefore, Breaks
<1>3. \A i, j \in 1..count : i < j => starts[i] < starts[j]
  BY <1>1 DEF Enumerates
<1>4. \A i \in 1..count : starts[i] \in Nat
  <2> starts \in Seq(Nat) /\ count = Len(starts)
    BY <1>1 DEF Enumerates, LineCount
  <2> HIDE DEF starts, count
  <2> QED BY ElementOfSeq
<1>5. \A k \in 1..count : starts[k] <= offset <=> k <= line
  BY DEF IsOn
<1>6. \A i \in 2..line : starts[i] \in before
  <2> SUFFICES ASSUME NEW i \in 2..line PROVE starts[i] \in before
    OBVIOUS
  <2>1. i \in 1..count /\ i <= line /\ 1 \in 1..count /\ 1 < i
    BY <1>1
  <2>2. starts[i] # 0 /\ starts[i] <= offset
    <3> HIDE DEF starts, count
    <3> QED BY <1>1, <1>3, <1>4, <1>5, <2>1
  <2>3. starts[i] \in {0} \cup Breaks(text)
    BY <1>1, <2>1 DEF Enumerates
  <2> QED BY <1>2, <2>2, <2>3
<1>7. \A k \in before : \E i \in 2..line : starts[i] = k
  <2> SUFFICES ASSUME NEW k \in before PROVE \E i \in 2..line : starts[i] = k
    OBVIOUS
  <2>1. k \in Breaks(text) /\ k <= offset /\ k # 0
    BY <1>1, <1>2 DEF Breaks
  <2>2. PICK i \in 1..count : starts[i] = k
    BY <1>1, <2>1 DEF Enumerates
  <2>3. i # 1 /\ i <= line
    BY <1>1, <1>5, <2>1, <2>2
  <2> QED BY <1>1, <2>2, <2>3
<1>8. Cardinality(before) = line - 1
  <2> DEFINE f == [i \in 1..line - 1 |-> starts[i + 1]]
  <2>1. \A i \in 1..line - 1 : i + 1 \in 2..line /\ i + 1 \in 1..count
    BY <1>1
  <2>2. f \in [1..line - 1 -> before]
    BY <1>6, <2>1
  <2>3. \A i, j \in 1..line - 1 : f[i] = f[j] => i = j
    <3> SUFFICES ASSUME NEW i \in 1..line - 1, NEW j \in 1..line - 1, i # j
                 PROVE  starts[i + 1] # starts[j + 1]
      OBVIOUS
    <3>1. i + 1 < j + 1 \/ j + 1 < i + 1
      BY <1>1
    <3> HIDE DEF starts, count
    <3> QED BY <1>3, <1>4, <2>1, <3>1
  <2>4. \A k \in before : \E i \in 1..line - 1 : f[i] = k
    <3> SUFFICES ASSUME NEW k \in before PROVE \E i \in 1..line - 1 : f[i] = k
      OBVIOUS
    <3>1. PICK i \in 2..line : starts[i] = k
      BY <1>7
    <3>2. i - 1 \in 1..line - 1 /\ (i - 1) + 1 = i
      BY <1>1
    <3> QED BY <3>1, <3>2
  <2>5. f \in Bijection(1..line - 1, before)
    <3> HIDE DEF f, before
    <3> QED BY <2>2, <2>3, <2>4 DEF Bijection, Injection, Surjection, IsInjective
  <2>6. ExistsBijection(1..line - 1, before)
    BY <2>5 DEF ExistsBijection
  <2>7. line - 1 \in Nat
    BY <1>1
  <2> HIDE DEF before, f
  <2> QED BY <2>6, <2>7, FS_CountingElements
<1>9. LineOf(text, offset) = line
  BY <1>1, <1>8 DEF LineOf
<1>10. starts[line] \in before \cup {0}
  <2>1. line = 1 \/ line \in 2..line
    BY <1>1
  <2> QED BY <1>1, <1>6, <2>1
<1>11. \A k \in before : k <= starts[line]
  <2> SUFFICES ASSUME NEW k \in before PROVE k <= starts[line]
    OBVIOUS
  <2>1. PICK i \in 2..line : starts[i] = k
    BY <1>7
  <2>2. i \in 1..count /\ line \in 1..count /\ (i = line \/ i < line)
    BY <1>1
  <2> HIDE DEF starts, count
  <2> QED BY <1>3, <1>4, <2>1, <2>2
<1>12. ASSUME NEW s \in before \cup {0}, \A k \in before : k <= s
       PROVE  s = starts[line]
  <2>1. s = 0 \/ s \in before
    OBVIOUS
  <2>2. s \in Nat /\ starts[line] \in Nat
    BY <1>1, <1>2, <1>4 DEF Breaks
  <2>3. starts[line] = 0 \/ starts[line] <= s
    BY <1>10, <1>12
  <2>4. s = 0 \/ s <= starts[line]
    BY <1>11, <2>1
  <2> HIDE DEF starts, before
  <2>5. CASE starts[line] = 0
    BY <1>2, <2>1, <2>2, <2>4, <2>5
  <2>6. CASE s = 0
    BY <1>10, <1>12, <1>2, <2>2, <2>3, <2>6
  <2> QED BY <2>2, <2>3, <2>4, <2>5, <2>6
<1>13. StartOf(text, offset) = starts[line]
  <2> HIDE DEF starts, before
  <2> QED BY <1>10, <1>11, <1>12 DEF StartOf, before
<1> QED
  BY <1>9, <1>13

---------------------------------------------------------------------------
(* lineText                                                                 *)

LineEnd(text, line) ==
    IF line < LineCount(text) THEN BuildLineStarts(text)[line + 1] ELSE Len(text)

(* A line begins where it starts, ends where the next one starts, and has no *)
(* break in between.                                                         *)
LEMMA LineHasNoBreak ==
    ASSUME NEW text \in Seq(Character), text # <<>>, NEW offset \in 0..Len(text) - 1,
           NEW line, IsOn(text, offset, line)
    PROVE  /\ BuildLineStarts(text)[line] \in 0..offset
           /\ LineEnd(text, line) \in offset + 1..Len(text)
           /\ \A k \in Breaks(text) :
                ~(BuildLineStarts(text)[line] < k /\ k < LineEnd(text, line))
<1> DEFINE starts == BuildLineStarts(text)
           count == LineCount(text)
           n == Len(text)
<1>1. /\ DOMAIN starts = 1..count /\ count \in Nat /\ n \in Nat
      /\ line \in 1..count
      /\ Enumerates(starts, {0} \cup Breaks(text)) /\ starts \in Seq(Nat) /\ count = Len(starts)
  BY LineStartsEnumerate, LenProperties DEF IsOn, Enumerates, LineCount
<1>2. \A i, j \in 1..count : i < j => starts[i] < starts[j]
  BY <1>1 DEF Enumerates
<1>3. \A i \in 1..count : starts[i] \in 0..n
  <2>1. Breaks(text) \subseteq 1..n
    BY DEF Breaks
  <2> QED BY <1>1, <2>1 DEF Enumerates
<1>4. \A k \in 1..count : starts[k] <= offset <=> k <= line
  BY DEF IsOn
<1>5. LineEnd(text, line) = IF line < count THEN starts[line + 1] ELSE n
  BY DEF LineEnd
<1>6. starts[line] \in 0..offset
  <2> HIDE DEF starts, count, n
  <2> QED BY <1>1, <1>3, <1>4
<1>7. LineEnd(text, line) \in offset + 1..n
  <2>1. CASE line < count
    <3>1. line + 1 \in 1..count /\ ~(line + 1 <= line)
      BY <1>1, <2>1
    <3>2. starts[line + 1] \in 0..n /\ ~(starts[line + 1] <= offset)
      <4> HIDE DEF starts, count, n
      <4> QED BY <1>3, <1>4, <3>1
    <3> QED BY <1>1, <1>5, <2>1, <3>2
  <2>2. CASE ~(line < count)
    BY <1>1, <1>5, <2>2
  <2> QED BY <2>1, <2>2
<1>8. ASSUME NEW k \in Breaks(text), starts[line] < k, k < LineEnd(text, line)
      PROVE  FALSE
  <2>1. PICK i \in 1..count : starts[i] = k
    BY <1>1 DEF Enumerates
  <2>2. line < i
    <3>1. CASE i < line
      <4> HIDE DEF starts, count
      <4> QED BY <1>1, <1>2, <1>3, <1>8, <2>1, <3>1
    <3>2. CASE i = line
      <4> HIDE DEF starts, count
      <4> QED BY <1>3, <1>8, <2>1, <3>2
    <3> HIDE DEF starts, count
    <3> QED BY <1>1, <2>1, <3>1, <3>2
  <2>3. line < count /\ line + 1 \in 1..count /\ (i = line + 1 \/ line + 1 < i)
    BY <1>1, <2>1, <2>2
  <2>4. starts[line + 1] <= k
    <3> HIDE DEF starts, count
    <3> QED BY <1>2, <1>3, <2>1, <2>3
  <2>5. k < starts[line + 1]
    BY <1>5, <1>8, <2>3
  <2>6. starts[line + 1] \in Int /\ k \in Int
    BY <1>3, <2>1, <2>3
  <2> HIDE DEF starts, count
  <2> QED BY <2>4, <2>5, <2>6
<1> QED
  BY <1>6, <1>7, <1>8

(* The text of a line is what stands on it before its break.                 *)
LEMMA LineTextIs ==
    ASSUME NEW text \in Seq(Character), text # <<>>, NEW offset \in 0..Len(text) - 1,
           NEW line, IsOn(text, offset, line)
    PROVE  LET start == BuildLineStarts(text)[line]
               width == Len(LineText(text, line))
           IN  /\ width \in Nat
               /\ text[offset + 1] \in LineBreaks => offset + 1 > start + width
               /\ text[offset + 1] \notin LineBreaks => offset + 1 <= start + width
               /\ \A i \in 1..width : LineText(text, line)[i] = text[start + i]
<1> DEFINE starts == BuildLineStarts(text)
           start == starts[line]
           n == Len(text)
           end == LineEnd(text, line)
           broken == end > start /\ text[end] \in LineBreaks
           paired == end - 1 > start /\ IsPair(text, end - 1)
           kept == IF paired THEN end - 2 ELSE IF broken THEN end - 1 ELSE end
           p == offset + 1
<1>1. /\ n \in Nat /\ line \in 1..LineCount(text) /\ LineCount(text) = Len(starts)
      /\ offset \in 0..n - 1
  BY LenProperties DEF IsOn, LineCount
<1>2. /\ start \in 0..offset /\ end \in p..n
      /\ \A k \in Breaks(text) : ~(start < k /\ k < end)
  BY LineHasNoBreak
<1>3. LineText(text, line) = SubSeq(text, start + 1, kept)
  BY <1>1 DEF LineText, LineEnd
<1>4. kept \in start..n /\ kept \in {end - 2, end - 1, end}
  <2> HIDE DEF start, end
  <2> QED BY <1>1, <1>2
<1>5. /\ Len(LineText(text, line)) = kept - start
      /\ \A i \in 1..kept - start : LineText(text, line)[i] = text[start + i]
  <2>1. /\ start + 1 \in Int /\ kept \in Int /\ kept - start \in Nat
        /\ (IF start + 1 <= kept THEN kept - (start + 1) + 1 ELSE 0) = kept - start
        /\ kept - (start + 1) + 1 = kept - start
        /\ \A i \in 1..kept - start : (start + 1) + i - 1 = start + i
        /\ start + 1..kept \subseteq 1..n
    <3> HIDE DEF start, kept, n
    <3> QED BY <1>1, <1>2, <1>4
  <2>2. \A i \in start + 1..kept : text[i] \in Character
    <3> HIDE DEF start, kept
    <3> QED BY <2>1, ElementOfSeq
  <2> HIDE DEF start, kept
  <2>3. /\ Len(SubSeq(text, start + 1, kept)) = kept - start
        /\ \A i \in 1..kept - start : SubSeq(text, start + 1, kept)[i] = text[(start + 1) + i - 1]
    BY <2>1, <2>2, SubSeqProperties
  <2> QED BY <1>3, <2>1, <2>3
<1>6. p \in 1..n /\ start < p /\ p <= end
  <2> HIDE DEF start, end
  <2> QED BY <1>1, <1>2
<1>7. ASSUME text[p] \in LineBreaks, p <= kept
      PROVE  FALSE
  <2>1. p # end
    <3> SUFFICES ASSUME p = end PROVE FALSE
      OBVIOUS
    <3>1. broken
      <4> HIDE DEF start
      <4> QED BY <1>1, <1>2, <1>6, <1>7
    <3>2. kept <= end - 1
      <4> HIDE DEF start, end, broken
      <4> QED BY <1>1, <1>2, <3>1
    <3> HIDE DEF kept, start, end
    <3> QED BY <1>1, <1>2, <1>4, <1>7, <3>2
  <2>2. p < end /\ p < n
    <3> HIDE DEF start, end
    <3> QED BY <1>1, <1>2, <1>6, <2>1
  <2>3. ~IsBreak(text, p)
    <3>1. p \notin Breaks(text)
      <4> HIDE DEF start, end
      <4> QED BY <1>2, <1>6, <2>2
    <3> QED BY <3>1, <2>2, <1>6 DEF Breaks
  <2>4. IsPair(text, p) /\ text[p + 1] = "\n"
    BY <1>7, <2>3 DEF IsBreak, LineBreaks, IsPair
  <2>5. CASE p + 1 = end
    <3>1. end - 1 = p
      <4> HIDE DEF end
      <4> QED BY <1>1, <2>5
    <3>2. paired
      <4> HIDE DEF end, start
      <4> QED BY <1>6, <2>4, <3>1
    <3>3. kept = end - 2
      <4> HIDE DEF paired
      <4> QED BY <3>2
    <3> HIDE DEF kept, start, end
    <3> QED BY <1>1, <1>2, <1>7, <3>3, <2>5
  <2>6. CASE p + 1 # end
    <3>1. p + 1 < end /\ p + 1 < n /\ start < p + 1 /\ p + 1 \in 1..n
      <4> HIDE DEF start, end
      <4> QED BY <1>1, <1>2, <1>6, <2>2, <2>6
    <3>2. p + 1 \in Breaks(text)
      BY <2>4, <3>1 DEF Breaks, IsBreak
    <3> HIDE DEF start, end
    <3> QED BY <1>2, <3>1, <3>2
  <2> QED BY <2>5, <2>6
<1>8. ASSUME text[p] \notin LineBreaks
      PROVE  p <= kept
  <2>1. CASE paired
    <3>1. text[end - 1] \in LineBreaks /\ text[end] \in LineBreaks
      <4>1. end - 1 + 1 = end
        <5> HIDE DEF end
        <5> QED BY <1>1, <1>2
      <4> HIDE DEF start, end
      <4> QED BY <2>1, <4>1 DEF IsPair, LineBreaks
    <3>2. p # end /\ p # end - 1 /\ kept = end - 2
      <4> HIDE DEF start, end
      <4> QED BY <3>1, <2>1, <1>8
    <3> HIDE DEF kept, start, end
    <3> QED BY <1>1, <1>2, <1>6, <3>2
  <2>2. CASE ~paired /\ broken
    <3>1. p # end /\ kept = end - 1
      <4> HIDE DEF start, end
      <4> QED BY <2>2, <1>8
    <3> HIDE DEF kept, start, end
    <3> QED BY <1>1, <1>2, <1>6, <3>1
  <2>3. CASE ~paired /\ ~broken
    <3>1. kept = end
      <4> HIDE DEF paired, broken
      <4> QED BY <2>3
    <3> QED BY <1>6, <3>1
  <2> QED BY <2>1, <2>2, <2>3
<1>9. start + (kept - start) = kept /\ kept - start \in Nat
  <2> HIDE DEF start, kept
  <2> QED BY <1>1, <1>2, <1>4
<1>10. text[p] \in LineBreaks => p > kept
  <2> HIDE DEF kept, start, end
  <2> QED BY <1>1, <1>2, <1>4, <1>7
<1> HIDE DEF kept
<1> QED
  BY <1>5, <1>8, <1>9, <1>10

---------------------------------------------------------------------------
(* The source file                                                          *)

LEMMA EmptyTextIsExact == LinesAreExact(<<>>)
<1> DEFINE text == <<>>
<1>1. Len(text) = 0 /\ BuildLineStarts(text) = <<>> /\ LineCount(text) = 0
  BY DEF BuildLineStarts, LineCount
<1>2. BreaksBefore(text, 0) = {}
  BY DEF BreaksBefore
<1>3. LineOf(text, 0) = 1
  BY <1>2, FS_EmptySet DEF LineOf
<1>4. StartOf(text, 0) = 0
  BY <1>2 DEF StartOf
<1>5. LocationAt(text, 0) = LocationOf(text, 0)
  BY <1>3, <1>4 DEF LocationAt, LocationOf
<1> QED
  BY <1>1, <1>5 DEF LinesAreExact

(* Of every text, the lines and columns that the source file gives are those *)
(* that counting its breaks gives, and each line has the text between two    *)
(* breaks.                                                                   *)
THEOREM SourceLinesAreExact ==
    ASSUME NEW text \in Seq(Character)
    PROVE  LinesAreExact(text)
<1>1. CASE text = <<>>
  BY <1>1, EmptyTextIsExact
<1>2. CASE text # <<>>
  <2> DEFINE starts == BuildLineStarts(text)
             count == LineCount(text)
             n == Len(text)
  <2>1. /\ n \in Nat /\ count \in Nat \ {0} /\ DOMAIN starts = 1..count
        /\ Enumerates(starts, {0} \cup Breaks(text))
    BY <1>2, LenProperties, LineStartsEnumerate
  <2>2. \A i \in 1..count : starts[i] \in 0..n
    <3>1. Breaks(text) \subseteq 1..n
      BY DEF Breaks
    <3> QED BY <2>1, <3>1 DEF Enumerates
  <2>3. \A i, j \in 1..count : i < j => starts[i] < starts[j]
    BY <2>1 DEF Enumerates
  <2>4. count = LineOf(text, n)
    <3>1. n \in 0..n
      BY <2>1
    <3>2. PICK line : IsOn(text, n, line)
      BY <1>2, <2>1, LineExists
    <3>3. LineOf(text, n) = line
      BY <1>2, <3>1, <3>2, LocationIsCounted
    <3>4. line \in 1..count /\ (starts[count] <= n <=> count <= line)
      BY <2>1, <3>2 DEF IsOn
    <3>5. starts[count] <= n
      <4>1. count \in 1..count
        BY <2>1
      <4> HIDE DEF starts, count, n
      <4> QED BY <2>1, <2>2, <4>1
    <3> HIDE DEF starts, count
    <3> QED BY <2>1, <3>3, <3>4, <3>5
  <2>5. ASSUME NEW offset \in 0..n
        PROVE  LocationAt(text, offset) = LocationOf(text, offset)
    <3>1. PICK line : IsOn(text, offset, line)
      BY <1>2, <2>1, LineExists
    <3> QED BY <1>2, <3>1, LocationIs, LocationIsCounted DEF LocationOf
  <2>6. ASSUME NEW line \in 1..count
        PROVE  LocationAt(text, LineStartOffset(text, line)).line = line
    <3>1. LineStartOffset(text, line) = starts[line] /\ starts[line] \in 0..n
      BY <2>2 DEF LineStartOffset
    <3>2. \A k \in 1..count : starts[k] <= starts[line] <=> k <= line
      <4> SUFFICES ASSUME NEW k \in 1..count
                   PROVE  starts[k] <= starts[line] <=> k <= line
        OBVIOUS
      <4>1. k < line \/ k = line \/ line < k
        BY <2>1
      <4> HIDE DEF starts, count, n
      <4>2. starts[k] \in Int /\ starts[line] \in Int /\ k \in Int /\ line \in Int
        BY <2>1, <2>2
      <4> QED BY <2>3, <4>1, <4>2
    <3>3. IsOn(text, starts[line], line)
      BY <3>1, <3>2, <2>1 DEF IsOn
    <3> QED BY <1>2, <3>1, <3>3, LocationIs
  <2>7. ASSUME NEW offset \in 0..n - 1
        PROVE  LineHolds(text, offset)
    <3>1. PICK line : IsOn(text, offset, line)
      BY <1>2, <2>1, LineExists
    <3> DEFINE start == starts[line]
               width == Len(LineText(text, line))
    <3>2. offset \in 0..n /\ n \in Nat
      BY <2>1
    <3>3. /\ LocationAt(text, offset).line = line
          /\ LocationAt(text, offset).column = offset - start + 1
      BY <1>2, <3>1, <3>2, LocationIs
    <3>4. /\ width \in Nat
          /\ text[offset + 1] \in LineBreaks => offset + 1 > start + width
          /\ text[offset + 1] \notin LineBreaks => offset + 1 <= start + width
          /\ \A i \in 1..width : LineText(text, line)[i] = text[start + i]
      BY <1>2, <3>1, LineTextIs
    <3>5. start \in 0..offset
      BY <1>2, <3>1, LineHasNoBreak
    <3>6. text[offset + 1] \in LineBreaks => offset - start + 1 > width
      <4> HIDE DEF start, width
      <4> QED BY <3>2, <3>4, <3>5
    <3>7. text[offset + 1] \notin LineBreaks =>
            /\ offset - start + 1 \in 1..width
            /\ start + (offset - start + 1) = offset + 1
      <4> HIDE DEF start, width
      <4> QED BY <3>2, <3>4, <3>5
    <3>8. text[offset + 1] \notin LineBreaks =>
            /\ offset - start + 1 <= width
            /\ LineText(text, line)[offset - start + 1] = text[offset + 1]
      <4> HIDE DEF start, width
      <4> QED BY <3>2, <3>4, <3>5, <3>7
    <3> QED BY <3>3, <3>6, <3>8 DEF LineHolds
  <2> QED BY <1>2, <2>4, <2>5, <2>6, <2>7 DEF LinesAreExact
<1> QED
  BY <1>1, <1>2

(* What a reader is told of any place in any file of a run.                  *)
THEOREM LocationsExact == Spec => []LocationsAreExact
<1>1. RInv => LocationsAreExact
  BY SourceLinesAreExact, TextIsOfCharacters DEF LocationsAreExact, RInv, TextsAreTexts
<1> QED
  BY <1>1, ReadingInvariant, PTL

---------------------------------------------------------------------------
(* Tokens                                                                   *)

(* While no line ends, the line stays the same.                              *)
LEMMA SameLine ==
    ASSUME NEW text \in Seq(Character), NEW from, NEW to, Covers(text, from, to),
           NEW offset \in from - 1..to - 2, NEW line, IsOn(text, from - 1, line)
    PROVE  /\ text # <<>> /\ offset \in 0..Len(text) - 1
           /\ text[offset + 1] \notin LineBreaks
           /\ IsOn(text, offset, line)
<1> DEFINE starts == BuildLineStarts(text)
           count == LineCount(text)
           n == Len(text)
<1>1. /\ n \in Nat /\ from \in 1..n + 1 /\ to \in from..n + 1
      /\ \A q \in from..to - 1 : text[q] \notin LineEnds
  BY LenProperties DEF Covers
<1>2. offset \in 0..n - 1 /\ offset + 1 \in from..to - 1 /\ n > 0
  BY <1>1
<1>3. text # <<>> /\ text[offset + 1] \notin LineBreaks
  BY <1>1, <1>2 DEF LineBreaks, LineEnds
<1>4. /\ count \in Nat /\ DOMAIN starts = 1..count /\ Enumerates(starts, {0} \cup Breaks(text))
      /\ starts[1] = 0
  BY <1>3, LineStartsEnumerate
<1>5. line \in 1..count /\ \A k \in 1..count : starts[k] <= from - 1 <=> k <= line
  BY DEF IsOn
<1>6. \A k \in 1..count : starts[k] \in Nat
  <2>1. Breaks(text) \subseteq 1..n
    BY DEF Breaks
  <2> QED BY <1>4, <2>1 DEF Enumerates
<1>7. ASSUME NEW k \in 1..count
      PROVE  starts[k] <= offset <=> k <= line
  <2>1. starts[k] \in Nat /\ (starts[k] <= from - 1 <=> k <= line)
    BY <1>5, <1>6
  <2>2. ~(starts[k] \in from..offset)
    <3> SUFFICES ASSUME starts[k] \in from..offset PROVE FALSE
      OBVIOUS
    <3> DEFINE start == starts[k]
    <3>1. start # 0 /\ start \in from..to - 1
      <4> HIDE DEF start
      <4>1. start \in from..offset
        BY DEF start
      <4> QED BY <1>1, <1>2, <4>1
    <3>2. start \in {0} \cup Breaks(text)
      BY <1>4 DEF Enumerates
    <3>3. start \in Breaks(text)
      BY <3>1, <3>2
    <3>4. text[start] \in LineEnds
      BY <3>3 DEF Breaks, IsBreak, LineEnds
    <3> QED BY <1>1, <3>1, <3>4
  <2> HIDE DEF starts, count, n
  <2> QED BY <1>1, <1>2, <2>1, <2>2
<1> QED
  BY <1>2, <1>3, <1>4, <1>5, <1>7 DEF IsOn

(* The places of a token's first and last character and of what follows it.  *)
LEMMA CoveredText ==
    ASSUME NEW text \in Seq(Character), NEW from, NEW to, Covers(text, from, to), to - from > 0
    PROVE  LET first == LocationAt(text, from - 1)
               after == LocationAt(text, to - 1)
               line == LineText(text, first.line)
               length == to - from
           IN  /\ LocationAt(text, to - 2).line = first.line
               /\ first.column + length - 1 <= Len(line)
               /\ \A j \in 0..length - 1 : line[first.column + j] = text[from + j]
               /\ after.line = first.line => after.column = first.column + length
<1> DEFINE n == Len(text)
           a == from - 1
           z == to - 2
<1>1. n \in Nat /\ from \in 1..n + 1 /\ to \in from..n + 1
  BY LenProperties DEF Covers
<1>2. from \in Int /\ to \in Int /\ to > from /\ 1 <= from /\ to <= n + 1
  BY <1>1
<1>3. a \in 0..n - 1 /\ z \in 0..n - 1 /\ a \in a..z /\ z \in a..z /\ n > 0
  BY <1>1, <1>2
<1>4. text # <<>>
  BY <1>3
<1>5. PICK line : IsOn(text, a, line)
  <2>1. a \in Nat
    BY <1>1, <1>3
  <2> HIDE DEF a
  <2> QED BY <1>4, <2>1, LineExists
<1> DEFINE start == BuildLineStarts(text)[line]
           width == Len(LineText(text, line))
<1>6. \A o \in a..z : IsOn(text, o, line) /\ o \in 0..n - 1 /\ text[o + 1] \notin LineBreaks
  BY <1>5, SameLine
<1>7. \A o \in 0..n : IsOn(text, o, line) =>
        LocationAt(text, o) = [line |-> line, column |-> o - start + 1, offset |-> o]
  BY <1>4, LocationIs
<1>8. /\ LocationAt(text, a).line = line /\ LocationAt(text, a).column = a - start + 1
      /\ LocationAt(text, z).line = line
  <2>1. a \in 0..n /\ z \in 0..n
    BY <1>1, <1>3
  <2> HIDE DEF a, z, start
  <2> QED BY <1>3, <1>6, <1>7, <2>1
<1>9. /\ width \in Nat /\ \A i \in 1..width : LineText(text, line)[i] = text[start + i]
      /\ z + 1 <= start + width
  <2>1. z \in 0..n - 1 /\ IsOn(text, z, line) /\ text[z + 1] \notin LineBreaks
    BY <1>3, <1>6
  <2> HIDE DEF z
  <2> QED BY <1>4, <2>1, LineTextIs
<1>10. start \in 0..a
  <2> HIDE DEF a
  <2> QED BY <1>3, <1>4, <1>5, LineHasNoBreak
<1>11. (a - start + 1) + (to - from) - 1 <= width
  <2>1. z + 1 <= start + width /\ width \in Nat
    BY <1>9
  <2> HIDE DEF start, width
  <2> QED BY <1>1, <1>2, <1>10, <2>1
<1>12. ASSUME NEW j \in 0..to - from - 1
       PROVE  LineText(text, line)[a - start + 1 + j] = text[from + j]
  <2>1. z + 1 <= start + width /\ width \in Nat
    BY <1>9
  <2>2. a - start + 1 + j \in 1..width /\ start + (a - start + 1 + j) = from + j
    <3> HIDE DEF start, width
    <3> QED BY <1>1, <1>2, <1>10, <2>1
  <2> HIDE DEF start, width, a
  <2> QED BY <1>9, <2>2
<1>13. LocationAt(text, to - 1).line = line =>
         LocationAt(text, to - 1).column = (a - start + 1) + (to - from)
  <2> DEFINE o == to - 1
  <2>1. o \in 0..n /\ o \in Nat
    BY <1>1, <1>2
  <2>2. PICK l : IsOn(text, o, l)
    <3> HIDE DEF o
    <3> QED BY <1>4, <2>1, LineExists
  <2>3. /\ LocationAt(text, o).line = l
        /\ LocationAt(text, o).column = o - BuildLineStarts(text)[l] + 1
    <3> HIDE DEF o
    <3> QED BY <1>4, <2>1, <2>2, LocationIs
  <2>4. o - start + 1 = (a - start + 1) + (to - from)
    <3> HIDE DEF start
    <3> QED BY <1>1, <1>2, <1>10
  <2> HIDE DEF a
  <2> QED BY <2>3, <2>4
<1>14. LocationAt(text, from - 1).line = line /\ LocationAt(text, from - 1).column = a - start + 1
  BY <1>8
<1>15. LocationAt(text, to - 2).line = line
  BY <1>8
<1> HIDE DEF a, start, z
<1> QED
  BY <1>11, <1>12, <1>13, <1>14, <1>15

(* The range of every token is where a reader finds it, whatever the texts   *)
(* (makeToken, scanQuotedLiteral, locationAt).                               *)
THEOREM TokensInTheirLines == Spec => []TokensLieInTheirLines
<1>1. ASSUME RInv
      PROVE  TokensLieInTheirLines
  <2> SUFFICES ASSUME NEW k \in DOMAIN tokens, tokens[k].to - tokens[k].from > 0
               PROVE
        LET token == tokens[k]
            text == files[Canonical(token.path)]
            from == LocationAt(text, token.from - 1)
            to == LocationAt(text, token.to - 1)
            line == LineText(text, from.line)
            length == token.to - token.from
        IN    /\ LocationAt(text, token.to - 2).line = from.line
              /\ from.column + length - 1 <= Len(line)
              /\ \A j \in 0..length - 1 : line[from.column + j] = text[token.from + j]
              /\ to.line = from.line => to.column = from.column + length
    BY DEF TokensLieInTheirLines
  <2> DEFINE token == tokens[k]
             text == files[Canonical(token.path)]
             f == token.from
             t == token.to
  <2>1. text \in Seq(Character) /\ Covers(text, f, t) /\ t - f > 0
    BY <1>1, TextIsOfCharacters DEF RInv, TextsAreTexts, StreamReads, LiesInFile
  <2> HIDE DEF text, f, t
  <2>2. /\ LocationAt(text, t - 2).line = LocationAt(text, f - 1).line
        /\ LocationAt(text, f - 1).column + (t - f) - 1
             <= Len(LineText(text, LocationAt(text, f - 1).line))
        /\ \A j \in 0..(t - f) - 1 :
             LineText(text, LocationAt(text, f - 1).line)[LocationAt(text, f - 1).column + j]
               = text[f + j]
        /\ LocationAt(text, t - 1).line = LocationAt(text, f - 1).line
             => LocationAt(text, t - 1).column = LocationAt(text, f - 1).column + (t - f)
    BY <2>1, CoveredText
  <2> QED BY <2>2 DEF text, f, t
<1> QED
  BY <1>1, ReadingInvariant, PTL

---------------------------------------------------------------------------
(* Line ends.  What stands at an offset of a text stands, in the text that   *)
(* has one line feed for every line end, as much earlier as there are pairs  *)
(* before it.                                                               *)

LEMMA UnixOffsetFacts ==
    ASSUME NEW text \in Seq(Character), NEW k \in Nat
    PROVE  /\ IsFiniteSet(Kept(text, k)) /\ UnixOffset(text, k) \in Nat
           /\ \A j \in 0..k : UnixOffset(text, j) <= UnixOffset(text, k)
           /\ \A j \in 0..k : k \in Kept(text, k) /\ j < k
                                => UnixOffset(text, j) < UnixOffset(text, k)
<1>1. IsFiniteSet(1..k)
  BY FS_Interval
<1>2. IsFiniteSet(Kept(text, k)) /\ Kept(text, k) \subseteq 1..k
  <2>1. Kept(text, k) \in SUBSET (1..k)
    BY DEF Kept
  <2> QED BY <1>1, <2>1, FS_Subset
<1>3. UnixOffset(text, k) \in Nat
  BY <1>2, FS_CardinalityType DEF UnixOffset
<1>4. ASSUME NEW j \in 0..k
      PROVE  /\ UnixOffset(text, j) <= UnixOffset(text, k)
             /\ k \in Kept(text, k) /\ j < k => UnixOffset(text, j) < UnixOffset(text, k)
  <2>1. Kept(text, j) \in SUBSET Kept(text, k)
    BY DEF Kept
  <2>2. /\ IsFiniteSet(Kept(text, j)) /\ UnixOffset(text, j) <= UnixOffset(text, k)
        /\ UnixOffset(text, k) = UnixOffset(text, j) => Kept(text, k) = Kept(text, j)
    BY <1>2, <2>1, FS_Subset DEF UnixOffset
  <2>3. UnixOffset(text, j) \in Nat
    BY <2>2, FS_CardinalityType DEF UnixOffset
  <2>4. j < k => k \notin Kept(text, j)
    BY DEF Kept
  <2> QED BY <1>3, <2>2, <2>3, <2>4
<1> QED
  BY <1>2, <1>3, <1>4

LEMMA UnixOffsetStep ==
    ASSUME NEW text \in Seq(Character), NEW k \in Nat \ {0}
    PROVE  UnixOffset(text, k) = IF IsPair(text, k) THEN UnixOffset(text, k - 1)
                                 ELSE UnixOffset(text, k - 1) + 1
<1>1. k - 1 \in Nat /\ k \notin Kept(text, k - 1) /\ IsFiniteSet(Kept(text, k - 1))
  <2>1. k - 1 \in Nat /\ k \notin Kept(text, k - 1)
    BY DEF Kept
  <2> QED BY <2>1, UnixOffsetFacts
<1>2. CASE IsPair(text, k)
  <2>1. Kept(text, k) = Kept(text, k - 1)
    BY <1>2 DEF Kept
  <2> QED BY <1>2, <2>1 DEF UnixOffset
<1>3. CASE ~IsPair(text, k)
  <2>1. Kept(text, k) = Kept(text, k - 1) \cup {k}
    BY <1>3 DEF Kept
  <2> QED BY <1>1, <1>3, <2>1, FS_AddElement DEF UnixOffset
<1> QED
  BY <1>2, <1>3

LEMMA NoOffsetNoCharacters ==
    ASSUME NEW text \in Seq(Character)
    PROVE  UnixOffset(text, 0) = 0 /\ Kept(text, 0) = {}
<1>1. Kept(text, 0) = {}
  BY DEF Kept
<1> QED
  BY <1>1, FS_EmptySet DEF UnixOffset

(* Where no pair stands, the two texts go on side by side.                   *)
LEMMA SideBySide ==
    ASSUME NEW text \in Seq(Character), NEW k \in Nat, NEW j \in 0..k,
           \A i \in j + 1..k : ~IsPair(text, i)
    PROVE  UnixOffset(text, k) - UnixOffset(text, j) = k - j
<1>1. Kept(text, k) = Kept(text, j) \cup (j + 1..k) /\ Kept(text, j) \cap (j + 1..k) = {}
  BY DEF Kept
<1>2. IsFiniteSet(j + 1..k) /\ Cardinality(j + 1..k) = k - j
  <2> DEFINE a == j + 1
  <2>1. a \in Int /\ k \in Int /\ (a > k => k - j = 0) /\ k - a + 1 = k - j
    OBVIOUS
  <2> HIDE DEF a
  <2>2. IsFiniteSet(a..k) /\ Cardinality(a..k) = k - j
    <3>1. IsFiniteSet(a..k) /\ Cardinality(a..k) = IF a > k THEN 0 ELSE k - a + 1
      BY <2>1, FS_Interval
    <3> QED BY <2>1, <3>1
  <2> QED BY <2>2 DEF a
<1>3. IsFiniteSet(Kept(text, j)) /\ UnixOffset(text, j) \in Nat
  BY UnixOffsetFacts
<1>4. Cardinality({}) = 0
  BY FS_EmptySet
<1>5. Cardinality(Kept(text, j) \cup (j + 1..k))
        = Cardinality(Kept(text, j)) + Cardinality(j + 1..k)
            - Cardinality(Kept(text, j) \cap (j + 1..k))
  BY <1>2, <1>3, FS_Union
<1>6. UnixOffset(text, k) = UnixOffset(text, j) + (k - j) - 0
  BY <1>1, <1>2, <1>4, <1>5 DEF UnixOffset
<1> QED
  BY <1>3, <1>6

(* Every character of the other text comes from one character of this.       *)
LEMMA UnixOffsetReaches ==
    ASSUME NEW text \in Seq(Character), NEW n \in Nat, NEW m \in 1..UnixOffset(text, n)
    PROVE  \E k \in Kept(text, n) : UnixOffset(text, k) = m
<1> DEFINE S == {k \in 0..n : UnixOffset(text, k) >= m}
<1>1. S \in SUBSET Nat /\ n \in S
  <2>1. UnixOffset(text, n) \in Nat
    BY UnixOffsetFacts
  <2> QED BY <2>1
<1>2. PICK k \in S : \A j \in S : k <= j
  <2> HIDE DEF S
  <2> QED BY <1>1, LeastExists
<1>3. k \in 1..n /\ k - 1 \in 0..n /\ k - 1 \in Nat /\ k \in Nat \ {0}
  BY <1>2, NoOffsetNoCharacters
<1>4. k - 1 \notin S
  <2> HIDE DEF S
  <2> QED BY <1>2, <1>3
<1>5. UnixOffset(text, k - 1) \in Nat /\ UnixOffset(text, k) \in Nat
  BY <1>3, UnixOffsetFacts
<1>6. UnixOffset(text, k - 1) < m /\ UnixOffset(text, k) >= m
  BY <1>2, <1>3, <1>4, <1>5
<1>7. ~IsPair(text, k) /\ UnixOffset(text, k) = UnixOffset(text, k - 1) + 1
  BY <1>3, <1>5, <1>6, UnixOffsetStep
<1>8. UnixOffset(text, k) = m
  BY <1>5, <1>6, <1>7
<1> QED
  BY <1>3, <1>7, <1>8 DEF Kept

(* Offsets are ordered there as they are here.                               *)
LEMMA UnixOrder ==
    ASSUME NEW text \in Seq(Character), NEW n \in Nat, NEW k \in Kept(text, n), NEW j \in 0..n
    PROVE  k <= j <=> UnixOffset(text, k) <= UnixOffset(text, j)
<1>1. k \in 1..n /\ k \in Nat /\ j \in Nat /\ k \in Kept(text, k)
  BY DEF Kept
<1>2. UnixOffset(text, k) \in Nat /\ UnixOffset(text, j) \in Nat
  BY <1>1, UnixOffsetFacts
<1>3. ASSUME k <= j PROVE UnixOffset(text, k) <= UnixOffset(text, j)
  <2>1. k \in 0..j
    BY <1>1, <1>3
  <2> QED BY <1>1, <2>1, UnixOffsetFacts
<1>4. ASSUME j < k PROVE UnixOffset(text, j) < UnixOffset(text, k)
  <2>1. j \in 0..k
    BY <1>1, <1>4
  <2> QED BY <1>1, <1>4, <2>1, UnixOffsetFacts
<1> QED
  BY <1>1, <1>2, <1>3, <1>4

LEMMA UnixTextIs ==
    ASSUME NEW text \in Seq(Character)
    PROVE  /\ UnixText(text) \in Seq(Character)
           /\ Len(UnixText(text)) = UnixOffset(text, Len(text))
           /\ \A k \in Kept(text, Len(text)) :
                /\ UnixOffset(text, k) \in 1..UnixOffset(text, Len(text))
                /\ UnixText(text)[UnixOffset(text, k)] = IF text[k] = "\r" THEN "\n" ELSE text[k]
<1> DEFINE n == Len(text)
           m == UnixOffset(text, n)
           From(i) == CHOOSE k \in Kept(text, n) : UnixOffset(text, k) = i
           Char(i) == IF text[From(i)] = "\r" THEN "\n" ELSE text[From(i)]
<1>1. n \in Nat /\ m \in Nat
  <2>1. n \in Nat
    BY LenProperties
  <2> QED BY <2>1, UnixOffsetFacts
<1>2. \A i \in 1..m : From(i) \in Kept(text, n) /\ UnixOffset(text, From(i)) = i
  BY <1>1, UnixOffsetReaches
<1>3. ASSUME NEW k \in Kept(text, n)
      PROVE  k \in 1..n /\ UnixOffset(text, k) \in 1..m /\ From(UnixOffset(text, k)) = k
  <2>1. k \in 1..n /\ k \in Nat \ {0}
    BY <1>1 DEF Kept
  <2>2. UnixOffset(text, k) <= m
    <3>1. n \in 0..n /\ k <= n
      BY <1>1, <2>1
    <3> QED BY <1>1, <3>1, UnixOrder
  <2>3. UnixOffset(text, k) \in Nat /\ UnixOffset(text, k) >= 1
    <3>1. k - 1 \in Nat /\ ~IsPair(text, k)
      BY <2>1 DEF Kept
    <3>2. UnixOffset(text, k - 1) \in Nat
      BY <3>1, UnixOffsetFacts
    <3> QED BY <2>1, <3>1, <3>2, UnixOffsetStep
  <2>4. UnixOffset(text, k) \in 1..m
    BY <1>1, <2>2, <2>3
  <2> DEFINE j == From(UnixOffset(text, k))
  <2>5. j \in Kept(text, n) /\ UnixOffset(text, j) = UnixOffset(text, k)
    BY <1>2, <2>4
  <2>6. j \in 0..n /\ k \in 0..n /\ j \in Int /\ k \in Int
    BY <2>1, <2>5 DEF Kept
  <2> HIDE DEF j
  <2>7. j <= k /\ k <= j
    BY <1>1, <2>3, <2>5, <2>6, UnixOrder
  <2>8. j = k
    BY <2>6, <2>7
  <2> QED BY <2>1, <2>4, <2>8 DEF j
<1>4. \A i \in 1..m : Char(i) \in Character
  <2> SUFFICES ASSUME NEW i \in 1..m PROVE Char(i) \in Character
    OBVIOUS
  <2> DEFINE k == From(i)
  <2>1. k \in 1..n
    BY <1>2, <1>3
  <2> HIDE DEF k
  <2>2. text[k] \in Character
    BY <2>1, ElementOfSeq
  <2> HIDE DEF From
  <2>3. Char(i) = IF text[k] = "\r" THEN "\n" ELSE text[k]
    BY DEF k
  <2> HIDE DEF Char
  <2> QED BY <2>2, <2>3 DEF Character
<1>5. UnixText(text) = [i \in 1..m |-> Char(i)]
  BY DEF UnixText
<1> HIDE DEF m, Char
<1>6. UnixText(text) \in Seq(Character) /\ Len(UnixText(text)) = m
  BY <1>1, <1>4, <1>5
<1>7. ASSUME NEW k \in Kept(text, n)
      PROVE  UnixText(text)[UnixOffset(text, k)] = IF text[k] = "\r" THEN "\n" ELSE text[k]
  <2>1. UnixText(text)[UnixOffset(text, k)] = Char(UnixOffset(text, k))
    BY <1>3, <1>5
  <2> HIDE DEF From
  <2> QED BY <1>3, <2>1 DEF Char
<1> QED
  BY <1>3, <1>6, <1>7 DEF m

(* A line ends there exactly where one ends here.                            *)
LEMMA UnixBreaks ==
    ASSUME NEW text \in Seq(Character)
    PROVE  /\ Breaks(text) \subseteq Kept(text, Len(text))
           /\ \A k \in Kept(text, Len(text)) :
                UnixOffset(text, k) \in Breaks(UnixText(text)) <=> k \in Breaks(text)
           /\ \A b \in Breaks(UnixText(text)) :
                \E k \in Breaks(text) : UnixOffset(text, k) = b
<1> DEFINE n == Len(text)
           unix == UnixText(text)
           m == UnixOffset(text, n)
<1>1. n \in Nat /\ m \in Nat /\ unix \in Seq(Character) /\ Len(unix) = m
  <2>1. n \in Nat
    BY LenProperties
  <2> QED BY <2>1, UnixOffsetFacts, UnixTextIs
<1>2. Breaks(text) \subseteq Kept(text, n)
  BY <1>1 DEF Breaks, IsBreak, IsPair, Kept
<1>3. ASSUME NEW k \in Kept(text, n)
      PROVE  UnixOffset(text, k) \in Breaks(unix) <=> k \in Breaks(text)
  <2> DEFINE at == UnixOffset(text, k)
  <2>1. k \in 1..n /\ ~IsPair(text, k)
    BY DEF Kept
  <2>2. at \in 1..m /\ unix[at] = IF text[k] = "\r" THEN "\n" ELSE text[k]
    BY UnixTextIs
  <2>3. k < n <=> at < m
    <3>1. n \in Kept(text, n)
      BY <1>1, <2>1 DEF Kept, IsPair
    <3>2. k \in 0..n
      BY <2>1
    <3>3. n <= k <=> m <= at
      BY <1>1, <3>1, <3>2, UnixOrder
    <3> HIDE DEF at, m, n
    <3> QED BY <1>1, <2>1, <2>2, <3>3
  <2>4. k \in Breaks(text) <=> k < n /\ text[k] \in LineBreaks
    BY <2>1 DEF Breaks, IsBreak, LineBreaks
  <2>5. at \in Breaks(unix) <=> at < m /\ unix[at] = "\n"
    <3>1. unix[at] # "\r"
      BY <2>2
    <3> HIDE DEF at, m, unix
    <3> QED BY <1>1, <2>2, <3>1 DEF Breaks, IsBreak
  <2>6. unix[at] = "\n" <=> text[k] \in LineBreaks
    BY <2>2 DEF LineBreaks
  <2> QED BY <2>3, <2>4, <2>5, <2>6
<1>4. ASSUME NEW b \in Breaks(unix)
      PROVE  \E k \in Breaks(text) : UnixOffset(text, k) = b
  <2>1. b \in 1..m
    BY <1>1 DEF Breaks
  <2>2. PICK k \in Kept(text, n) : UnixOffset(text, k) = b
    BY <1>1, <2>1, UnixOffsetReaches
  <2> QED BY <1>3, <2>2
<1> QED
  BY <1>2, <1>3, <1>4

(* Counted or looked up, the breaks before an offset are the same ones.      *)
LEMMA UnixBreaksBefore ==
    ASSUME NEW text \in Seq(Character), NEW offset \in 0..Len(text)
    PROVE  /\ UnixOffset(text, offset) \in 0..Len(UnixText(text))
           /\ LineOf(UnixText(text), UnixOffset(text, offset)) = LineOf(text, offset)
           /\ \A k \in BreaksBefore(text, offset) :
                UnixOffset(text, k) \in BreaksBefore(UnixText(text), UnixOffset(text, offset))
           /\ \A b \in BreaksBefore(UnixText(text), UnixOffset(text, offset)) :
                \E k \in BreaksBefore(text, offset) : UnixOffset(text, k) = b
<1> DEFINE n == Len(text)
           unix == UnixText(text)
           there == UnixOffset(text, offset)
           Here == BreaksBefore(text, offset)
           There == BreaksBefore(unix, there)
           f == [k \in Here |-> UnixOffset(text, k)]
<1>1. /\ n \in Nat /\ offset \in Nat /\ there \in Nat
      /\ unix \in Seq(Character) /\ Len(unix) = UnixOffset(text, n) /\ Len(unix) \in Nat
  <2>1. n \in Nat /\ offset \in Nat
    BY LenProperties
  <2> QED BY <2>1, UnixOffsetFacts, UnixTextIs
<1>2. there \in 0..Len(unix)
  <2>1. there <= UnixOffset(text, n)
    BY <1>1, UnixOffsetFacts
  <2> QED BY <1>1, <2>1
<1>3. Here = {k \in Breaks(text) : k <= offset} /\ There = {b \in Breaks(unix) : b <= there}
  <2>1. Here = {k \in Breaks(text) : k <= offset}
    BY <1>1 DEF BreaksBefore, Breaks
  <2> HIDE DEF unix, there
  <2>2. There = {b \in Breaks(unix) : b <= there}
    BY <1>1, <1>2 DEF BreaksBefore, Breaks
  <2> QED BY <2>1, <2>2
<1>4. \A k \in Breaks(text) : k \in Kept(text, n) /\ (k <= offset <=> UnixOffset(text, k) <= there)
  BY <1>1, UnixBreaks, UnixOrder
<1>5. \A k \in Here : UnixOffset(text, k) \in There
  BY <1>3, <1>4, UnixBreaks
<1>6. \A b \in There : \E k \in Here : UnixOffset(text, k) = b
  BY <1>3, <1>4, UnixBreaks
<1>7. Cardinality(There) = Cardinality(Here)
  <2>1. \A j, k \in Here : f[j] = f[k] => j = k
    <3> SUFFICES ASSUME NEW j \in Here, NEW k \in Here, f[j] = f[k] PROVE j = k
      OBVIOUS
    <3>1. /\ j \in Kept(text, n) /\ k \in Kept(text, n)
          /\ UnixOffset(text, j) = UnixOffset(text, k)
      BY <1>3, <1>4
    <3>2. j \in 0..n /\ k \in 0..n /\ j \in Nat /\ k \in Nat
      BY <3>1 DEF Kept
    <3>3. UnixOffset(text, j) \in Nat
      BY <3>2, UnixOffsetFacts
    <3>4. j <= k /\ k <= j
      BY <1>1, <3>1, <3>2, <3>3, UnixOrder
    <3> QED BY <3>2, <3>4
  <2>2. f \in [Here -> There]
    BY <1>5
  <2>3. \A b \in There : \E k \in Here : f[k] = b
    BY <1>6
  <2>4. IsFiniteSet(Here)
    <3>1. Here \in SUBSET (1..offset) /\ IsFiniteSet(1..offset)
      BY <1>1, FS_Interval DEF BreaksBefore
    <3> QED BY <3>1, FS_Subset
  <2> HIDE DEF f, Here, There
  <2>5. f \in Bijection(Here, There)
    BY <2>1, <2>2, <2>3 DEF Bijection, Injection, Surjection, IsInjective
  <2>6. ExistsBijection(Here, There)
    BY <2>5 DEF ExistsBijection
  <2> QED BY <2>4, <2>6, FS_Bijection
<1>8. LineOf(unix, there) = LineOf(text, offset)
  BY <1>7 DEF LineOf
<1> QED
  BY <1>2, <1>5, <1>6, <1>8

LEMMA StartIs ==
    ASSUME NEW text, NEW offset \in Nat, NEW s \in BreaksBefore(text, offset) \cup {0},
           \A k \in BreaksBefore(text, offset) : k <= s
    PROVE  StartOf(text, offset) = s
<1> DEFINE before == BreaksBefore(text, offset)
           Last(t) == t \in before \cup {0} /\ \A k \in before : k <= t
<1>1. before \subseteq 1..offset
  BY DEF BreaksBefore
<1>2. \A t \in before \cup {0} : (\A k \in before : k <= t) => t = s
  BY <1>1
<1> HIDE DEF before
<1> QED
  BY <1>2 DEF StartOf, before

LEMMA StartExists ==
    ASSUME NEW text, NEW offset \in Nat
    PROVE  /\ StartOf(text, offset) \in BreaksBefore(text, offset) \cup {0}
           /\ \A k \in BreaksBefore(text, offset) : k <= StartOf(text, offset)
<1> DEFINE S == BreaksBefore(text, offset) \cup {0}
<1>1. S \in SUBSET Int /\ S # {} /\ \A k \in S : k <= offset
  BY DEF BreaksBefore
<1>2. PICK s \in S : \A k \in S : k <= s
  <2> HIDE DEF S
  <2> QED BY <1>1, GreatestExists
<1>3. StartOf(text, offset) = s
  BY <1>2, StartIs
<1> QED
  BY <1>2, <1>3

(* No pair stands between the start of a line and a visible character of it. *)
LEMMA UnixStart ==
    ASSUME NEW text \in Seq(Character), NEW offset \in Visible(text)
    PROVE  UnixOffset(text, offset) - StartOf(UnixText(text), UnixOffset(text, offset))
             = offset - StartOf(text, offset)
<1> DEFINE n == Len(text)
           start == StartOf(text, offset)
           unix == UnixText(text)
           there == UnixOffset(text, offset)
<1>1. /\ n \in Nat /\ offset \in 0..n - 1 /\ offset \in 0..n /\ offset \in Nat
      /\ text[offset + 1] \notin LineBreaks
  BY LenProperties DEF Visible
<1>2. /\ start \in BreaksBefore(text, offset) \cup {0} /\ start \in 0..offset /\ start \in Nat
      /\ \A k \in BreaksBefore(text, offset) : k <= start
  <2>1. /\ start \in BreaksBefore(text, offset) \cup {0}
        /\ \A k \in BreaksBefore(text, offset) : k <= start
    BY <1>1, StartExists
  <2>2. start \in 0..offset
    BY <1>1, <2>1 DEF BreaksBefore
  <2> QED BY <1>1, <2>1, <2>2
<1>3. ASSUME NEW i \in start + 1..offset
      PROVE  ~IsPair(text, i)
  <2> SUFFICES ASSUME IsPair(text, i) PROVE FALSE
    OBVIOUS
  <2>1. i \in 1..offset /\ i + 1 <= n /\ text[i + 1] = "\n"
    BY <1>1, <1>2 DEF IsPair
  <2>2. i # offset
    BY <1>1, <2>1 DEF LineBreaks
  <2>3. i + 1 \in BreaksBefore(text, offset)
    BY <1>1, <2>1, <2>2 DEF BreaksBefore, IsBreak
  <2> QED BY <1>2, <2>3
<1>4. there - UnixOffset(text, start) = offset - start
  BY <1>1, <1>2, <1>3, SideBySide
<1>5. /\ \A k \in BreaksBefore(text, offset) : UnixOffset(text, k) \in BreaksBefore(unix, there)
      /\ \A b \in BreaksBefore(unix, there) :
           \E k \in BreaksBefore(text, offset) : UnixOffset(text, k) = b
      /\ there \in Nat
  BY <1>1, UnixBreaksBefore, UnixOffsetFacts
<1>6. UnixOffset(text, start) \in BreaksBefore(unix, there) \cup {0}
  BY <1>2, <1>5, NoOffsetNoCharacters
<1>7. ASSUME NEW b \in BreaksBefore(unix, there)
      PROVE  b <= UnixOffset(text, start)
  <2>1. PICK k \in BreaksBefore(text, offset) : UnixOffset(text, k) = b
    BY <1>5
  <2>2. k \in 0..start
    BY <1>2, <2>1 DEF BreaksBefore
  <2> QED BY <1>2, <2>1, <2>2, UnixOffsetFacts
<1>8. StartOf(unix, there) = UnixOffset(text, start)
  BY <1>5, <1>6, <1>7, StartIs
<1> QED
  BY <1>4, <1>8

(* For a text of any length, the kind of line end decides no line and no     *)
(* column (buildLineStarts, locationAt).                                     *)
THEOREM LineEndsAreEquivalent ==
    ASSUME NEW text \in Seq(Character)
    PROVE  LineEndsDoNotMatter(text)
<1> DEFINE n == Len(text)
           unix == UnixText(text)
           there(o) == UnixOffset(text, o)
<1>1. n \in Nat /\ unix \in Seq(Character) /\ Len(unix) = there(n)
  BY LenProperties, UnixTextIs
<1>2. LinesAreExact(text) /\ LinesAreExact(unix)
  <2> HIDE DEF unix
  <2> QED BY <1>1, SourceLinesAreExact
<1>3. LineCount(unix) = LineCount(text)
  <2>1. n \in 0..n
    BY <1>1
  <2>2. LineOf(unix, there(n)) = LineOf(text, n)
    BY <2>1, UnixBreaksBefore
  <2>3. unix = <<>> <=> text = <<>>
    <3>1. text = <<>> => n = 0 /\ there(n) = 0
      BY NoOffsetNoCharacters
    <3>2. text # <<>> => n \in Kept(text, n)
      BY <1>1, EmptySeq DEF Kept, IsPair
    <3>3. text # <<>> => Len(unix) # 0
      BY <3>2, <1>1, UnixTextIs
    <3> HIDE DEF unix
    <3> QED BY <1>1, <3>1, <3>3, EmptySeq
  <2> HIDE DEF unix
  <2> QED BY <1>1, <1>2, <2>2, <2>3 DEF LinesAreExact
<1>4. ASSUME NEW o \in Visible(text)
      PROVE  /\ LocationAt(unix, there(o)).line = LocationAt(text, o).line
             /\ LocationAt(unix, there(o)).column = LocationAt(text, o).column
  <2>1. o \in 0..n
    BY <1>1 DEF Visible
  <2>2. there(o) \in 0..Len(unix) /\ LineOf(unix, there(o)) = LineOf(text, o)
    BY <2>1, UnixBreaksBefore
  <2>3. there(o) - StartOf(unix, there(o)) = o - StartOf(text, o)
    BY UnixStart
  <2>4. LocationAt(text, o) = LocationOf(text, o)
    BY <1>2, <2>1 DEF LinesAreExact
  <2> HIDE DEF unix, there
  <2>5. LocationAt(unix, there(o)) = LocationOf(unix, there(o))
    BY <1>2, <2>2 DEF LinesAreExact
  <2> QED BY <2>2, <2>3, <2>4, <2>5 DEF LocationOf
<1> QED
  BY <1>3, <1>4 DEF LineEndsDoNotMatter

(* Whatever a run of the scanner reads, a reader is told the same places.    *)
THEOREM LineEndsAgreeAlways == Spec => []LineEndsAgree
<1>1. RInv => LineEndsAgree
  BY LineEndsAreEquivalent, TextIsOfCharacters DEF LineEndsAgree, RInv, TextsAreTexts
<1> QED
  BY <1>1, ReadingInvariant, PTL
===============================================================================
