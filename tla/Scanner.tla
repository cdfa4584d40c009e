------------------------------- MODULE Scanner -------------------------------
(***************************************************************************)
(* scan (src/pascal/scanner/Scanner.cpp): one compilation unit, its        *)
(* include files spliced in, turned into a stream of tokens.               *)
(*                                                                         *)
(* The scanner reads the file on top of a stack of open files.  An include *)
(* directive pushes a file, its end pops it, and reading goes on after the *)
(* directive.  Four things have to stay in step over this: the stack, the  *)
(* set of open paths that detects cycles, the position in each file, and   *)
(* the path the diagnostics are reported under.                            *)
(*                                                                         *)
(* Texts are sequences of characters; a few letters and digits stand for   *)
(* all of them, and a few keywords for the table.  Positions count from 1. *)
(***************************************************************************)
EXTENDS Integers, Sequences, Sequencing

CONSTANTS Paths,            \* canonical paths
          FileSystems,      \* each maps the readable paths to their texts
          Root,             \* the path given on the command line
          Canonical(_),     \* canonicalPathKey: the canonical path of a path
          Resolve(_, _),    \* resolveIncludePath: of an includer and a name,
          NoPath,           \*   a canonical path, or this
          MaxIncludeDepth   \* kMaxIncludeDepth

ASSUME ScannerAssumption ==
    /\ MaxIncludeDepth \in Nat
    /\ NoPath \notin Paths
    /\ Canonical(Root) \in Paths
    /\ \A fs \in FileSystems :
         /\ DOMAIN fs \subseteq Paths
         /\ Canonical(Root) \in DOMAIN fs
         /\ \A path \in DOMAIN fs : fs[path] \in Seq(STRING)
    /\ \A path \in Paths : Canonical(path) = path

VARIABLES files,       \* the files on disk
          stack,       \* stack_: the open files
          pos,         \* pos_: where the file on top is read
          active,      \* activeCanonicalPaths_
          activePath,  \* DiagnosticEngine::activePath_
          tokens,      \* the stream
          diags,       \* the diagnostics
          done

vars == <<files, stack, pos, active, activePath, tokens, diags, done>>

---------------------------------------------------------------------------
(* Characters                                                              *)

LowerCase == <<"d", "e", "f", "i", "o">>
UpperCase == <<"D", "E", "F", "I", "O">>
Letters == {LowerCase[k] : k \in 1..5} \cup {UpperCase[k] : k \in 1..5}
IdentStart == Letters \cup {"_"}
Digits == {"0", "1"}
IdentContinue == IdentStart \cup Digits
Whitespace == {" ", "\r", "\n"}
Quotes == {"'", "\""}

ToLower(ch) == IF \E k \in 1..5 : ch = UpperCase[k]
                 THEN LowerCase[CHOOSE k \in 1..5 : ch = UpperCase[k]]
                 ELSE ch

Keywords == {<<"d", "o">>, <<"i", "f">>, <<"o", "f">>}
LookupKeyword(lexeme) ==
    IF [k \in DOMAIN lexeme |-> ToLower(lexeme[k])] \in Keywords THEN "Keyword" ELSE "Identifier"

Trim(text) ==
    Then(text, LAMBDA s :
    Then({k \in DOMAIN s : s[k] \notin Whitespace}, LAMBDA kept :
        IF kept = {} THEN <<>>
        ELSE SubSeq(s, CHOOSE k \in kept : \A j \in kept : k <= j,
                       CHOOSE k \in kept : \A j \in kept : j <= k)))

---------------------------------------------------------------------------
(* The file on top                                                         *)

Top == stack[Len(stack)]
Text == files[Top.key]
End == Len(Text) + 1
AtEnd == pos >= End
CharAt(p) == IF p \in DOMAIN Text THEN Text[p] ELSE ""
Lexeme(from, to) == SubSeq(Text, from, to - 1)

(* The first of some positions in the text, End if there is none.           *)
First(stops) == CHOOSE q \in stops \cup {End} : \A r \in stops : q <= r
SkipWhile(p, chars) == First({q \in p..Len(Text) : CharAt(q) \notin chars})

Diagnostic(severity, what, offset) ==
    [severity |-> severity, what |-> what, path |-> activePath, offset |-> offset]
Report(severity, what, offset) ==
    diags' = Append(diags, Diagnostic(severity, what, offset))

---------------------------------------------------------------------------
(* Tokens: each scan gives the kind of the token at p, the position after   *)
(* it, and what is wrong with it, if something is.                          *)

Scanned(kind, to) == [kind |-> kind, to |-> to, error |-> "", offset |-> to]
Malformed(kind, to, error, offset) ==
    [kind |-> kind, to |-> to, error |-> error, offset |-> offset]

ScanIdentifierOrKeyword(p) ==
    LET to == SkipWhile(p + 1, IdentContinue) IN Scanned(LookupKeyword(Lexeme(p, to)), to)

(* Mutant of ScanNumber: a point is taken without a look at what follows.   *)
ScanNumberWithPoint(p) ==
    LET whole == SkipWhile(p, Digits)
    IN  IF CharAt(whole) # "." THEN Scanned("Integer", whole)
        ELSE Scanned("Real", SkipWhile(whole + 1, Digits))

(* A point belongs to the number only when a digit follows, so that 1..2 is *)
(* a range; a letter e always does.                                         *)
ScanNumber(p) ==
    LET whole == SkipWhile(p, Digits)
        hasPoint == CharAt(whole) = "." /\ CharAt(whole + 1) \in Digits
        mark == IF hasPoint THEN SkipWhile(whole + 1, Digits) ELSE whole
        hasExponent == ToLower(CharAt(mark)) = "e"
        sign == IF CharAt(mark + 1) \in {"+", "-"} THEN mark + 2 ELSE mark + 1
    IN  IF ~hasExponent THEN Scanned(IF hasPoint THEN "Real" ELSE "Integer", mark)
        ELSE IF CharAt(sign) \in Digits THEN Scanned("Real", SkipWhile(sign, Digits))
        ELSE Malformed("Real", sign, "malformed real exponent", mark)

(* Mutant of LineEnds: the line ends of old Macintosh files are forgotten.   *)
LineFeedOnly == {"\n"}
LineEnds == {"\r", "\n"}

(* after[q] is where a literal whose characters go on at q ends, and how    *)
(* many of them are left; a pair of quotes is one character.                *)
Opened(q) == [to |-> q, size |-> 0, closed |-> FALSE]
Closed(q) == [to |-> q, size |-> 0, closed |-> TRUE]
LiteralAfter(p) ==
    LET after[q \in p + 1..End] ==
            IF q >= End \/ CharAt(q) \in LineEnds THEN Opened(q)
            ELSE IF CharAt(q) # "'" THEN [after[q + 1] EXCEPT !.size = @ + 1]
            ELSE IF CharAt(q + 1) = "'" THEN [after[q + 2] EXCEPT !.size = @ + 1]
            ELSE Closed(q + 1)
    IN  after
ScanQuotedLiteral(p) ==
    LET literal == LiteralAfter(p)[p + 1]
    IN  IF literal.closed
          THEN Scanned(IF literal.size = 1 THEN "Char" ELSE "String", literal.to)
          ELSE Malformed("String", literal.to, "unclosed string or character literal", p)

TwoCharacterOperators == {<<":", "=">>, <<"<", ">">>, <<"<", "=">>, <<">", "=">>, <<".", ".">>}
Operators == {"+", "-", "*", "/", "=", "[", "]", ",", ";", "^", "@", "(", ")",
              ":", "<", ">", "."}
ScanOperatorOrPunct(p) ==
    Scanned("Operator",
            IF <<CharAt(p), CharAt(p + 1)>> \in TwoCharacterOperators THEN p + 2 ELSE p + 1)

ScanToken(p) ==
    IF CharAt(p) \in IdentStart THEN ScanIdentifierOrKeyword(p)
    ELSE IF CharAt(p) \in Digits THEN ScanNumber(p)
    ELSE IF CharAt(p) = "'" THEN ScanQuotedLiteral(p)
    ELSE ScanOperatorOrPunct(p)

Token(kind, from, to) == [kind |-> kind, path |-> Top.path, from |-> from, to |-> to]
---------------------------------------------------------------------------
Init ==
    /\ files \in FileSystems
    /\ stack = <<[path |-> Root, key |-> Canonical(Root), pos |-> 1]>>
    /\ pos = 1
    /\ active = {Canonical(Root)}
    /\ activePath = Root
    /\ tokens = <<>> /\ diags = <<>>
    /\ done = FALSE

Scanning == ~done /\ ~AtEnd
At(first, second) == CharAt(pos) = first /\ CharAt(pos + 1) = second
InSameFile == UNCHANGED <<files, stack, active, activePath, done>>

(* Mutant of SkipBlanks: a newline is blank, but is not skipped.            *)
SkipBlanksOfLine ==
    /\ Scanning /\ CharAt(pos) \in Whitespace
    /\ pos' = SkipWhile(pos, Whitespace \ {"\n"})
    /\ UNCHANGED <<tokens, diags>> /\ InSameFile

SkipBlanks ==
    /\ Scanning /\ CharAt(pos) \in Whitespace
    /\ pos' = SkipWhile(pos, Whitespace)
    /\ UNCHANGED <<tokens, diags>> /\ InSameFile

(* Comments end at the first closer, or at the end of the file they are in. *)
SkipComment(closer, length) ==
    IF closer < End
      THEN pos' = closer + length /\ UNCHANGED diags
      ELSE pos' = End /\ Report("error", "unclosed block comment", pos)

SkipBraceComment ==
    /\ Scanning /\ CharAt(pos) = "{" /\ ~At("{", "$")
    /\ SkipComment(First({q \in pos + 1..Len(Text) : CharAt(q) = "}"}), 1)
    /\ UNCHANGED tokens /\ InSameFile

SkipParenStarComment ==
    /\ Scanning /\ At("(", "*")
    /\ SkipComment(First({q \in pos + 2..Len(Text) : CharAt(q) = "*" /\ CharAt(q + 1) = ")"}), 2)
    /\ UNCHANGED tokens /\ InSameFile

---------------------------------------------------------------------------
(* Directives                                                              *)

DirectiveEnd == First({q \in pos + 2..Len(Text) : CharAt(q) = "}"})
Body == Trim(Lexeme(pos + 2, DirectiveEnd))
IsInclude == Body # <<>> /\ ToLower(Head(Body)) = "i"

FileName ==
    Then(Trim(Tail(Body)), LAMBDA name :
        IF name # <<>> /\ Head(name) \in Quotes /\ name[Len(name)] = Head(name)
          THEN Trim(SubSeq(name, 2, Len(name) - 1))
          ELSE name)

Included == Resolve(Top.path, FileName)

(* The root is frame 0.                                                     *)
TooDeepByFrames == Len(stack) > MaxIncludeDepth + 1    \* Mutant of TooDeep: off by one
TooDeep == Len(stack) > MaxIncludeDepth

NeverUnreadable == FALSE              \* Mutant of Unreadable: loaded.file is not looked at
Unreadable == Included \notin DOMAIN files

(* What is wrong with the directive at pos, in the order the code looks.    *)
DirectiveError ==
    IF DirectiveEnd = End THEN "unclosed compiler directive"
    ELSE IF ~IsInclude THEN "unknown compiler directive"
    ELSE IF Len(Body) > 1 /\ Body[2] \in {"+", "-"} THEN "unsupported form"
    ELSE IF FileName = <<>> THEN "requires a file name"
    ELSE IF TooDeep THEN "include nesting depth"
    ELSE IF Included = NoPath THEN "cannot resolve include path"
    ELSE IF Included \in active THEN "cyclic include"
    ELSE IF Unreadable THEN "cannot open file"
    ELSE ""

RejectDirective ==
    /\ Scanning /\ At("{", "$")
    /\ DirectiveError # ""
    /\ Report(IF DirectiveError = "unknown compiler directive" THEN "warning" ELSE "error",
              DirectiveError, pos)
    /\ pos' = IF DirectiveEnd = End THEN End ELSE DirectiveEnd + 1
    /\ UNCHANGED tokens /\ InSameFile

Unsaved == stack                                       \* Mutant of SavedTopPos: forgotten
SavedTopPos == [stack EXCEPT ![Len(stack)].pos = DirectiveEnd + 1]

(* handleInclude: saveTopPos, then pushFrame.                               *)
Include ==
    /\ Scanning /\ At("{", "$")
    /\ DirectiveError = ""
    /\ stack' = Append(SavedTopPos, [path |-> Included, key |-> Canonical(Included), pos |-> 1])
    /\ pos' = 1
    /\ active' = active \cup {Canonical(Included)}
    /\ activePath' = Included
    /\ UNCHANGED <<files, tokens, diags, done>>

---------------------------------------------------------------------------
StartsToken ==
    /\ CharAt(pos) \in IdentStart \cup Digits \cup {"'"} \cup Operators
    /\ ~At("(", "*")

NextToken ==
    /\ Scanning /\ StartsToken
    /\ LET scanned == ScanToken(pos)
       IN  /\ tokens' = Append(tokens, Token(scanned.kind, pos, scanned.to))
           /\ pos' = scanned.to
           /\ IF scanned.error = "" THEN UNCHANGED diags
              ELSE Report("error", scanned.error, scanned.offset)
    /\ InSameFile

UnexpectedCharacter ==
    /\ Scanning
    /\ ~StartsToken /\ CharAt(pos) \notin Whitespace \cup {"{", "("}
    /\ pos' = pos + 1
    /\ Report("error", "unexpected character", pos)
    /\ UNCHANGED tokens /\ InSameFile

---------------------------------------------------------------------------
(* popFrame: back to the includer, after its directive.                     *)
Includer == stack[Len(stack) - 1]
ActiveForEver == active                                \* Mutant of StillActive: nothing erased
StillActive == active \ {Top.key}

(* Mutant of PopFrame: diagnostics keep the path of the file just closed.   *)
PopFrameKeepingPath ==
    /\ ~done /\ AtEnd /\ Len(stack) > 1
    /\ active' = StillActive
    /\ stack' = SubSeq(stack, 1, Len(stack) - 1)
    /\ pos' = Includer.pos
    /\ UNCHANGED <<activePath, files, tokens, diags, done>>

PopFrame ==
    /\ ~done /\ AtEnd /\ Len(stack) > 1
    /\ active' = StillActive
    /\ stack' = SubSeq(stack, 1, Len(stack) - 1)
    /\ pos' = Includer.pos
    /\ activePath' = Includer.path
    /\ UNCHANGED <<files, tokens, diags, done>>

EndOfFile ==
    /\ ~done /\ AtEnd /\ Len(stack) = 1
    /\ tokens' = Append(tokens, Token("EndOfFile", pos, pos))
    /\ activePath' = Root
    /\ done' = TRUE
    /\ UNCHANGED <<files, stack, pos, active, diags>>

Next ==
    \/ SkipBlanks \/ SkipBraceComment \/ SkipParenStarComment
    \/ RejectDirective \/ Include
    \/ NextToken \/ UnexpectedCharacter
    \/ PopFrame \/ EndOfFile

Spec == Init /\ [][Next]_vars
FairSpec == Spec /\ WF_vars(Next)

---------------------------------------------------------------------------
TypeOK ==
    /\ DOMAIN files \subseteq Paths
    /\ \A path \in DOMAIN files : files[path] \in Seq(STRING)
    /\ stack \in Seq([path : Paths \cup {Root}, key : DOMAIN files, pos : Nat \ {0}])
    /\ pos \in Nat \ {0}
    /\ active \subseteq Paths
    /\ activePath \in Paths \cup {Root}
    /\ tokens \in Seq([kind : {"Identifier", "Keyword", "Integer", "Real", "Char", "String",
                               "Operator", "EndOfFile"},
                       path : Paths \cup {Root}, from : Nat \ {0}, to : Nat \ {0}])
    /\ done \in BOOLEAN

(* The paths that cycle detection looks at are those of the open files, each *)
(* open once, through every push and pop (pushFrame, popFrame): a path left *)
(* in the set would refuse a second include of a file that is long closed, *)
(* a path taken out too early would let a cycle through.                    *)
ActiveAreOpen ==
    /\ active = {stack[k].key : k \in DOMAIN stack}
    /\ \A j, k \in DOMAIN stack : stack[j].key = stack[k].key => j = k

(* No more than MaxIncludeDepth includes are open above the root.           *)
DepthBounded == Len(stack) \in 1..MaxIncludeDepth + 1

(* A file that waits for an include goes on right after its directive.      *)
ResumesAfterDirective ==
    \A k \in 1..Len(stack) - 1 :
        LET text == files[stack[k].key]
        IN  stack[k].pos - 1 \in DOMAIN text /\ text[stack[k].pos - 1] = "}"

(* A diagnostic names the file that is being read, after an include has been *)
(* entered and after it has been left (setActivePath).                      *)
Attributed == activePath = Top.path

(* The scanner comes to the end of every input, malformed or cyclic.        *)
Terminates == <>done
=============================================================================
