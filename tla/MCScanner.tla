------------------------------ MODULE MCScanner ------------------------------
(* Scanner on two families of inputs: every short text over an alphabet that *)
(* can begin, break and leave open every lexical form; and small sets of     *)
(* files that include each other.  A reference says what the tokens are:     *)
(* lexical classes as sets of strings, the longest of them taken, an include *)
(* replaced by what its file means.                                          *)
EXTENDS TokenPlaces, SequencesExt

CONSTANTS MaxText,      \* bound on the length of a text of the first family
          MaxFragments  \* bound on the fragments of a root file of the second

MCPaths == {"m", "d", "sub/d", "sub/e", "missing"}
MCRoot == "./m"
MCCanonical(path) == IF path = "./m" THEN "m" ELSE path

InSub == {"sub/d", "sub/e"}
MCResolve(includer, name) ==
    CASE name = <<"d">> -> IF includer \in InSub THEN "sub/d" ELSE "d"
      [] name = <<"e">> -> "sub/e"
      [] name = <<"i">> -> "m"
      [] name = <<"f">> -> "missing"
      [] OTHER -> NoPath

---------------------------------------------------------------------------
(* What the directives of the second family mean.                          *)

IncludeD == <<"{", "$", "I", " ", "d", "}">>
IncludeE == <<"{", "$", "i", " ", "'", "e", " ", "'", " ", "}">>
IncludeRoot == <<"{", "$", "I", "i", "}">>
IncludeMissing == <<"{", "$", "I", " ", "\"", "f", "\"", "}">>
IncludeNowhere == <<"{", "$", "I", " ", "o", "o", "}">>
Unnamed == {<<"{", "$", "I", "}">>, <<"{", "$", "I", " ", "'", "}">>}
Switch == <<"{", "$", "I", "+", "}">>
Unknown == {<<"{", "$", "}">>, <<"{", "$", "D", "}">>, <<"{", "$", "1", "}">>}

IncludedName == (IncludeD :> <<"d">>) @@ (IncludeE :> <<"e">>) @@ (IncludeRoot :> <<"i">>)
                @@ (IncludeMissing :> <<"f">>) @@ (IncludeNowhere :> <<"o", "o">>)
Known == DOMAIN IncludedName \cup Unnamed \cup {Switch}

---------------------------------------------------------------------------
(* The lexical classes                                                     *)

AllIn(s, chars) == s # <<>> /\ \A k \in DOMAIN s : s[k] \in chars
Ends(s, prefix, suffix) ==
    /\ Len(s) >= Len(prefix) + Len(suffix)
    /\ IsPrefix(prefix, s) /\ IsSuffix(suffix, s)
Occurs(s, part) == \E k \in 1..Len(s) - Len(part) + 1 : SubSeq(s, k, k + Len(part) - 1) = part
Inner(s, n) == SubSeq(s, n + 1, Len(s) - n)
Split(s, Left(_), Right(_)) ==
    \E k \in 0..Len(s) : Left(SubSeq(s, 1, k)) /\ Right(SubSeq(s, k + 1, Len(s)))

Integer(s) == AllIn(s, Digits)
Fraction(s) == s = <<>> \/ (Head(s) = "." /\ AllIn(Tail(s), Digits))
Decimal(s) == Split(s, Integer, Fraction)
Mark(s) == s # <<>> /\ Head(s) \in {"e", "E"} /\ (Len(s) = 1 \/ Tail(s) \in {<<"+">>, <<"-">>})
Exponent(s) == Split(s, Mark, Integer)
Numeric(s) == AllIn(s, Digits \cup {".", "e", "E", "+", "-"})
Real(s) == Numeric(s) /\ (Split(s, Decimal, Exponent) \/ (Decimal(s) /\ ~Integer(s)))
BrokenReal(s) == Numeric(s) /\ Split(s, Decimal, Mark)

Word(s) == AllIn(s, IdentContinue) /\ Head(s) \in IdentStart

(* The characters between the quotes: every quote is one of a pair.         *)
Quoted(s) ==
    LET quote(k) == k \in DOMAIN s /\ s[k] = "'"
        run(j, k) == ~quote(j - 1) /\ ~quote(k + 1) /\ \A i \in j..k : quote(i)
    IN  /\ ~\E k \in DOMAIN s : s[k] \in {"\r", "\n"}
        /\ \A j \in DOMAIN s : \A k \in j..Len(s) : run(j, k) => (k - j + 1) % 2 = 0
Literal(s) == Ends(s, <<"'">>, <<"'">>) /\ Quoted(Inner(s, 1))
OpenLiteral(s) == s # <<>> /\ Head(s) = "'" /\ Quoted(Tail(s))
OneCharacter(s) == Len(s) = 3 \/ s = <<"'", "'", "'", "'">>

BraceComment(s) ==
    Ends(s, <<"{">>, <<"}">>) /\ ~Ends(s, <<"{", "$">>, <<>>) /\ ~Occurs(Inner(s, 1), <<"}">>)
StarComment(s) ==
    Ends(s, <<"(", "*">>, <<"*", ")">>) /\ ~Occurs(SubSeq(s, 3, Len(s) - 1), <<"*", ")">>)
UnknownDirective(s) ==
    Ends(s, <<"{", "$">>, <<"}">>) /\ ~Occurs(Inner(s, 1), <<"}">>) /\ s[3] \notin {"i", "I"}
OpenDirective(s) == Ends(s, <<"{", "$">>, <<>>) /\ ~Occurs(s, <<"}">>)
OpenComment(s) ==
    \/ Ends(s, <<"{">>, <<>>) /\ ~Occurs(s, <<"}">>) /\ ~OpenDirective(s)
    \/ Ends(s, <<"(", "*">>, <<>>) /\ ~Occurs(SubSeq(s, 3, Len(s)), <<"*", ")">>)

Operator(s) == s \in TwoCharacterOperators \cup {<<ch>> : ch \in Operators}
Recognised(s) ==
    \/ AllIn(s, Whitespace) \/ Word(s) \/ Integer(s) \/ Real(s) \/ BrokenReal(s)
    \/ Literal(s) \/ OpenLiteral(s) \/ Operator(s)
    \/ BraceComment(s) \/ StarComment(s) \/ OpenComment(s)
    \/ OpenDirective(s) \/ UnknownDirective(s) \/ s \in Known

---------------------------------------------------------------------------
(* What a text means: the tokens and diagnostics of its longest recognised   *)
(* prefix, then those of the rest.                                          *)

Of(toks, ds) == [tokens |-> toks, diags |-> ds]
Both(a, b) == Of(a.tokens \o b.tokens, a.diags \o b.diags)

Complaint(severity, what, path, offset) ==
    <<[severity |-> severity, what |-> what, path |-> path, offset |-> offset]>>

Classified(s, path, p) ==
    LET tok(kind) == <<[kind |-> kind, path |-> path, from |-> p, to |-> p + Len(s)]>>
        error(what, offset) == Complaint("error", what, path, offset)
        mark == CHOOSE k \in DOMAIN s : s[k] \in {"e", "E"}
    IN  CASE AllIn(s, Whitespace) \/ BraceComment(s) \/ StarComment(s) -> Of(<<>>, <<>>)
          [] OpenComment(s) -> Of(<<>>, error("unclosed block comment", p))
          [] OpenDirective(s) -> Of(<<>>, error("unclosed compiler directive", p))
          [] Word(s) -> Of(tok(LookupKeyword(s)), <<>>)
          [] Integer(s) -> Of(tok("Integer"), <<>>)
          [] Real(s) -> Of(tok("Real"), <<>>)
          [] BrokenReal(s) -> Of(tok("Real"), error("malformed real exponent", p + mark - 1))
          [] Literal(s) -> Of(tok(IF OneCharacter(s) THEN "Char" ELSE "String"), <<>>)
          [] OpenLiteral(s) ->
                 Of(tok("String"), error("unclosed string or character literal", p))
          [] Operator(s) -> Of(tok("Operator"), <<>>)
          [] s \in Unnamed -> Of(<<>>, error("requires a file name", p))
          [] s = Switch -> Of(<<>>, error("unsupported form", p))
          [] UnknownDirective(s) ->
                 Of(<<>>, Complaint("warning", "unknown compiler directive", path, p))
          [] OTHER -> Of(<<>>, error("unexpected character", p))

LongestRecognised(text, p) ==
    LET sizes == {n \in 1..Len(text) - p + 1 :
                    \E s \in {SubSeq(text, p, p + n - 1)} : Recognised(s)}
    IN  IF sizes = {} THEN 1 ELSE CHOOSE n \in sizes : \A m \in sizes : m <= n

RECURSIVE Meaning(_, _, _)

IncludeMeaning(fs, open, p, name) ==
    LET path == open[Len(open)]
        file == Resolve(path, name)
        refused(what) == Of(<<>>, Complaint("error", what, path, p))
    IN  IF Len(open) > MaxIncludeDepth THEN refused("include nesting depth")
        ELSE IF file = NoPath THEN refused("cannot resolve include path")
        ELSE IF \E k \in DOMAIN open : Canonical(open[k]) = file THEN refused("cyclic include")
        ELSE IF file \notin DOMAIN fs THEN refused("cannot open file")
        ELSE Meaning(fs, Append(open, file), 1)

Meaning(fs, open, p) ==
    LET path == open[Len(open)]
        text == fs[Canonical(path)]
    IN  IF p > Len(text) THEN Of(<<>>, <<>>)
        ELSE Then(SubSeq(text, p, p + LongestRecognised(text, p) - 1), LAMBDA s :
             Then(IF s \in DOMAIN IncludedName THEN IncludeMeaning(fs, open, p, IncludedName[s])
                    ELSE Classified(s, path, p), LAMBDA here :
             Then(Meaning(fs, open, p + Len(s)), LAMBDA rest : Both(here, rest))))

(* The stream is what the texts mean: each token the longest that can be     *)
(* read, the tokens of an include file in place of its directive, no text    *)
(* lost or read twice around a splice, and one diagnostic for each malformed *)
(* form, under the path and at the offset it stands (scan, handleInclude).   *)
TokensAreSpliced ==
    done => LET meaning == Meaning(files, <<Root>>, 1)
                last == [kind |-> "EndOfFile", path |-> Root, from |-> End, to |-> End]
            IN  tokens = Append(meaning.tokens, last) /\ diags = meaning.diags

---------------------------------------------------------------------------
Alphabet == {"1", ".", "e", "+", "'", "{", "}", "(", "*", ")", "<", ">", "=", " ", "!"}
Texts(chars, n) == UNION {[1..k -> chars] : k \in 0..n}
LoneFiles == {"m" :> text : text \in Texts(Alphabet, MaxText)}
             \cup {"m" :> text : text \in Texts({"'", "d", "\r", "\n"}, 5)}
             \cup {"m" :> text : text \in Texts({"1", ".", "E", "-"}, 6)}

Fragments == {IncludeD, IncludeE, IncludeRoot, IncludeMissing, IncludeNowhere, Switch,
              <<"{", "$">>, <<"D", "o">>, <<"(", "*">>} \cup Unnamed \cup Unknown
IncludeSets ==
    {[path \in {"m", "d", "sub/d", "sub/e"} |->
        CASE path = "m" -> FlattenSeq(root)
          [] path = "d" -> d
          [] path = "sub/d" -> subd
          [] path = "sub/e" -> e] :
        root \in UNION {[1..n -> Fragments] : n \in 1..MaxFragments},
        d \in {<<>>, <<"f", "{">>, IncludeE \o <<"=">>},
        subd \in {<<"!">>, IncludeD \o <<"i">>, IncludeE},
        e \in {<<"i", "f">>, <<"1">> \o IncludeD, IncludeD \o <<"{", "$">>, IncludeRoot}}

MCFileSystems == LoneFiles \cup IncludeSets
=============================================================================
