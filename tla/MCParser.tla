------------------------------- MODULE MCParser -------------------------------
(* Parser on three families of streams: programs of every declaration and    *)
(* statement form with one token left out, put in or replaced anywhere;      *)
(* programs with a record; and every short sequence of tokens in the place   *)
(* of an expression.                                                        *)
EXTENDS Parser, Grammar

CONSTANT MaxExpression    \* bound on the length of an expression

Program(block) == <<"program", "id", ";">> \o block \o <<".", "eof">>
Statement(stmt) == Program(<<"begin">> \o stmt \o <<"end">>)

Constants == Program(
    <<"const", "id", "=", "num", ";", "id", "=", "+", "id", ";",
      "type", "id", "=", "array", "[", "num", "..", "num", "]", "of", "id", ";",
      "var", "id", ",", "id", ":", "file", "of", "id", ";", "id", ":", "id", ";",
      "begin", "id", "end">>)
Subprograms == Program(
    <<"function", "id", "(", "var", "id", ":", "id", ";", "id", ",", "id", ":", "id", ")", ":", "id", ";",
      "begin", "end", ";",
      "procedure", "id", ";", "var", "id", ":", "id", ";", "begin", "id", "(", ")", ";", "end", ";",
      "begin", "end">>)
Branches == Statement(
    <<"if", "id", "=", "num", "then", "while", "not", "id", "do", "id",
      "else", "repeat", "id", ";", "id", ";", "until", "id">>)
Loops == Statement(
    <<"for", "id", ":=", "num", "downto", "id", "do", "begin", "id", "end", ";",
      "repeat", "until", "id", ";", "for", "id", ":=", "num", "to", "num", "do", "id">>)
Cases == Statement(
    <<"case", "id", "of", "num", ",", "num", "..", "num", ":", "id", ";",
      "num", ":", "begin", "end", "num", ":", "id", "else", "id", "end">>)
Assignments == Statement(
    <<"id", "[", "num", "]", ":=", "id", "(", "id", "[", "id", "]", ".", "id", ",", "num", ")", ";",
      "id", ".", "id", "[", "id", "]", ":=", "(", "num", "+", "id", ")", "*", "id", ";",
      "id", "(", "id", ")", ";", "id", ":=", "num">>)

Inserted == {"id", "num", ";", ",", ":", ":=", "(", ")", "[", "]", "end", "begin", "else",
             "until", "var", "of"}

Edits(s) ==
    LET last == Len(s) - 1
        before(k) == SubSeq(s, 1, k - 1)
        after(k) == SubSeq(s, k + 1, Len(s))
    IN  {s} \cup {before(k) \o after(k) : k \in 1..last}
            \cup {before(k) \o <<t>> \o after(k) : k \in 1..last, t \in Inserted}
            \cup {before(k) \o <<t, s[k]>> \o after(k) : k \in 1..last, t \in Inserted}

Edited == UNION {Edits(s) : s \in {Constants, Subprograms, Branches, Loops, Cases, Assignments}}

(* Records, whole and with their error outside of the fields.               *)
Fields == <<"id", ":", "id", ";", "id", ",", "id", ":", "array", "[", "num", "..", "num", "]", "of", "id", ";">>
Record(before, fields, after) ==
    Program(<<"type", "id", "=">> \o before \o <<"record">> \o fields \o <<"end">> \o after
            \o <<"begin", "id", ":=", "id", ".", "id", "end">>)
Records ==
    {Record(<<>>, <<>>, <<";">>), Record(<<>>, Fields, <<";">>), Record(<<"file", "of">>, Fields, <<";">>),
     Record(<<"num">>, <<>>, <<";">>), Record(<<"file">>, Fields, <<";">>),
     Record(<<>>, Fields, <<>>), Record(<<>>, <<"id", ":", "id">>, <<";">>),
     Record(<<>>, <<"id", ":", "num", ";">>, <<";">>)}

(* Every short sequence of the tokens of an expression, and longer ones that *)
(* have two or three operators.                                             *)
ShortOnes == UNION {[1..n -> {"num", "+", "*", "=", "not", "(", ")"}] : n \in 1..MaxExpression}
Operands == {<<"num">>, <<"not", "num">>, <<"+", "num">>, <<"(", "num", "+", "num", ")">>}
Operator == {"+", "*", "="}
LongOnes ==
    {a \o <<op1>> \o b \o <<op2>> \o c : a, b, c \in Operands, op1, op2 \in Operator}
    \cup {<<"num", op1>> \o b \o <<op2>> \o c \o <<op3, "num">> :
            b, c \in Operands, op1, op2, op3 \in Operator}
Expressible == ShortOnes \cup LongOnes
Assigned(e) == Statement(<<"id", ":=">> \o e)

MCStreams == Edited \cup Records \cup {Assigned(e) : e \in Expressible}

(* The first error is reported at the first token that cannot belong to any  *)
(* program, and a stream with no such token is parsed without a complaint:  *)
(* prediction by one token never goes wrong, nothing outside the grammar    *)
(* slips through a loop or an optional part, and recovery, which skips      *)
(* tokens, only ever starts where there is an error.                        *)
FirstErrorIsExact == Done => firstError = FirstUnviable(Rules, stream)

(* Operators bind as the precedence table of docs/milestones/02-parser.md    *)
(* says, those of one level to the left: the tree of an accepted assignment *)
(* is that of its expression (parseFactor, parseTerm, parseSimpleExpression,*)
(* parseExpression).                                                        *)
PrecedenceIsDocumented ==
    LET e == SubSeq(stream, 7, Len(stream) - 3)
        isExpression == Len(stream) > 9 /\ e \in Expressible
    IN  Done /\ firstError = 0 /\ isExpression => nodes = Postfix(e)

---------------------------------------------------------------------------
(* type id = record id : id ; var id : id ; begin end: end is forgotten.    *)
UnfinishedRecord ==
    {Program(<<"type", "id", "=", "record", "id", ":", "id", ";",
               "var", "id", ":", "id", ";", "begin", "end">>)}

(* id := id . id [ num ]                                                    *)
FieldIndexed == {Assigned(<<"id", ".", "id", "[", "num", "]">>)}

(* A program of the documented syntax is accepted.  The documentation has    *)
(* "indexed load/store: a[i], and on record array fields r.a[i]".           *)
AcceptsDocumented == Done /\ FirstUnviable(DocumentedRules, stream) = 0 => firstError = 0
=============================================================================
