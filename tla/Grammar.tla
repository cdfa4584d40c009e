------------------------------- MODULE Grammar -------------------------------
(***************************************************************************)
(* The syntax of the dialect (docs/milestones/02-parser.md and             *)
(* docs/pascal-dialect.md) as a context-free grammar over the token kinds  *)
(* of Parser, and what it says of a stream, with no notion of lookahead,   *)
(* of recovery or of a parser.                                             *)
(***************************************************************************)
EXTENDS Integers, Sequences, FiniteSets, FiniteSetsExt

(* Productions                                                             *)
Empty == <<>>

DeclarationRules == [
    PROGRAM   |-> {<<"program", "id", ";", "BLOCK", ".", "eof">>},
    BLOCK     |-> {<<"CONSTS", "TYPES", "VARS", "SUBS", "COMPOUND">>},
    CONSTS    |-> {Empty, <<"const", "CONSTDEFS">>},
    CONSTDEFS |-> {Empty, <<"id", "=", "EXPR", ";", "CONSTDEFS">>},
    TYPES     |-> {Empty, <<"type", "TYPEDEFS">>},
    TYPEDEFS  |-> {Empty, <<"id", "=", "TYPE", ";", "TYPEDEFS">>},
    VARS      |-> {Empty, <<"var", "FIELDS">>},
    FIELDS    |-> {Empty, <<"IDS", ":", "TYPE", ";", "FIELDS">>},
    IDS       |-> {<<"id", "MOREIDS">>},
    MOREIDS   |-> {Empty, <<",", "id", "MOREIDS">>},
    TYPE      |-> {<<"id">>, <<"file", "of", "TYPE">>, <<"record", "FIELDS", "end">>,
                   <<"array", "[", "EXPR", "..", "EXPR", "]", "of", "TYPE">>},
    SUBS      |-> {Empty, <<"function", "id", "FORMALS", ":", "TYPE", ";", "BLOCK", ";", "SUBS">>,
                   <<"procedure", "id", "FORMALS", ";", "BLOCK", ";", "SUBS">>},
    FORMALS   |-> {Empty, <<"(", ")">>, <<"(", "FORMAL", "MOREFORMALS", ")">>},
    FORMAL    |-> {<<"IDS", ":", "TYPE">>, <<"var", "IDS", ":", "TYPE">>},
    MOREFORMALS |-> {Empty, <<";", "FORMAL", "MOREFORMALS">>}]

(* A semicolon may follow the last statement of a list, and may be left out *)
(* between the arms of a case.                                              *)
StatementRules == [
    COMPOUND |-> {<<"begin", "end">>, <<"begin", "STMTS", "end">>},
    STMTS    |-> {<<"STMT", "MORESTMTS">>},
    MORESTMTS |-> {Empty, <<";">>, <<";", "STMT", "MORESTMTS">>},
    STMT     |-> {<<"COMPOUND">>,
                  <<"if", "EXPR", "then", "STMT">>, <<"if", "EXPR", "then", "STMT", "else", "STMT">>,
                  <<"while", "EXPR", "do", "STMT">>,
                  <<"repeat", "until", "EXPR">>, <<"repeat", "STMTS", "until", "EXPR">>,
                  <<"for", "id", ":=", "EXPR", "DIRECTION", "EXPR", "do", "STMT">>,
                  <<"case", "EXPR", "of", "ARMS", "OTHERWISE", "end">>,
                  <<"id", "ACTUALS">>, <<"id", "INDEX", ":=", "EXPR">>,
                  <<"id", ".", "id", "INDEX", ":=", "EXPR">>},
    DIRECTION |-> {<<"to">>, <<"downto">>},
    INDEX    |-> {Empty, <<"[", "EXPR", "]">>},
    ARMS     |-> {<<"ARM", "MOREARMS">>},
    MOREARMS |-> {Empty, <<";">>, <<"ARM", "MOREARMS">>, <<";", "ARM", "MOREARMS">>},
    ARM      |-> {<<"LABEL", "MORELABELS", ":", "STMT">>},
    LABEL    |-> {<<"EXPR">>, <<"EXPR", "..", "EXPR">>},
    MORELABELS |-> {Empty, <<",", "LABEL", "MORELABELS">>},
    OTHERWISE |-> {Empty, <<"else", "STMT">>}]

ExpressionRules == [
    EXPR     |-> {<<"SIMPLE", "RELATION">>},
    RELATION |-> {Empty, <<"=", "SIMPLE">>},
    SIMPLE   |-> {<<"TERM", "MORETERMS">>},
    MORETERMS |-> {Empty, <<"+", "TERM", "MORETERMS">>},
    TERM     |-> {<<"FACTOR", "MOREFACTORS">>},
    MOREFACTORS |-> {Empty, <<"*", "FACTOR", "MOREFACTORS">>},
    FACTOR   |-> {<<"not", "FACTOR">>, <<"+", "FACTOR">>, <<"PRIMARY", "INDEXES", "SELECTS">>},
    PRIMARY  |-> {<<"num">>, <<"id", "ACTUALS">>, <<"(", "EXPR", ")">>},
    ACTUALS  |-> {Empty, <<"(", ")">>, <<"(", "EXPR", "MOREACTUALS", ")">>},
    MOREACTUALS |-> {Empty, <<",", "EXPR", "MOREACTUALS">>},
    INDEXES  |-> {Empty, <<"[", "EXPR", "]", "INDEXES">>},
    SELECTS  |-> {Empty, <<".", "id", "SELECTS">>}]

Union3(f, g, h) ==
    [n \in DOMAIN f \cup DOMAIN g \cup DOMAIN h |->
        IF n \in DOMAIN f THEN f[n] ELSE IF n \in DOMAIN g THEN g[n] ELSE h[n]]
Rules == Union3(DeclarationRules, StatementRules, ExpressionRules)

(* "Indexed load/store: a[i], and on record array fields r.a[i]"            *)
(* (docs/pascal-dialect.md:76): an index may follow a selected field.       *)
DocumentedRules == [Rules EXCEPT !.SELECTS = @ \cup {<<".", "id", "[", "EXPR", "]", "SELECTS">>}]

---------------------------------------------------------------------------
(* Sentential forms: the leftmost derivations of form, as far as the first   *)
(* token of each.                                                           *)
RECURSIVE Derived(_, _)
Derived(rules, form) ==
    IF form = <<>> \/ Head(form) \notin DOMAIN rules THEN {form}
    ELSE UNION {Derived(rules, body \o Tail(form)) : body \in rules[Head(form)]}

(* What may follow the first k tokens of a stream.                          *)
RECURSIVE Futures(_, _, _)
Futures(rules, stream, k) ==
    IF k = 0 THEN Derived(rules, <<"PROGRAM">>)
    ELSE UNION {Derived(rules, Tail(form)) :
                    form \in {f \in Futures(rules, stream, k - 1) : f # <<>> /\ Head(f) = stream[k]}}

(* The first token that no program continues with after those before it, or *)
(* 0: the stream is a program.                                              *)
FirstUnviable(rules, stream) ==
    LET unviable == {k \in DOMAIN stream : Futures(rules, stream, k) = {}}
    IN  IF unviable = {} THEN 0 ELSE Min(unviable)

---------------------------------------------------------------------------
(* The documented precedence table: the operator of an expression that is    *)
(* applied last, and the operand order it gives.                            *)

(* How deep in parentheses the k-th token of e is.                          *)
Depth(e, k) == Cardinality({j \in 1..k : e[j] = "("}) - Cardinality({j \in 1..k - 1 : e[j] = ")"})

(* An operator between two operands: it follows the end of one.             *)
Infix(e, k) == k > 1 /\ e[k] \in {"*", "+", "="} /\ e[k - 1] \in {"num", ")"}
NodeOf == [op \in {"*", "+", "="} |->
              IF op = "*" THEN "Star" ELSE IF op = "+" THEN "Plus" ELSE "Equal"]

RECURSIVE Postfix(_)
Postfix(e) ==
    LET outer(op) == {k \in DOMAIN e : e[k] = op /\ Infix(e, k) /\ Depth(e, k) = 0}
        split(ks) == LET k == Max(ks)
                     IN  Postfix(SubSeq(e, 1, k - 1)) \o Postfix(SubSeq(e, k + 1, Len(e)))
                         \o <<NodeOf[e[k]]>>
    IN  IF outer("=") # {} THEN split(outer("="))
        ELSE IF outer("+") # {} THEN split(outer("+"))
        ELSE IF outer("*") # {} THEN split(outer("*"))
        ELSE IF Head(e) = "not" THEN Append(Postfix(Tail(e)), "Not")
        ELSE IF Head(e) = "+" THEN Append(Postfix(Tail(e)), "UnaryPlus")
        ELSE IF Head(e) = "(" THEN Append(Postfix(SubSeq(e, 2, Len(e) - 1)), "Group")
        ELSE <<"Literal">>
=============================================================================
