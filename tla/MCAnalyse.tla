------------------------------- MODULE MCAnalyse -------------------------------
(* Analyse on two families: the sample programs, written as the parser would *)
(* leave them, and programs that try every rule of the dialect, right and    *)
(* wrong, one statement or declaration after another.                        *)
EXTENDS Analyse, SamplePrograms, FrontEnd

LOCAL INSTANCE SequencesExt

Lowering == INSTANCE Lower
Rules == INSTANCE Dialect

(* The names the refinement follows: a variable, a parameter, a constant and *)
(* two that are declared again and again.                                    *)
MCNames == {"i", "n", "k", "y", "new"}
MCSymbols == 1..90

---------------------------------------------------------------------------
(* The probes, as the parser leaves them: every operator, function,          *)
(* statement and kind of declaration, on operands of every type, right and   *)
(* wrong.                                                                    *)

N(name) == Identifier(name, "none")
T(name) == NamedType(name)
Num(n) == IntegerLiteral(n)
BinaryOf(op, l, r) == Binary(op, l, r, "none")
CallOf(name, args) == Call(name, args, "none")
ArrayDenoter(low, high, element) == ArrayType(Num(low), Num(high), T(element))
Unindexed(name, field) == [Select(name, field, "none") EXCEPT !.left = N(name)]

---------------------------------------------------------------------------
(* The declarations the statements of a probe can use.                       *)

Consts0 == <<ConstDecl("k", Num(2)), ConstDecl("letter", CharLiteral(65)),
             ConstDecl("name", StringLiteral(1)), ConstDecl("half", RealLiteral(2)),
             ConstDecl("wrapped", Group(Num(1)))>>
Types0 == <<TypeDecl("int", T("integer")), TypeDecl("flag", T("boolean")),
            TypeDecl("vector", ArrayDenoter(0, 2, "int")),
            TypeDecl("rec", RecordType(<<VarDecl(<<"u", "v">>, T("int")),
                                         VarDecl(<<"w">>, T("real"))>>)),
            TypeDecl("box", RecordType(<<VarDecl(<<"u">>, T("int")),
                                         VarDecl(<<"m">>, T("vector"))>>))>>
Vars0 == <<VarDecl(<<"i", "j">>, T("integer")), VarDecl(<<"x">>, T("real")),
           VarDecl(<<"b">>, T("boolean")), VarDecl(<<"c">>, T("char")),
           VarDecl(<<"s">>, T("string")), VarDecl(<<"a">>, T("vector")),
           VarDecl(<<"a5">>, ArrayDenoter(0, 5, "integer")),
           VarDecl(<<"ra">>, ArrayDenoter(0, 2, "real")),
           VarDecl(<<"r">>, T("rec")), VarDecl(<<"q">>, T("box")),
           VarDecl(<<"lost">>, T("nowhere")),
           VarDecl(<<"t">>, T("text")), VarDecl(<<"f">>, FileType(T("int"))),
           VarDecl(<<"g">>, FileType(T("rec")))>>
Empty == Block(<<>>, <<>>, <<>>, <<>>, <<>>)
Returning(name) == Block(<<>>, <<>>, <<>>, <<>>, <<Assign(name, Num(1))>>)
Procedure(name, params) == SubprogramDecl(name, FALSE, NoDenoter, params, Empty)
Function(name, params) ==
    SubprogramDecl(name, TRUE, T("integer"), params, Returning(name))
Subs0 == <<Procedure("p0", <<>>), Procedure("pi", <<ParamDecl(<<"n">>, T("int"), FALSE)>>),
           Procedure("px", <<ParamDecl(<<"n">>, T("int"), FALSE),
                             ParamDecl(<<"y", "z">>, T("real"), FALSE)>>),
           Procedure("pa", <<ParamDecl(<<"v">>, T("vector"), FALSE)>>),
           Procedure("pv", <<ParamDecl(<<"n">>, T("int"), TRUE)>>),
           Procedure("pl", <<ParamDecl(<<"n">>, T("nowhere"), FALSE)>>),
           Function("f0", <<>>),
           Function("f1", <<ParamDecl(<<"n">>, T("integer"), FALSE)>>)>>

Probe(statements) ==
    [name |-> "main", block |-> Block(Consts0, Types0, Vars0, Subs0, statements)]

---------------------------------------------------------------------------
(* Statements.                                                               *)

Atoms == <<N("i"), N("x"), N("b"), N("c"), N("s"), N("a"), N("r"), N("t"), N("f"),
           N("lost"), N("k"), N("letter"), N("name"), N("half"), N("true"), N("f0"),
           N("f1"), N("p0"), N("int"), N("write"), N("main"), N("unheard"),
           Num(7), RealLiteral(3), RealLiteral(9999), CharLiteral(66), StringLiteral(2),
           Group(N("i")), Unary("Minus", N("x"), "none"), Unary("Plus", N("c"), "none"),
           Unary("Not", N("b"), "none"), Unary("Not", N("i"), "none"),
           Index(N("a"), N("i"), "none"), Index(N("a"), N("c"), "none"),
           Index(N("i"), N("i"), "none"), Unindexed("r", "w"), Unindexed("r", "m"),
           Unindexed("q", "m"), Unindexed("i", "u"),
           CallOf("f1", <<N("i")>>), CallOf("f1", <<>>), CallOf("p0", <<>>),
           CallOf("i", <<N("i")>>), CallOf("eof", <<N("t")>>), CallOf("write", <<N("i")>>),
           CallOf("reset", <<N("t")>>)>>
Simple0 == <<N("i"), N("x"), N("b"), N("c"), N("s"), N("a"), N("r"), N("lost")>>
Targets == <<Assign("i", Num(0)), Assign("x", Num(0)), Assign("b", Num(0)),
             Assign("c", Num(0)), Assign("s", Num(0)), Assign("a", Num(0)),
             Assign("ra", Num(0)), Assign("r", Num(0)), Assign("lost", Num(0)),
             AssignIndex("a", N("i"), Num(0)), AssignField("r", "w", Num(0)),
             AssignField("q", "m", Num(0)),
             [AssignField("q", "m", Num(0)) EXCEPT !.index = N("i")]>>
OddTargets == <<Assign("k", N("i")), Assign("f0", N("i")), Assign("p0", N("i")),
                Assign("int", N("i")), Assign("unheard", N("i")), Assign("t", N("t")),
                AssignIndex("i", N("i"), N("i")), AssignIndex("a", N("x"), N("i")),
                AssignIndex("lost", N("i"), N("i")), AssignField("r", "m", N("i")),
                AssignField("i", "u", N("i")), AssignField("lost", "u", N("i")),
                [AssignField("r", "u", N("i")) EXCEPT !.index = N("i")],
                [AssignField("q", "m", N("i")) EXCEPT !.index = N("b")],
                Assign("a5", N("a")), Assign("ra", N("a")), Assign("a", N("ra")),
                Assign("q", N("r")), Assign("r", N("r")), Assign("q", N("q")),
                AssignField("q", "m", N("a")), AssignField("q", "m", N("a5")),
                AssignField("q", "m", Unindexed("q", "m")), Assign("a", Unindexed("q", "m")),
                AssignField("q", "m", Group(N("a"))), Assign("a5", Group(N("a"))),
                Assign("ra", Group(N("b"))), Assign("r", Group(N("r"))),
                Assign("q", Group(N("r"))), Assign("i", Group(Group(N("j"))))>>

(* Arrays of arrays: of one shape, of other outer bounds, of other elements. *)
(* Other inner bounds are in UnreportedProgram.                              *)
Grid(high, element) == ArrayType(Num(0), Num(high), ArrayDenoter(0, 2, element))
Grids == <<VarDecl(<<"grid", "same">>, Grid(1, "int")), VarDecl(<<"tall">>, Grid(3, "int")),
           VarDecl(<<"reals">>, Grid(1, "real")), VarDecl(<<"marks">>, Grid(1, "char"))>>
GridNames == <<"grid", "tall", "reals", "marks", "a">>
GridProbes ==
    {[name |-> "main", block |->
        Block(Consts0, Types0, Vars0 \o Grids, Subs0,
              [n \in DOMAIN GridNames |-> Assign(to, N(GridNames[n]))]
              \o [n \in DOMAIN GridNames |-> AssignIndex(to, N("i"), N(GridNames[n]))]
              \o <<Assign(to, N("same")), AssignIndex(to, N("same"), N("i")),
                   AssignIndex(to, N("i"), N("i")),
                   AssignIndex(to, N("i"), Index(N("a"), N("i"), "none"))>>)] :
        to \in Range(GridNames)}

Ops == <<"Plus", "Minus", "Star", "Slash", "Div", "Mod", "And", "Or", "Equal",
         "NotEqual", "Less", "LessEqual", "Greater", "GreaterEqual">>
AssignTo(target, e) == [target EXCEPT !.value = e]
(* Every atom assigned to every target; every operator on every two operands.*)
AssignProbes == {Probe([k \in DOMAIN Atoms |-> AssignTo(target, Atoms[k])]) :
                    target \in Range(Targets)} \cup {Probe(OddTargets)} \cup GridProbes
OperatorProbes ==
    {Probe(FlattenSeq([j \in DOMAIN Simple0 |->
               [k \in DOMAIN Simple0 |->
                   Assign(target, BinaryOf(op, Simple0[j], Simple0[k]))]])) :
        op \in Range(Ops), target \in {"i", "x", "b"}}

---------------------------------------------------------------------------
(* Calls: every builtin and subprogram with no, one and two arguments.       *)

Callees == <<"p0", "pi", "px", "pa", "pv", "pl", "f0", "f1", "write", "writeln",
             "read", "readln", "assign", "reset", "rewrite", "close", "eof", "eoln",
             "ord", "chr", "succ", "pred", "odd", "abs", "sqr", "trunc", "round",
             "sqrt", "sin", "i", "int", "unheard">>
Arguments == <<N("i"), N("x"), N("b"), N("c"), N("s"), N("a"), N("a5"), N("ra"), N("r"),
               N("t"), N("f"), N("g"), N("lost"), N("k"), Num(300), N("true"),
               StringLiteral(1), Group(N("true")), N("false"), Group(N("i")),
               Unary("Minus", N("k"), "none"), N("unheard")>>
Values0 == <<N("i"), N("x"), N("c"), N("s"), N("r"), N("lost"), Num(1)>>
ValueOf(name, args) == Assign(IF name \in {"eof", "eoln", "odd"} THEN "b" ELSE "lost",
                              CallOf(name, args))
CallProbes ==
    {Probe(<<CallStmt(name, <<>>), ValueOf(name, <<>>)>>
           \o [k \in DOMAIN Arguments |-> CallStmt(name, <<Arguments[k]>>)]
           \o [k \in DOMAIN Arguments |-> ValueOf(name, <<Arguments[k]>>)]) :
        name \in Range(Callees)}
    \cup {Probe([k \in DOMAIN Values0 |-> CallStmt(name, <<first, Values0[k]>>)]
                \o [k \in DOMAIN Values0 |->
                       CallStmt(name, <<first, Values0[k], N("x")>>)]) :
             name \in {"px", "f1", "write", "writeln", "read", "readln", "assign",
                       "reset", "rewrite", "close"},
             first \in {N("i"), N("t"), N("f"), N("g"), N("lost")}}

---------------------------------------------------------------------------
(* Control statements.                                                       *)

Nothing == Compound(<<>>)
Arm(labels) == CaseArm(labels, Nothing)
Single(e) == CaseLabel(e, NoExpr)
Labels == <<Single(Num(1)), Single(N("k")), Single(N("letter")), Single(N("half")),
            Single(N("true")), Single(N("i")), Single(Unary("Minus", N("k"), "none")),
            Single(Group(N("wrapped"))), Single(CharLiteral(66)), Single(N("lost")),
            CaseLabel(Num(1), Num(3)), CaseLabel(Num(3), Num(1)),
            CaseLabel(N("letter"), CharLiteral(70)), CaseLabel(N("false"), N("true")),
            CaseLabel(Num(1), N("letter")), CaseLabel(Unary("Minus", Num(3), "none"), Num(0))>>
CaseProbes ==
    {Probe([k \in DOMAIN Labels |-> Case(N(selector), <<Arm(<<Labels[k]>>)>>, NoStmt)]
           \o [k \in DOMAIN Labels |->
                  Case(N(selector), <<Arm(<<Labels[1], Labels[13]>>), Arm(<<Labels[k]>>)>>,
                       Assign("i", N("c")))]) :
        selector \in {"i", "c", "b", "x", "s", "lost", "int"}}
Conditions == <<N("b"), N("i"), N("lost"), N("unheard"), CallOf("eof", <<N("f")>>)>>
Bounds == <<N("i"), N("x"), N("c"), N("lost"), N("k")>>
ControlProbes ==
    {Probe([k \in DOMAIN Conditions |->
                IfElse(Conditions[k], Assign("i", Num(1)), Assign("i", N("j")))]
           \o [k \in DOMAIN Conditions |-> While(Conditions[k], Assign("x", N("i")))]
           \o [k \in DOMAIN Conditions |->
                  Repeat(<<Assign("x", N("i")), Nothing>>, Conditions[k])]
           \o <<If(N("b"), Assign("i", N("x"))),
                IfElse(N("b"), Nothing, Assign("i", N("x"))),
                While(N("b"), Assign("i", N("x"))),
                Repeat(<<Assign("i", N("x"))>>, N("b"))>>)}
    \cup {Probe([k \in DOMAIN Bounds |->
                    For(control, start, Bounds[k], FALSE, Nothing)]
                \o <<For(control, N("i"), N("i"), TRUE, Assign("i", N("x")))>>) :
             control \in {"i", "x", "k", "p0", "lost", "unheard"},
             start \in {N("i"), N("x"), N("lost")}}

---------------------------------------------------------------------------
(* Declarations: a denoter or an initialiser, in a program that uses it.     *)

Using(consts, types, variables, subs, statements) ==
    [name |-> "main", block |-> Block(consts, types, variables, subs, statements)]
Negative(n) == Unary("Minus", Num(n), "none")
Ends == {Negative(129), Negative(128), Negative(1), Num(0), Num(1), Num(126), Num(127),
         Num(128)}
OddEnds == {Num(2000), N("k"), Negative(2000), Unary("Minus", N("k"), "none"),
            Group(N("wrapped")), Unary("Plus", Num(1), "none"), N("letter"), N("true"),
            N("half"), N("unheard"), BinaryOf("Plus", Num(1), Num(1)), CharLiteral(65)}
Arrays == {ArrayType(low, high, T("integer")) : low, high \in Ends}
          \cup {ArrayType(odd, Num(1), T("integer")) : odd \in OddEnds}
          \cup {ArrayType(Num(1), odd, T("integer")) : odd \in OddEnds}
Plain == <<T("integer"), T("real"), T("string"), T("text"), T("vector"), T("nowhere"),
           T("rec"), T("k")>>
FieldTypes == Plain \o
    <<RecordType(<<VarDecl(<<"u">>, T("real"))>>),
      ArrayDenoter(0, 3, "rec"), ArrayDenoter(0, 3, "text"), ArrayDenoter(3, 0, "real"),
      ArrayType(Num(0), Num(1), ArrayDenoter(0, 1, "int")),
      FileType(T("integer"))>>
WithFields(name, d) ==
    RecordType(<<VarDecl(<<"u">>, T("integer")), VarDecl(<<name>>, d)>>)
Sound == {WithFields("w", Plain[k]) : k \in 1..5}
Records0 == {WithFields(name, d) : name \in {"u", "w"}, d \in Range(FieldTypes)}
            \cup {RecordType(<<VarDecl(<<"u", "w", "u">>, T("char"))>>)}
Elements == Range(FieldTypes) \cup {T("char"), T("boolean")}
Usable == Arrays \cup Elements \cup Sound
          \cup {FileType(d) : d \in Elements \cup Sound \cup {NoDenoter}}
          \cup {ArrayType(Num(1), Num(2), d) : d \in Sound}
Broken == Records0 \cup {FileType(d) : d \in Records0}
          \cup {ArrayType(Num(1), Num(2), d) : d \in Records0}
          \cup {RecordType(<<VarDecl(<<"w">>, FileType(d))>>) : d \in {T("char"), T("text")}}
UseOfV == <<Assign("v", N("v")), CallStmt("reset", <<N("v")>>), Assign("i", N("v")),
            Assign("w", N("v"))>>
(* A record with a bad field keeps the others, and is left alone.            *)
Declaring(d, statements) ==
    Using(Consts0, Types0 \o <<TypeDecl("given", d)>>,
          <<VarDecl(<<"v", "i">>, d), VarDecl(<<"w">>, T("given"))>>, <<>>, statements)
DenoterProbes ==
    {Declaring(d, UseOfV) : d \in Usable} \cup {Declaring(d, <<>>) : d \in Broken}
Initialisers == <<Num(1), RealLiteral(4), RealLiteral(9999), CharLiteral(65),
                  StringLiteral(1), Group(Group(Num(1))), Group(RealLiteral(9999)),
                  Unary("Minus", Num(1), "none"), N("k"), N("true"), N("unheard"),
                  BinaryOf("Plus", Num(1), Num(1)), CallOf("f0", <<>>)>>
ConstProbes ==
    {Using(Consts0 \o <<ConstDecl("given", e), ConstDecl("again", N("given"))>>, <<>>,
          <<VarDecl(<<"v">>, ArrayType(N("given"), Num(3), T("integer"))),
            VarDecl(<<"w">>, ArrayType(N("again"), Num(3), T("integer"))),
            VarDecl(<<"i">>, T("integer"))>>, <<>>,
          <<Assign("v", N("w")), Assign("i", N("given")), Assign("i", N("again")),
            Case(N("i"), <<CaseArm(<<Single(N("given"))>>, Nothing)>>, NoStmt),
            Case(N("i"), <<CaseArm(<<Single(N("again"))>>, Nothing)>>, NoStmt),
            CallStmt("write", <<N("given")>>)>>) : e \in Range(Initialisers)}

---------------------------------------------------------------------------
(* Blocks: every name in every role, declared again, hidden by a parameter   *)
(* or a local, used before, inside and after a subprogram.                   *)

Roles == {"k", "flag", "i", "p0", "f0", "write", "true", "real", "main", "new"}
OnceMore(name) ==
    {Using(Consts0 \o <<ConstDecl(name, CharLiteral(66))>>, Types0, Vars0, Subs0,
          <<Assign("i", N(name)), Assign("c", N(name))>>),
     Using(Consts0, Types0 \o <<TypeDecl(name, T("char"))>>,
          Vars0 \o <<VarDecl(<<"v">>, T(name))>>, Subs0,
          <<Assign("i", N("v")), Assign("c", N("v"))>>),
     Using(Consts0, Types0, Vars0 \o <<VarDecl(<<name>>, T("char"))>>, Subs0,
          <<Assign("i", N(name)), Assign("c", N(name)), Assign(name, CharLiteral(65))>>),
     Using(Consts0, Types0, Vars0,
          Subs0 \o <<Procedure(name, <<ParamDecl(<<"n">>, T("integer"), FALSE)>>)>>,
          <<CallStmt(name, <<Num(1)>>), CallStmt(name, <<>>)>>)}
(* A program with one subprogram of its own, and what it is used for.        *)
Inside(params, block) ==
    Using(Consts0, Types0, Vars0,
         Subs0 \o <<SubprogramDecl("fx", TRUE, T("char"), params, block),
                    SubprogramDecl("p9", FALSE, NoDenoter, <<>>,
                                   Block(<<>>, <<>>, <<>>, <<>>,
                                         <<CallStmt("fx", <<Num(1)>>),
                                           CallStmt("p9", <<>>)>>))>>,
         <<CallStmt("fx", <<Num(1)>>), Assign("c", CallOf("fx", <<Num(1)>>)),
           Assign("fx", N("c")), CallStmt("p9", <<>>), Assign("i", N("n"))>>)
Formal(name, type) == <<ParamDecl(<<name>>, T(type), FALSE)>>
UsesOf(name) ==
    <<Assign("fx", CharLiteral(65)), Assign(name, Num(1)), Assign(name, CharLiteral(65)),
      Assign("fx", N(name)), CallStmt(name, <<>>), CallStmt("p9", <<>>),
      CallStmt("pi", <<N(name)>>), CallStmt("pv", <<N(name)>>),
      Assign("fx", CallOf("fx", <<Num(1)>>)), Assign("fx", N("fx")),
      Assign("n", CallOf("ord", <<N("letter")>>))>>
Hiding(name) ==
    {Inside(Formal("n", "int"), Block(<<>>, <<>>, <<>>, <<>>, UsesOf(name))),
     Inside(Formal(name, "int"), Block(<<>>, <<>>, <<>>, <<>>, UsesOf(name))),
     Inside(Formal(name, "int") \o Formal(name, "char"),
            Block(<<>>, <<>>, <<>>, <<>>, UsesOf(name))),
     Inside(Formal("n", "int"), Block(<<>>, <<>>, <<VarDecl(<<name>>, T("char"))>>, <<>>,
                                      UsesOf(name))),
     Inside(Formal("n", "int"), Block(<<ConstDecl(name, CharLiteral(70))>>, <<>>, <<>>, <<>>,
                                      UsesOf(name))),
     Inside(Formal("n", "int"), Block(<<>>, <<TypeDecl(name, T("char"))>>,
                                      <<VarDecl(<<"v">>, T(name))>>, <<>>,
                                      <<Assign("fx", N("v"))>> \o UsesOf(name)))}
Nested(name) ==
    Inside(Formal("n", "int"),
           Block(<<>>, <<>>, <<VarDecl(<<"y">>, T("int"))>>,
                 <<SubprogramDecl(name, FALSE, NoDenoter, Formal("n", "int"),
                     Block(<<>>, <<>>, <<>>, <<>>,
                           <<Assign("n", Num(1)), Assign("y", N("n")), Assign("n", N("y")),
                             CallStmt(name, <<N("n")>>)>>))>>,
                 <<Assign("y", N("n")), CallStmt(name, <<N("y")>>)>>))
(* An inner subprogram that uses a parameter of the one around it.           *)
OuterProbes ==
    {Inside(Formal("n", "int"),
            Block(<<>>, <<>>, <<>>,
                  <<Procedure("outer", <<>>),
                    SubprogramDecl("inner", FALSE, NoDenoter, <<>>,
                                   Block(<<>>, <<>>, <<>>, <<>>, <<use>>))>>,
                  <<CallStmt("inner", <<>>)>>)) :
        use \in {Assign("n", Num(1)), CallStmt("pi", <<N("n")>>), CallStmt("read", <<N("n")>>),
                 CallStmt("outer", <<>>)}}
ParamProbes ==
    {Inside(<<ParamDecl(<<"n", "m">>, d, isVar)>>,
            Block(<<>>, <<>>, <<VarDecl(<<"y">>, d)>>, <<>>,
                  <<Assign("n", N("m")), Assign("y", N("n")), Assign("fx", N("n"))>>)) :
        isVar \in BOOLEAN, d \in Range(FieldTypes)}
(* A for in a subprogram, with every kind of name as its control variable:   *)
(* of its own block, of the subprogram around it, of the program.  Integers  *)
(* of other blocks, and what has no type there, are in UnreportedProgram.    *)
Loops(control) ==
    <<For(control, Num(1), N("n"), FALSE, Assign("y", N("n"))),
      For(control, N("n"), N("k"), TRUE, Assign("z", N("y"))),
      For(control, N("i"), Num(3), FALSE, Nothing),
      For(control, Num(1), N("i"), FALSE, Nothing),
      For(control, N("z"), N("y"), FALSE, Nothing),
      For(control, Num(1), N("y"), FALSE, Assign("i", N("y"))),
      For(control, Num(1), N("m"), FALSE, Assign("y", N("z")))>>
Locals == <<VarDecl(<<"y">>, T("int")), VarDecl(<<"z">>, T("real")),
            VarDecl(<<"astray">>, T("nowhere"))>>
InnerFor(control) ==
    SubprogramDecl("inner", FALSE, NoDenoter, Formal("n", "int"),
        Block(<<>>, <<>>, <<VarDecl(<<"y">>, T("int"))>>, <<>>,
              <<For(control, N("n"), N("y"), FALSE, Nothing)>>))
ForProbes ==
    {Inside(<<ParamDecl(<<"n">>, T("int"), FALSE), ParamDecl(<<"m">>, T("int"), isVar)>>,
            Block(<<ConstDecl("j", Num(1))>>, <<TypeDecl("c", T("integer"))>>, Locals, <<>>,
                  <<Assign("fx", CharLiteral(65))>> \o Loops(control))) :
        isVar \in BOOLEAN,
        control \in {"y", "z", "astray", "n", "m", "fx", "f1", "p9", "j", "c", "k", "int",
                     "x", "b", "a", "r", "t", "write", "unheard"}}
    \cup {Inside(Formal("n", "int"),
                Block(<<>>, <<>>, <<VarDecl(<<"i">>, T(type))>> \o Locals, <<>>, Loops("i"))) :
             type \in {"integer", "char", "nowhere"}}
    \cup {Inside(Formal("n", "int"),
                Block(<<>>, <<>>, Locals, <<InnerFor(control)>>, <<CallStmt("inner", <<N("n")>>)>>)) :
             control \in {"y", "n", "z", "x", "unheard"}}
ResultProbes ==
    {Using(Consts0, Types0, Vars0,
          <<SubprogramDecl("fy", TRUE, d, <<>>,
                           Block(<<>>, <<>>, <<>>, <<>>,
                                 <<Assign("fy", Num(1)), Assign("fy", CharLiteral(65))>>))>>,
          <<Assign("i", CallOf("fy", <<>>)), Assign("x", N("fy")), Assign("c", N("fy"))>>) :
        d \in Range(FieldTypes)}
ScopeProbes ==
    UNION {OnceMore(name) \cup Hiding(name) \cup {Nested(name)} : name \in Roles}
    \cup OuterProbes \cup ParamProbes \cup ResultProbes \cup ForProbes
DeclarationProbes == DenoterProbes \cup ConstProbes \cup ScopeProbes

---------------------------------------------------------------------------
(* The sample programs: declarations turned back into denoters.              *)

SourceType == [I32 |-> "integer", F64 |-> "real", Bool |-> "boolean", Char |-> "char",
               StringRef |-> "string"]
Bound(n) == IF n < 0 THEN Unary("Minus", IntegerLiteral(-n), "I32")
            ELSE IntegerLiteral(n)
RECURSIVE Denoter(_)
Denoter(d) ==
    CASE d.type = "ArrayRef" ->
           ArrayType(Bound(d.low), Bound(d.high), NamedType(SourceType[d.element]))
      [] d.type = "Record" ->
           RecordType([k \in DOMAIN d.fields |->
                          VarDecl(<<d.fields[k].name>>, Denoter(d.fields[k]))])
      [] OTHER -> NamedType(SourceType[d.type])
(* Declarations side by side with the same type make one declaration.        *)
ParsedVars(decls) ==
    [k \in DOMAIN decls |-> VarDecl(<<decls[k].name>>, Denoter(decls[k]))]
ParsedSubprogram(sub) ==
    SubprogramDecl(sub.name, IsFunction(sub),
        IF IsFunction(sub) THEN NamedType(SourceType[sub.returnType]) ELSE NoDenoter,
        [k \in DOMAIN sub.params |->
            ParamDecl(<<sub.params[k].name>>, Denoter(sub.params[k]), FALSE)],
        Block(<<>>, <<>>, ParsedVars(sub.vars), <<>>, sub.statements))
Parsed(p) ==
    [name |-> "main",
     block |-> Block(p.consts, <<>>, ParsedVars(p.vars),
                     [k \in DOMAIN p.subprograms |-> ParsedSubprogram(p.subprograms[k])],
                     p.statements)]
SampleTrees == {Parsed(Samples[n]) : n \in DOMAIN Samples}
MCPrograms ==
    SampleTrees \cup AssignProbes \cup OperatorProbes \cup CallProbes \cup CaseProbes
    \cup ControlProbes \cup DeclarationProbes

---------------------------------------------------------------------------
(* The types the analyser leaves on the tree are the ones lowering needs:    *)
(* they make every sample program the one its phases after analysis are      *)
(* checked on (typeExpr, toIrType, fillArrayMeta).                           *)
TreeIsTyped ==
    Done /\ program \in SampleTrees =>
        \E p \in Range(Samples) : AnalysedProgram(notes, program.block) = p

(* The declarations and statements with a diagnostic are exactly the ones    *)
(* that break a rule of the dialect: none is missed, none is invented, and   *)
(* none is blamed for what another has done (walkBlock and all it calls).    *)
(* The statements of UnreportedProgram are missed.                           *)
VerdictIsExact ==
    Done => {d.at : d \in diagnostics} = Rules!IllFormed(program)

---------------------------------------------------------------------------
(* What breaks a rule of the dialect page and is not reported: arrays whose  *)
(* inner bounds differ, a row of other bounds, arrays taken from something   *)
(* that is not a variable, and a for that counts in a variable of the        *)
(* program from inside a subprogram.                                         *)
UnreportedProgram ==
    Using(<<>>, Types0,
         <<VarDecl(<<"i">>, T("integer")), VarDecl(<<"a", "d">>, T("vector")),
           VarDecl(<<"a5">>, ArrayDenoter(0, 5, "integer")),
           VarDecl(<<"grid">>, Grid(1, "int")),
           VarDecl(<<"wide">>, ArrayType(Num(0), Num(1), ArrayDenoter(0, 5, "int")))>>,
         <<SubprogramDecl("p", FALSE, NoDenoter, Formal("n", "int"),
               Block(<<>>, <<>>, <<>>, <<>>,
                     <<For("i", Num(1), N("n"), FALSE, Nothing)>>))>>,
         <<Assign("grid", N("wide")), AssignIndex("grid", Num(0), N("a5")),
           Assign("a", Group(N("d"))), Assign("a", Index(N("grid"), Num(0), "none")),
           CallStmt("p", <<Num(2)>>)>>)
UnreportedPrograms == {UnreportedProgram}

---------------------------------------------------------------------------
(* Constants that are defined by themselves or by each other, used where a   *)
(* value is needed at compile time.                                          *)
Cyclic(decls, bound) ==
    Using(decls, <<>>, <<VarDecl(<<"v">>, ArrayType(bound, Num(3), T("integer"))),
                         VarDecl(<<"i">>, T("integer"))>>, <<>>,
          <<Case(N("i"), <<CaseArm(<<Single(N("k"))>>, Nothing)>>, NoStmt)>>)
Again(name, other) == ConstDecl(name, N(other))
CyclicPrograms ==
    {Cyclic(decls, bound) :
        decls \in {<<ConstDecl("k", Num(2))>>, <<Again("k", "k")>>,
                   <<Again("k", "n"), Again("n", "k")>>,
                   <<Again("n", "k"), ConstDecl("k", Num(2))>>},
        bound \in {Num(0), N("k"), N("n")}}

(* The rules, for the walk to ask: of a denoter its type and what is wrong   *)
(* with it, of a statement the statement with its types and what is wrong.   *)
MCTypeOfDenoter(env, denoter) == LET type == Resolve(env, denoter) IN type
MCFaultsOfDenoter(env, denoter) == LET faults == DenoterFaults(env, denoter) IN faults
MCTypedStatement(env, s) == LET typed == TypeStmt(env, s) IN typed
MCStatementFaults(env, s) == LET faults == StmtFaults(env, s) IN faults

(* The trees: what ProgramsAreTrees is evaluated on.                         *)
Inner(blocks) == {sub.block : sub \in UNION {Range(block.subprograms) : block \in blocks}}
MainBlocks == {p.block : p \in Programs}
MCBlocks == MainBlocks \cup Inner(MainBlocks) \cup Inner(Inner(MainBlocks))
================================================================================
