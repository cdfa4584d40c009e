---------------------------- MODULE SamplePrograms ----------------------------
(* Analysed programs of the dialect: every statement of Fragments inside     *)
(* every context of Contexts.  The fragments are the statement and           *)
(* expression forms of the dialect; the contexts put them in branches,       *)
(* loops, arms and a procedure that is called twice.                         *)
EXTENDS Ast

Lit(n) == IntegerLiteral(n)
I(name) == Identifier(name, "I32")
R(name) == Identifier(name, "F64")
A(name) == Identifier(name, "ArrayRef")
Op(op, l, r) == Binary(op, l, r, "I32")
Rel(op, l, r) == Binary(op, l, r, "Bool")
RealOp(op, l, r) == Binary(op, l, r, "F64")
Fn(name, e) == Call(name, <<e>>, "I32")
RealFn(name, e) == Call(name, <<e>>, "F64")
Write1(e) == CallStmt("write", <<e>>)
X == I("x")
Ch == Identifier("ch", "Char")
St == Identifier("st", "StringRef")
Letter(code) == CharLiteral(code)
One == StringLiteral(300)          \* 'one'
NoText == StringLiteral(0)         \* ''
Half == RealOp("Slash", X, Lit(2))
AbsHalf == RealFn("abs", Half)
Rounded == Fn("round", AbsHalf)

---------------------------------------------------------------------------
(* Declarations.                                                             *)

Point(name) ==
    Record(name, <<Scalar("u", "I32"), Scalar("w", "F64"),
                   Array("m", -1, 1, "I32")>>)
Vars == <<Scalar("i", "I32"), Scalar("j", "I32"), Scalar("r", "F64"),
          Array("a", 0, 2, "I32"), Array("b", 0, 2, "I32"),
          Array("e", -100, -98, "F64"), Array("c", -1, 1, "I32"),
          Scalar("ch", "Char"), Scalar("st", "StringRef"),
          Array("d", 0, 1, "StringRef"), Array("z", 1, 2, "Char"),
          Point("s"), Point("q")>>
Consts == <<[name |-> "k", value |-> Lit(2)]>>

(* function f(n: integer): integer; begin f := n * 2 + 1 end                 *)
F == Subprogram("f", "I32", <<Scalar("n", "I32")>>, <<>>,
         <<Assign("f", Op("Plus", Op("Star", I("n"), Lit(2)), Lit(1)))>>)
(* function h(n: real): real; var t: real; begin t := n / 2; h := abs(t) end *)
H == Subprogram("h", "F64", <<Scalar("n", "F64")>>, <<Scalar("t", "F64")>>,
         <<Assign("t", RealOp("Slash", R("n"), Lit(2))),
           Assign("h", RealFn("abs", R("t")))>>)
(* function g(n: char; t: string): char; begin write(t); g := succ(n) end     *)
G == Subprogram("g", "Char", <<Scalar("n", "Char"), Scalar("t", "StringRef")>>, <<>>,
         <<Write1(Identifier("t", "StringRef")),
           Assign("g", Call("succ", <<Identifier("n", "Char")>>, "Char"))>>)
(* procedure p(n: integer; v: array [0..2] of integer; y: real) with an array*)
(* of its own; it changes its parameters and calls f.                        *)
P == Subprogram("p", "Void",
         <<Scalar("n", "I32"), Array("v", 0, 2, "I32"), Scalar("y", "F64")>>,
         <<Array("l", 1, 2, "I32")>>,
         <<AssignIndex("v", Lit(0), Op("Plus", Index(A("v"), Lit(0), "I32"), I("n"))),
           Assign("n", Fn("f", Index(A("v"), Lit(0), "I32"))),
           CallStmt("write", <<Index(A("l"), Lit(2), "I32"), I("n"), R("y")>>),
           AssignIndex("l", Lit(2), I("n"))>>)

---------------------------------------------------------------------------
Fragments == <<
  (* x := x + 1; write(x, k) *)
  <<Assign("x", Op("Plus", X, Lit(1))), CallStmt("write", <<X, I("k")>>)>>,
  (* i := 0; while i < x do begin i := i + 1; write(i) end *)
  <<Assign("i", Lit(0)),
    While(Rel("Less", I("i"), X),
          Compound(<<Assign("i", Op("Plus", I("i"), Lit(1))), Write1(I("i"))>>))>>,
  (* i := 0; repeat i := succ(i); write(i) until (i >= x) or (i = 2) *)
  <<Assign("i", Lit(0)),
    Repeat(<<Assign("i", Fn("succ", I("i"))), Write1(I("i"))>>,
           Rel("Or", Group(Rel("GreaterEqual", I("i"), X)),
                     Group(Rel("Equal", I("i"), Lit(2)))))>>,
  (* for i := x to 2 do write(sqr(i)) *)
  <<For("i", X, Lit(2), FALSE, Write1(Fn("sqr", I("i"))))>>,
  (* for i := 2 downto x do if odd(i) then write(i) else write(-i) *)
  <<For("i", Lit(2), X, TRUE,
        IfElse(Call("odd", <<I("i")>>, "Bool"), Write1(I("i")),
               Write1(Unary("Minus", I("i"), "I32"))))>>,
  (* for x := 1 to x do write(x)  is left out: the limit names the control *)
  (* case x of -1..0: write(1); 1, 3: case x of 1: write(2) else write(3) end end *)
  <<Case(X, <<CaseArm(<<CaseLabel(Unary("Minus", Lit(1), "I32"), Lit(0))>>,
                      Write1(Lit(1))),
              CaseArm(<<CaseLabel(Lit(1), NoExpr), CaseLabel(Lit(3), NoExpr)>>,
                      Case(X, <<CaseArm(<<CaseLabel(Lit(1), NoExpr)>>,
                                        Write1(Lit(2)))>>, Write1(Lit(3))))>>,
         NoStmt)>>,
  (* a[x] := x + 1; b := a; b[0] := 5; write(a[x], b[x]) *)
  <<AssignIndex("a", X, Op("Plus", X, Lit(1))), Assign("b", A("a")),
    AssignIndex("b", Lit(0), Lit(5)),
    CallStmt("write", <<Index(A("a"), X, "I32"), Index(A("b"), X, "I32")>>)>>,
  (* e[x - 100] := x; write(e[x - 100] / 2, e[-99]) *)
  <<AssignIndex("e", Op("Minus", X, Lit(100)), X),
    CallStmt("write",
        <<RealOp("Slash", Index(A("e"), Op("Minus", X, Lit(100)), "F64"), Lit(2)),
          Index(A("e"), Unary("Minus", Lit(99), "I32"), "F64")>>)>>,
  (* r := x / 2; writeln(r, abs(r), round(r), trunc(r), abs(x)) *)
  <<Assign("r", Half),
    CallStmt("writeln", <<R("r"), RealFn("abs", R("r")), Fn("round", R("r")),
                          Fn("trunc", R("r")), Fn("abs", X)>>)>>,
  (* write(x * round(x / 2) - trunc(abs(x / 2)) + pred(x)) *)
  <<Write1(Op("Plus", Op("Minus", Op("Star", X, Fn("round", Half)),
                                  Fn("trunc", AbsHalf)),
              Fn("pred", X)))>>,
  (* r := x; while abs(r) > 1 do r := r - r / 2; write(r) *)
  <<Assign("r", X),
    While(Rel("Greater", RealFn("abs", R("r")), Lit(1)),
          Assign("r", RealOp("Minus", R("r"), RealOp("Slash", R("r"), Lit(2))))),
    Write1(R("r"))>>,
  (* for i := 0 to round(abs(x / 2)) do write(i) *)
  <<For("i", Lit(0), Rounded, FALSE, Write1(I("i")))>>,
  (* case round(abs(x / 2)) of 0: ; 1: a[round(abs(x / 2))] := x; write(a[1]) *)
  <<Case(Rounded, <<CaseArm(<<CaseLabel(Lit(0), NoExpr)>>, Compound(<<>>)),
                    CaseArm(<<CaseLabel(Lit(1), Lit(2))>>,
                            AssignIndex("a", Rounded, X))>>, NoStmt),
    Write1(Index(A("a"), Lit(1), "I32"))>>,
  (* a[0] := x; p(x, a, f(x)); f(x); write(a[0]) *)
  <<AssignIndex("a", Lit(0), X), CallStmt("p", <<X, A("a"), Fn("f", X)>>),
    CallStmt("f", <<X>>), Write1(Index(A("a"), Lit(0), "I32"))>>,
  (* write(f(x) + f(f(round(abs(x / 2)))), h(x) - h(h(x))) *)
  <<CallStmt("write", <<Op("Plus", Fn("f", X), Fn("f", Fn("f", Rounded))),
                        RealOp("Minus", RealFn("h", X), RealFn("h", RealFn("h", X)))>>)>>,
  (* s.u := x; s.w := x; s.m[0] := x; q := s; s.m[0] := 9; c := c; s.m := q.m; *)
  (* s.w := q.w / 2; write(s.u, s.w, q.w)                                      *)
  <<AssignField("s", "u", X), AssignField("s", "w", X),
    [AssignField("s", "m", X) EXCEPT !.index = Lit(0)], Assign("q", Identifier("s", "Record")),
    [AssignField("s", "m", Lit(9)) EXCEPT !.index = Lit(0)],
    AssignField("s", "m", Select("q", "m", "ArrayRef")),
    AssignField("s", "w", RealOp("Slash", Select("q", "w", "F64"), Lit(2))),
    CallStmt("write", <<Select("s", "u", "I32"), Select("s", "w", "F64"),
                        Select("q", "w", "F64")>>)>>,
  (* read(x, r, i); write(i, x, r / 2) *)
  <<CallStmt("read", <<X, R("r"), I("i")>>),
    CallStmt("write", <<I("i"), X, RealOp("Slash", R("r"), Lit(2))>>)>>,
  (* ch := chr(x + 65); case ch of 'A'..'B': write(ch, ord(ch), z[1]);         *)
  (* 'D': write(pred(ch)) else write(g(ch, 'one')) end; if ch > 'A' then write('B') *)
  <<Assign("ch", Call("chr", <<Op("Plus", X, Lit(65))>>, "Char")),
    Case(Ch, <<CaseArm(<<CaseLabel(Letter(65), Letter(66))>>,
                       CallStmt("write", <<Ch, Fn("ord", Ch),
                                           Index(A("z"), Lit(1), "Char")>>)),
               CaseArm(<<CaseLabel(Letter(68), NoExpr)>>,
                       Write1(Call("pred", <<Ch>>, "Char")))>>,
         Write1(Call("g", <<Ch, One>>, "Char"))),
    If(Rel("Greater", Ch, Letter(65)), Write1(Letter(66)))>>,
  (* st := 'one'; d[x] := st; if x > 0 then st := ''; z[x] := 'A';             *)
  (* write(st, d[0], z[2], d[1])                                               *)
  <<Assign("st", One), AssignIndex("d", X, St),
    If(Rel("Greater", X, Lit(0)), Assign("st", NoText)),
    AssignIndex("z", X, Letter(65)),
    CallStmt("write", <<St, Index(A("d"), Lit(0), "StringRef"),
                        Index(A("z"), Lit(2), "Char"),
                        Index(A("d"), Lit(1), "StringRef")>>)>>,
  (* if (x > 0) and not (x = 2) or (x < -1) then write(1) *)
  <<If(Rel("Or", Rel("And", Group(Rel("Greater", X, Lit(0))),
                     Unary("Not", Group(Rel("Equal", X, Lit(2))), "Bool")),
                 Group(Rel("Less", X, Unary("Minus", Lit(1), "I32")))),
       Write1(Lit(1)))>>,
  (* write(x div 2, x mod 2, 3 div x); write(sqrt(4), 1 / 2) *)
  <<CallStmt("write", <<Op("Div", X, Lit(2)), Op("Mod", X, Lit(2)),
                        Op("Div", Lit(3), X)>>),
    CallStmt("write", <<RealFn("sqrt", Lit(4)), RealOp("Slash", Lit(1), Lit(2))>>)>>
>>

Contexts(s) == <<
  <<Compound(s)>>,
  <<IfElse(Rel("Greater", X, Lit(0)), Compound(s), Write1(Lit(9)))>>,
  <<IfElse(Identifier("true", "Bool"),
           If(Rel("LessEqual", X, Lit(1)), Compound(s)), Write1(Lit(8)))>>,
  <<For("j", Lit(1), Lit(2), FALSE, Compound(s))>>,
  <<Assign("j", Lit(0)),
    While(Rel("Less", I("j"), I("k")),
          Compound(s \o <<Assign("j", Op("Plus", I("j"), Lit(1)))>>))>>,
  <<Assign("j", Lit(2)),
    Repeat(s \o <<Assign("j", Op("Minus", I("j"), Lit(1)))>>,
           Rel("Equal", I("j"), Lit(0)))>>,
  <<Case(X, <<CaseArm(<<CaseLabel(Lit(0), NoExpr), CaseLabel(Lit(1), NoExpr)>>,
                      Compound(s)),
              CaseArm(<<CaseLabel(I("k"), Lit(3))>>,
                      Compound(s \o <<Write1(Lit(7))>>))>>, Write1(Lit(6)))>>,
  <<CallStmt("w", <<X>>), CallStmt("w", <<Op("Minus", X, Lit(1))>>)>>
>>
ContextCount == 8

(* In the last context the fragment is the body of a procedure w(x), which   *)
(* declares its own variables and, unlike main, no constant: k is one there. *)
W(s) == Subprogram("w", "Void", <<Scalar("x", "I32")>>,
                   Vars \o <<Scalar("k", "I32")>>,
                   <<Assign("k", Lit(2))>> \o s)

Samples ==
    [name \in (1..ContextCount) \X DOMAIN Fragments |->
        Program(Consts, <<Scalar("x", "I32")>> \o Vars,
                <<F, H, G, P>> \o (IF name[1] = ContextCount
                                THEN <<W(Fragments[name[2]])>> ELSE <<>>),
                <<CallStmt("read", <<X>>)>>
                \o Contexts(Fragments[name[2]])[name[1]]
                \o <<CallStmt("writeln", <<>>)>>)]
===============================================================================
