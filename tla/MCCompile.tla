------------------------------ MODULE MCCompile ------------------------------
(* Compile on the sample programs, each of them run for every input.         *)
EXTENDS Compiler, SamplePrograms

MCMinInt == -100

MCInputs == {[k \in 1..8 |-> Whole(IF k = 1 THEN first ELSE k % 4)] :
                first \in {-2, 0, 1, 2, 3}}

MCCompilations == {Compiled(Samples[name], given) :
                      name \in DOMAIN Samples, given \in MCInputs}

---------------------------------------------------------------------------
(* Programs of the dialect whose compiled form does something else than the  *)
(* documentation says, for the runs that show it.                            *)

Unary1 == <<Scalar("n", "I32")>>
NoInput == <<>>

(* var t1: integer;                                                          *)
(* function f(n: integer): integer;                                          *)
(* begin f := 1; if n > 1 then f := 2 end;                                   *)
(* begin t1 := 7; write(f(2), f(1)); write(2 * 3, t1) end.                   *)
WrongPrograms ==
    {Program(<<>>, <<Scalar("t1", "I32")>>,
         <<Subprogram("f", "I32", Unary1, <<>>,
               <<Assign("f", Lit(1)),
                 If(Rel("Greater", I("n"), Lit(1)), Assign("f", Lit(2)))>>)>>,
         <<Assign("t1", Lit(7)),
           CallStmt("write", <<Fn("f", Lit(2)), Fn("f", Lit(1))>>),
           CallStmt("write", <<Op("Star", Lit(2), Lit(3)), I("t1")>>)>>)}

(* const two = 2; procedure p(n: integer);                                   *)
(* begin case n of two: write(1) end end; begin p(2) end.                    *)
ConstPrograms ==
    {Program(<<[name |-> "two", value |-> Lit(2)]>>, <<>>,
         <<Subprogram("p", "Void", Unary1, <<>>,
               <<Case(I("n"), <<CaseArm(<<CaseLabel(I("two"), NoExpr)>>,
                                        Write1(Lit(1)))>>, NoStmt)>>)>>,
         <<CallStmt("p", <<Lit(2)>>)>>)}

WrongCompilations == {Compiled(p, NoInput) : p \in WrongPrograms}
ConstCompilations == {Compiled(p, NoInput) : p \in ConstPrograms}

(* What a program that has come to its end has printed is what its source    *)
(* means: the values functions return and variables hold (lowerAssign,       *)
(* mangleSlot).  Asked at the end only, so that a run shows every wrong item.*)
WholeOutputMatches == status = "halted" => output = meaning.output
===============================================================================
