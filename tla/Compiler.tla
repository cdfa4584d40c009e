------------------------------- MODULE Compiler -------------------------------
(***************************************************************************)
(* The compiler as a function: a source program is lowered to IR, and the  *)
(* IR is emitted as opcodes.  The programs it makes are what Compile runs. *)
(***************************************************************************)
EXTENDS Compile

Source == INSTANCE Pascal
Lowering == INSTANCE Lower
Assembly == INSTANCE Tbc

(* A program with an input: what it means, and what the compiler makes of   *)
(* it.  Lowering goes on after an error, but then nothing is emitted.       *)
Compiled(program, given) ==
    LET Scalars(params) == {k \in DOMAIN params : params[k].type # "ArrayRef"}
        subs == program.subprograms
    IN  Source!Then(Lowering!LowerToIr(program), LAMBDA lowered :
            [input |-> given,
             meaning |-> Source!Meaning(program, given),
             arity |-> [name \in {subs[k].name : k \in DOMAIN subs} |->
                           Cardinality(Scalars(Source!Named(subs, name).params))],
             ir |-> lowered.functions,
             code |-> IF lowered.failed THEN <<>>
                      ELSE Assembly!EmitTbc(lowered.functions)])
===============================================================================
