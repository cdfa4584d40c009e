--------------------------------- MODULE Ir ---------------------------------
(***************************************************************************)
(* The intermediate representation (include/apollo/ir/Ir.hpp): what Lower  *)
(* produces and Emit consumes.                                             *)
(*                                                                         *)
(* An instruction is a record with                                         *)
(*   op, arg     the operation and its callee, slot or runtime name        *)
(*   src         the array an array copy reads                             *)
(*   a, b, args  its value operands                                        *)
(*   n           its integer payload (literal, array size, low bound)      *)
(*   type        of an array to dimension, the type of its elements; of a  *)
(*               read, that of the variable                                *)
(*   types       the types of what a write prints                          *)
(*   mats        the array arguments to copy before a call                 *)
(*   res         the value it defines, NoValue if it defines none          *)
(***************************************************************************)
EXTENDS Integers, Sequences

NoValue == -1
NoName == "none"

NoInstr == [op |-> NoName, arg |-> NoName, src |-> NoName, a |-> NoValue,
            b |-> NoValue, args |-> <<>>, n |-> 0,
            type |-> "Void", types |-> <<>>, mats |-> <<>>, res |-> NoValue]

ProducesValue(i) == i.res # NoValue

Terminator(kind, value, target, falseTarget) ==
    [kind |-> kind, value |-> value, target |-> target,
     falseTarget |-> falseTarget]

(* The values an instruction reads.                                         *)
UsedValues(i) ==
    ({i.a, i.b} \cup {i.args[k] : k \in DOMAIN i.args}) \ {NoValue}
============================================================================
