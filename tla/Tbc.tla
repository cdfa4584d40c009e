--------------------------------- MODULE Tbc ---------------------------------
(***************************************************************************)
(* From IR to the text of a .tbc program (emitTbc in src/codegen/Emit.cpp):*)
(* every function block by block, and the names its opcodes carry mangled  *)
(* into the one name space of the VM's variables and labels.               *)
(***************************************************************************)
EXTENDS EmitOps, Sequencing, TLC

(* Names.                                                                   *)

MangleSlot(f, name) == f \o "$" \o name
MangleTemp(f, v) == f \o "$t" \o ToString(v)
(* Mutant of MangleBlockLabel: labels are not kept apart by function.       *)
BareBlockLabel(f, label) == IF label = "entry" THEN f ELSE label
MangleBlockLabel(f, label) == IF label = "entry" THEN f ELSE f \o "$" \o label

SlotOps == {"STORE_VAR", "LOAD_VAR", "DIM_ARRAY", "MAT_INIT", "LOAD_ARR",
            "STORE_ARR", "MAT_COPY"}
LabelOps == {"LABEL", "JUMP", "JZ"}

(* The opcodes of function f that o stands for, with mangled names.  Array  *)
(* arguments and callees are named by the IR, already mangled.              *)
Mangle(f, o) ==
    CASE o.temp # NoValue -> <<[o EXCEPT !.arg = MangleTemp(f, o.temp)]>>
      [] o.temp = NoValue /\ o.op = "MAT_COPY" ->
           <<[o EXCEPT !.arg = MangleSlot(f, @), !.src = MangleSlot(f, @)]>>
      [] o.temp = NoValue /\ o.op \in SlotOps \ {"MAT_COPY"} ->
           <<[o EXCEPT !.arg = MangleSlot(f, @)]>>
      [] o.op \in LabelOps -> <<[o EXCEPT !.arg = MangleBlockLabel(f, @)]>>
      [] o.op = "BIND_ARRAY" ->
           <<PushInt(o.n), Opcode("DIM_ARRAY", o.arg, 0), PushInt(0),
             Opcode("MAT_INIT", o.arg, 0), MatCopy(o.arg, o.src)>>
      [] OTHER -> <<o>>

(* Blocks, functions, the module.                                           *)

RECURSIVE EmitInstrs(_, _), EmitBlocks(_, _, _)
EmitInstrs(c, body) ==
    IF body = <<>> THEN c
    ELSE Then(EmitInstr(c, Head(body)), LAMBDA d : EmitInstrs(d, Tail(body)))

(* Mutant of EmitBasicBlock: an empty block loses its terminator.           *)
DroppedTerminator(c, block, scalars) ==
    LET isCallee == block.label = "entry" /\ c.fn # "main"
        depth == IF isCallee THEN Len(scalars) ELSE 0
    IN  Then(BeginBlock(c, block.label, depth), LAMBDA b :
        Then(IF isCallee THEN EmitParamPrologue(b, scalars) ELSE b, LAMBDA p :
            IF block.body = <<>> THEN p
            ELSE EmitTerminator(EmitInstrs(p, block.body), block.term)))

EmitBasicBlock(c, block, scalars) ==
    LET isCallee == block.label = "entry" /\ c.fn # "main"
        depth == IF isCallee THEN Len(scalars) ELSE 0
    IN  Then(BeginBlock(c, block.label, depth), LAMBDA b :
        Then(IF isCallee THEN EmitParamPrologue(b, scalars) ELSE b, LAMBDA p :
            EmitTerminator(EmitInstrs(p, block.body), block.term)))

EmitBlocks(c, blocks, scalars) ==
    IF blocks = <<>> THEN c
    ELSE Then(EmitBasicBlock(c, Head(blocks), scalars), LAMBDA d :
             EmitBlocks(d, Tail(blocks), scalars))

EmitFunction(f) ==
    LET params == SelectSeq(f.params, LAMBDA d : d.type # "ArrayRef")
        scalars == [k \in DOMAIN params |-> params[k].name]
    IN  EmitBlocks(Context(f.name, 0), f.blocks, scalars)

(* The sequences of a sequence, one after the other.  It is halved so that   *)
(* TLC evaluates a long one to no great depth.                               *)
RECURSIVE Concatenation(_)
Concatenation(s) ==
    LET half == Len(s) \div 2
    IN  IF s = <<>> THEN <<>>
        ELSE IF half = 0 THEN s[1]
        ELSE Concatenation(SubSeq(s, 1, half))
             \o Concatenation(SubSeq(s, half + 1, Len(s)))

MangledCode(c) == Concatenation([k \in DOMAIN c.code |-> Mangle(c.fn, c.code[k])])

(* The program, or nothing once a function fails to emit.                   *)
EmitTbc(ir) ==
    LET c == [k \in DOMAIN ir |-> EmitFunction(ir[k])]
    IN  IF \E k \in DOMAIN ir : c[k].failed THEN <<>>
        ELSE Concatenation([k \in DOMAIN ir |-> MangledCode(c[k])])
==============================================================================
