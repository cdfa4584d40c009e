------------------------------ MODULE EmitOps ------------------------------
(***************************************************************************)
(* The code generator's emission helpers (src/codegen/Emit.cpp), as        *)
(* operators on the emission context EmitCtx.                              *)
(*                                                                         *)
(* A context is a record                                                   *)
(*   fn       the IR function being emitted                                *)
(*   top      the IR value the emitter believes is on the operand stack,   *)
(*            or NoValue                                                   *)
(*   spilled  the IR values it believes are stored in a temporary slot     *)
(*   failed   a codegen diagnostic was reported                            *)
(*   code     the emitted opcodes, one record each                         *)
(* and, written only by Put, what a verifier of the emitted opcodes knows  *)
(* about them:                                                             *)
(*   depth    the height of the operand stack they leave                   *)
(*   stored   the temporaries they have stored                             *)
(*   faulty   an opcode pops an empty stack or loads a temporary that no   *)
(*            earlier opcode stores                                        *)
(***************************************************************************)
EXTENDS Ir

CONSTANT MinInt     \* the least integer the VM reads in PUSH_INT (INT32_MIN)

ASSUME MinIntAssumption == MinInt \in Int

(* One opcode with its operands.  `temp` is the IR value of a mangled       *)
(* temporary operand, NoValue otherwise; `arg` is any other name, `src` the *)
(* array a copy reads, and `n` a number pushed or counted.                  *)
Opcode(op, arg, n) ==
    [op |-> op, arg |-> arg, src |-> NoName, n |-> n, temp |-> NoValue]
StoreTemp(v) == [Opcode("STORE_VAR", NoName, 0) EXCEPT !.temp = v]
LoadTemp(v)  == [Opcode("LOAD_VAR", NoName, 0) EXCEPT !.temp = v]
StoreVar(slot) == Opcode("STORE_VAR", slot, 0)
LoadVar(slot)  == Opcode("LOAD_VAR", slot, 0)
PushInt(n) == Opcode("PUSH", NoName, n)

---------------------------------------------------------------------------
(* What the Gemini VM does to its operand stack for each opcode.            *)

PopOne == {"STORE_VAR", "DIM_ARRAY", "MAT_INIT", "LOAD_ARR", "PRINT_VAL",
           "PRINT_CHAR", "JZ", "COERCE_INT", "COERCE_FLT", "ABS_INT", "SEQ_STR"}
PopTwo == {"ADD", "SUB", "MUL", "DIV", "MOD", "EQ", "NE", "LT", "LE", "GT",
           "GE", "CONCAT", "STORE_ARR"}
PopArgs == {"CALL", "CALLVOID", "CALL_FUNC"}
PushOne == {"PUSH", "PUSH_FLT", "PUSH_STR", "LOAD_VAR", "LOAD_ARR", "COERCE_INT",
            "COERCE_FLT", "ABS_INT", "SEQ_STR", "ADD", "SUB", "MUL", "DIV",
            "MOD", "EQ", "NE", "LT", "LE", "GT", "GE", "CONCAT",
            "INPUT_INT", "INPUT_FLT", "INPUT_STR", "CALL", "CALL_FUNC"}

Pops(o) == IF o.op \in PopOne THEN 1
           ELSE IF o.op \in PopTwo THEN 2
           ELSE IF o.op \in PopArgs THEN o.n ELSE 0
Pushes(o) == IF o.op \in PushOne THEN 1 ELSE 0

(* TbcWriter::op, with the verifier's verdict on the opcode.                *)
Put(c, o) ==
    [c EXCEPT !.code = Append(@, o),
              !.depth = @ - Pops(o) + Pushes(o),
              !.stored = IF o.op = "STORE_VAR" /\ o.temp # NoValue
                         THEN @ \cup {o.temp} ELSE @,
              !.faulty = \/ @
                         \/ Pops(o) > c.depth
                         \/ /\ o.op = "LOAD_VAR"
                            /\ o.temp # NoValue
                            /\ o.temp \notin c.stored]

(* A loop over `ops` of writer calls that together pop and push the given   *)
(* numbers of cells and load no temporary outside `temps`.                  *)
PutAll(c, ops, temps, pops, pushes) ==
    [c EXCEPT !.code = @ \o ops,
              !.depth = @ - pops + pushes,
              !.faulty = @ \/ pops > c.depth \/ ~(temps \subseteq c.stored)]

Fail(c) == [c EXCEPT !.failed = TRUE]
Top(c, v) == [c EXCEPT !.top = v]

Context(f, depth) ==
    [fn |-> f, top |-> NoValue, spilled |-> {}, failed |-> FALSE,
     code |-> <<>>, depth |-> depth, stored |-> {}, faulty |-> FALSE]

---------------------------------------------------------------------------
(* Stack discipline helpers.                                               *)

(* Mutant of SpillStackTop: the stored value is not remembered.             *)
ForgetfulSpill(c) ==
    IF c.top = NoValue THEN c
    ELSE [Put(c, StoreTemp(c.top)) EXCEPT !.top = NoValue]

SpillStackTop(c) ==
    IF c.top = NoValue
    THEN c
    ELSE [Put(c, StoreTemp(c.top)) EXCEPT !.spilled = @ \cup {c.top},
                                          !.top = NoValue]

LoadSpilled(c, v) == Top(Put(c, LoadTemp(v)), v)

EnsureOnTop(c, v) ==
    IF c.top # NoValue /\ c.top = v
    THEN c
    ELSE LET s == SpillStackTop(c)
         IN  IF v \in s.spilled THEN LoadSpilled(s, v) ELSE Fail(s)

---------------------------------------------------------------------------
(* One operator per emission function; `i` is an instruction of Ir.         *)

BinaryOpcode ==
    [Add |-> "ADD", Sub |-> "SUB", Mul |-> "MUL", Div |-> "DIV", Mod |-> "MOD",
     And |-> "MUL", CmpEq |-> "EQ", CmpNe |-> "NE", CmpLt |-> "LT",
     CmpLe |-> "LE", CmpGt |-> "GT", CmpGe |-> "GE"]

UnaryOpcode == [ConvertF64 |-> "COERCE_FLT", ConvertI32 |-> "COERCE_INT",
                Abs |-> "ABS_INT"]

(* A character is pushed as its code; `n` numbers the text of a string.     *)
ConstOpcode == [ConstI32 |-> "PUSH", ConstF64 |-> "PUSH_FLT", ConstBool |-> "PUSH",
                ConstChar |-> "PUSH", ConstString |-> "PUSH_STR"]

(* Mutant of EmitBinary: the right operand is not loaded.                   *)
OneOperandBinary(c, opcode, left, right, res) ==
    LET s == SpillStackTop(c)
    IN  IF {left, right} \subseteq s.spilled
        THEN Top(Put(Put(s, LoadTemp(left)), Opcode(opcode, NoName, 0)), res)
        ELSE Fail(s)

EmitBinary(c, opcode, left, right, res) ==
    LET s == SpillStackTop(c)
    IN  IF {left, right} \subseteq s.spilled
        THEN Top(Put(Put(Put(s, LoadTemp(left)), LoadTemp(right)),
                     Opcode(opcode, NoName, 0)), res)
        ELSE Fail(s)

EmitUnaryNeg(c, operand, res) ==
    LET s == SpillStackTop(c)
    IN  IF operand \in s.spilled
        THEN Top(Put(Put(Put(s, PushInt(0)), LoadTemp(operand)),
                     Opcode("SUB", NoName, 0)), res)
        ELSE Fail(s)

EmitUnaryNot(c, operand, res) ==
    LET s == SpillStackTop(c)
    IN  IF operand \in s.spilled
        THEN Top(Put(Put(Put(s, LoadTemp(operand)), PushInt(0)),
                     Opcode("EQ", NoName, 0)), res)
        ELSE Fail(s)

(* emitConvertF64, emitConvertI32, emitAbsInt and the one-argument runtime  *)
(* functions: the operand is brought to the top and replaced.               *)
EmitUnary(c, o, operand, res) == Top(Put(EnsureOnTop(c, operand), o), res)

(* Mutant of EmitOr: the sum is reloaded without having been spilled.       *)
UnspilledOr(c, left, right, res) ==
    LET s == EmitBinary(c, "ADD", left, right, res)
    IN  Top(Put(Put(Put(s, LoadTemp(res)), PushInt(0)), Opcode("NE", NoName, 0)),
            res)

EmitOr(c, left, right, res) ==
    LET s == SpillStackTop(EmitBinary(c, "ADD", left, right, res))
    IN  Top(Put(Put(Put(s, LoadTemp(res)), PushInt(0)), Opcode("NE", NoName, 0)),
            res)

EmitConst(c, opcode, n, res) ==
    Top(Put(SpillStackTop(c), Opcode(opcode, NoName, n)), res)

EmitLoadLocal(c, slot, res) == Top(Put(SpillStackTop(c), LoadVar(slot)), res)

EmitStoreLocal(c, slot, value) ==
    Top(Put(EnsureOnTop(c, value), StoreVar(slot)), NoValue)

EmitCopy(c, value, res) == Top(EnsureOnTop(c, value), res)

(* Mutant of EmitVmIndex: the least low bound is not treated apart.         *)
PlainVmIndex(c, index, low) ==
    LET i == Put(c, LoadTemp(index))
    IN  IF low = 1 THEN i
        ELSE Put(Put(i, PushInt(low - 1)), Opcode("SUB", NoName, 0))

(* vmIndex = pascalIndex - (low - 1), without pushing a literal the VM      *)
(* cannot read.                                                             *)
EmitVmIndex(c, index, low) ==
    LET i == Put(c, LoadTemp(index))
    IN  IF low = 1 THEN i
        ELSE IF low - 1 < MinInt
        THEN Put(Put(Put(Put(i, PushInt(low)), Opcode("SUB", NoName, 0)),
                     PushInt(1)), Opcode("ADD", NoName, 0))
        ELSE Put(Put(i, PushInt(low - 1)), Opcode("SUB", NoName, 0))

ZeroOpcode(type) == IF type = "F64" THEN "PUSH_FLT" ELSE "PUSH"

(* DIM_ARRAY makes an array of empty strings, others are filled with zeros. *)
EmitDimArray(c, slot, element, size) ==
    LET s == SpillStackTop(c)
        new == Put(Put(s, PushInt(size)), Opcode("DIM_ARRAY", slot, 0))
    IN  IF size < 1 THEN Fail(s)
        ELSE IF element = "StringRef" THEN new
        ELSE Put(Put(new, Opcode(ZeroOpcode(element), NoName, 0)),
                 Opcode("MAT_INIT", slot, 0))

EmitLoadIndex(c, slot, index, low, res) ==
    LET s == SpillStackTop(c)
    IN  IF index \in s.spilled
        THEN Top(Put(EmitVmIndex(s, index, low), Opcode("LOAD_ARR", slot, 0)),
                 res)
        ELSE Fail(s)

EmitStoreIndex(c, slot, index, low, value) ==
    LET s == SpillStackTop(c)
    IN  IF {value, index} \subseteq s.spilled
        THEN Top(Put(EmitVmIndex(Put(s, LoadTemp(value)), index, low),
                     Opcode("STORE_ARR", slot, 0)), NoValue)
        ELSE Fail(s)

MatCopy(dst, src) == [Opcode("MAT_COPY", dst, 0) EXCEPT !.src = src]

EmitArrayCopy(c, dst, src) == Put(c, MatCopy(dst, src))

---------------------------------------------------------------------------
(* Calls.                                                                  *)

Members(args) == {args[k] : k \in DOMAIN args}

LoadArgs(c, args) ==
    PutAll(c, [k \in DOMAIN args |-> LoadTemp(args[k])], Members(args),
           0, Len(args))

PrintOpcode(type) ==
    Opcode(IF type = "Char" THEN "PRINT_CHAR" ELSE "PRINT_VAL", NoName, 0)

(* Each argument is printed from the top of the stack, a character as its   *)
(* glyph.  Only the first can still be there; a later one is reloaded.      *)
EmitWrite(c, args, types) ==
    IF args = <<>>
    THEN c
    ELSE LET first == Top(Put(EnsureOnTop(c, Head(args)), PrintOpcode(types[1])), NoValue)
             rest == Tail(args)
         IN  IF Members(rest) \subseteq first.spilled
             THEN PutAll(first,
                         [k \in 1..2 * Len(rest) |->
                              IF k % 2 = 0 THEN PrintOpcode(types[1 + k \div 2])
                              ELSE LoadTemp(rest[(k + 1) \div 2])],
                         Members(rest), 0, 0)
             ELSE Fail(first)

HostFsFuncs == {"hostfs.openRead", "hostfs.openWrite", "hostfs.read",
                "hostfs.write", "hostfs.close"}
InputOpcode == [I32 |-> "INPUT_INT", Bool |-> "INPUT_INT", F64 |-> "INPUT_FLT",
                StringRef |-> "INPUT_STR", Char |-> "INPUT_STR"]
UnaryFuncs == {"sqrt", "sin", "cos", "arctan", "ln", "exp", "basic.str",
               "basic.len"}

EmitCallRuntime(c, i) ==
    LET s == SpillStackTop(c)
    IN  CASE i.arg = "write" -> EmitWrite(c, i.args, i.types)
          [] i.arg = "writeln" ->
               Put(EmitWrite(c, i.args, i.types), Opcode("PRINT_EOL", NoName, 0))
          [] i.arg \in {"read", "readln"} ->
               IF i.type \in DOMAIN InputOpcode
               THEN Top(Put(s, Opcode(InputOpcode[i.type], NoName, 0)), i.res)
               ELSE Fail(s)
          [] i.arg \in UnaryFuncs ->
               EmitUnary(c, Opcode("CALL_FUNC", i.arg, 1), i.args[1], i.res)
          [] i.arg = "coerce.int" ->
               EmitUnary(c, Opcode("COERCE_INT", NoName, 0), i.args[1], i.res)
          [] i.arg = "coerce.flt" ->
               EmitUnary(c, Opcode("COERCE_FLT", NoName, 0), i.args[1], i.res)
          [] i.arg = "str.seq" ->
               EmitUnary(c, Opcode("SEQ_STR", NoName, 0), i.args[1], i.res)
          [] i.arg \in HostFsFuncs ->
               IF Members(i.args) \subseteq s.spilled
               THEN Top(Put(LoadArgs(s, i.args),
                            Opcode("CALL_FUNC", i.arg, Len(i.args))), i.res)
               ELSE Fail(s)
          [] i.arg = "str.concat" ->
               Top(Put(Put(Put(s, LoadTemp(i.args[1])), LoadTemp(i.args[2])),
                       Opcode("CONCAT", NoName, 0)), i.res)
          [] i.arg = "str.fromByte" ->
               Top(Put(Put(Put(Put(s, LoadTemp(i.args[1])), PushInt(1)),
                           Opcode("ADD", NoName, 0)),
                       Opcode("LOAD_ARR", "__apollo$chr", 0)), i.res)
          [] OTHER -> Fail(c)

(* PUSH size, DIM_ARRAY dst, PUSH 0, MAT_INIT dst, MAT_COPY dst|src, as one *)
(* opcode: the five leave the operand stack as they found it.  Filling an   *)
(* array of reals with PUSH_FLT 0.0 instead makes no difference here: the   *)
(* copy overwrites every element.                                           *)
BindArray(m) ==
    [Opcode("BIND_ARRAY", m.dst, m.size) EXCEPT !.src = m.src]

(* Mutant of EmitUserCall: the result stays on the stack.                   *)
UnspilledUserCall(c, i) ==
    LET s == SpillStackTop(c)
        p == LoadArgs(s, i.args)
    IN  IF ~(Members(i.args) \subseteq s.spilled) THEN Fail(s)
        ELSE IF i.res = NoValue
        THEN Put(p, Opcode("CALLVOID", i.arg, Len(i.args)))
        ELSE Put(p, Opcode("CALL", i.arg, Len(i.args)))

(* Dimension, clear and fill each array formal, push the scalar arguments   *)
(* left to right, call, and spill the result.                               *)
EmitUserCall(c, i) ==
    LET s == SpillStackTop(c)
        copies == [k \in DOMAIN i.mats |-> BindArray(i.mats[k])]
    IN  IF /\ \A k \in DOMAIN i.mats : i.mats[k].size >= 1
           /\ Members(i.args) \subseteq s.spilled
        THEN LET p == LoadArgs(PutAll(s, copies, {}, 0, 0), i.args)
             IN  IF i.res = NoValue
                 THEN Put(p, Opcode("CALLVOID", i.arg, Len(i.args)))
                 ELSE SpillStackTop(
                          Top(Put(p, Opcode("CALL", i.arg, Len(i.args))),
                              i.res))
        ELSE Fail(s)

EmitInstr(c, i) ==
    IF c.failed THEN c
    ELSE CASE i.op \in DOMAIN ConstOpcode ->
                SpillStackTop(EmitConst(c, ConstOpcode[i.op], i.n, i.res))
           [] i.op = "LoadLocal" ->
                SpillStackTop(EmitLoadLocal(c, i.arg, i.res))
           [] i.op = "StoreLocal" -> EmitStoreLocal(c, i.arg, i.b)
           [] i.op \in DOMAIN BinaryOpcode ->
                SpillStackTop(EmitBinary(c, BinaryOpcode[i.op], i.a, i.b, i.res))
           [] i.op \in DOMAIN UnaryOpcode ->
                SpillStackTop(EmitUnary(c, Opcode(UnaryOpcode[i.op], NoName, 0),
                                        i.a, i.res))
           [] i.op = "Neg" -> SpillStackTop(EmitUnaryNeg(c, i.a, i.res))
           [] i.op = "Not" -> SpillStackTop(EmitUnaryNot(c, i.a, i.res))
           [] i.op = "Or" -> SpillStackTop(EmitOr(c, i.a, i.b, i.res))
           [] i.op = "Copy" -> SpillStackTop(EmitCopy(c, i.a, i.res))
           [] i.op = "DimArray" -> EmitDimArray(c, i.arg, i.type, i.n)
           [] i.op = "ArrayCopy" -> EmitArrayCopy(c, i.arg, i.src)
           [] i.op = "LoadIndex" ->
                SpillStackTop(EmitLoadIndex(c, i.arg, i.b, i.n, i.res))
           [] i.op = "StoreIndex" ->
                EmitStoreIndex(c, i.arg, i.args[1], i.n, i.b)
           [] i.op = "CallRuntime" ->
                LET r == EmitCallRuntime(c, i)
                IN  IF ProducesValue(i) THEN SpillStackTop(r) ELSE r
           [] i.op = "Call" -> EmitUserCall(c, i)

---------------------------------------------------------------------------
(* Blocks and terminators.                                                  *)

(* Mutants of EmitParamPrologue: the last parameter is forgotten, and the   *)
(* arguments are stored in the order they were pushed.                      *)
ShortPrologue(c, scalars) ==
    IF scalars = <<>> THEN c
    ELSE PutAll(c, [k \in 1..Len(scalars) - 1 |->
                        StoreVar(scalars[Len(scalars) + 1 - k])],
                {}, Len(scalars) - 1, 0)
ForwardPrologue(c, scalars) ==
    PutAll(c, [k \in DOMAIN scalars |-> StoreVar(scalars[k])],
           {}, Len(scalars), 0)

(* Scalar parameters are popped in reverse: the last argument is on top.    *)
EmitParamPrologue(c, scalars) ==
    PutAll(c, [k \in DOMAIN scalars |->
                   StoreVar(scalars[Len(scalars) + 1 - k])],
           {}, Len(scalars), 0)

(* The verifier restarts at a label: the stack holds `depth` cells there.   *)
BeginBlock(c, label, depth) ==
    [Top(Put(c, Opcode("LABEL", label, 0)), NoValue) EXCEPT !.depth = depth]

EmitTerminator(c, term) ==
    CASE c.failed -> c
      [] ~c.failed /\ term.kind = "Branch" ->
           Put(SpillStackTop(c), Opcode("JUMP", term.target, 0))
      [] ~c.failed /\ term.kind = "BranchIf" ->
           IF term.value = NoValue
           THEN Fail(c)
           ELSE Put(Top(Put(EnsureOnTop(c, term.value),
                            Opcode("JZ", term.falseTarget, 0)), NoValue),
                    Opcode("JUMP", term.target, 0))
      [] ~c.failed /\ term.kind = "Return" ->
           IF c.fn = "main"
           THEN Put(SpillStackTop(c), Opcode("HALT", NoName, 0))
           ELSE IF term.value # NoValue
           THEN Put(Top(EnsureOnTop(c, term.value), NoValue),
                    Opcode("RETURN", NoName, 0))
           ELSE Put(SpillStackTop(c), Opcode("RETURN", NoName, 0))
============================================================================
