-------------------------------- MODULE Emit --------------------------------
(***************************************************************************)
(* emitFunction (src/codegen/Emit.cpp): one IR function turned into        *)
(* Gemini-VM opcodes, block after block, instruction after instruction.    *)
(*                                                                         *)
(* The IR is chosen as emission proceeds: each action emits one            *)
(* instruction (or the label or terminator of a block) whose operands are  *)
(* values already defined earlier in layout order, which is what           *)
(* Lower.cpp produces.  The question is whether the emitter's belief about *)
(* the run-time operand stack and the temporary slots (top, spilled)       *)
(* agrees with what the opcodes it wrote do (depth, stored, faulty).       *)
(***************************************************************************)
EXTENDS EmitOps

CONSTANTS MaxInt,    \* the greatest integer PUSH_INT reads: INT32_MAX
          Literals,  \* integer constants of the IR: small ones, and what the
                     \* program wrote, which nothing compares with MinInt..MaxInt
          FnNames,   \* the names an IR function may have
          Slots,     \* the locals and parameters it may name
          Lows,      \* array low bounds
          Sizes,     \* array sizes
          Callees,   \* user procedures and functions
          MaxArgs,   \* bound on the arguments of a call and on the parameters
          MaxTemps,  \* bound on the values the function defines
          MaxCode    \* no instruction begins at or beyond this code length

(* Bounds and sizes of arrays are in range because analysis refuses the     *)
(* array types where they are not (Analyse.cpp:278).                        *)
ASSUME EmitAssumption ==
    /\ MaxInt \in Nat \ {0} /\ MinInt < 0
    /\ Literals \subseteq Int
    /\ Lows \subseteq MinInt..MaxInt
    /\ Sizes \subseteq 1..MaxInt
    /\ MaxArgs \in Nat /\ MaxTemps \in Nat /\ MaxCode \in Nat

VARIABLES c,      \* the emission context
          next,   \* Function::nextTemp: the values defined so far are 0..next-1
          phase   \* what emitBasicBlock emits next

vars == <<c, next, phase>>

Phases == {"entry", "body", "boundary", "done"}

Values == 0..next - 1
ArgLists == UNION {[1..n -> Values] : n \in 0..MaxArgs}
Room == next < MaxTemps /\ Len(c.code) < MaxCode

---------------------------------------------------------------------------
Init ==
    /\ \E f \in FnNames : c = Context(f, 0)
    /\ next = 0
    /\ phase = "entry"

(* The entry block: its label, where a call has left one cell for every     *)
(* scalar parameter, and the prologue that stores them.                     *)
EnterFunction ==
    /\ phase = "entry"
    /\ \E n \in 0..MaxArgs, slot \in Slots :
         /\ c.fn = "main" => n = 0
         /\ c' = EmitParamPrologue(BeginBlock(c, c.fn, n), [k \in 1..n |-> slot])
    /\ phase' = "body"
    /\ UNCHANGED next

EnterBlock ==
    /\ phase = "boundary"
    /\ Len(c.code) < MaxCode
    /\ c' = BeginBlock(c, "block", 0)
    /\ phase' = "body"
    /\ UNCHANGED next

Leave ==
    /\ phase = "boundary"
    /\ phase' = "done"
    /\ UNCHANGED <<c, next>>

(* emitInstr on an instruction that defines the next value, or none.        *)
Define(i) ==
    /\ phase = "body"
    /\ Room
    /\ c' = EmitInstr(c, [i EXCEPT !.res = next])
    /\ next' = next + 1
    /\ UNCHANGED phase

Effect(i) ==
    /\ phase = "body"
    /\ Len(c.code) < MaxCode
    /\ c' = EmitInstr(c, i)
    /\ UNCHANGED <<next, phase>>

---------------------------------------------------------------------------
Const == \E op \in DOMAIN ConstOpcode, n \in Literals :
    Define([NoInstr EXCEPT !.op = op, !.n = n])

LoadLocal == \E slot \in Slots :
    Define([NoInstr EXCEPT !.op = "LoadLocal", !.arg = slot])

StoreLocal == \E slot \in Slots, v \in Values :
    Effect([NoInstr EXCEPT !.op = "StoreLocal", !.arg = slot, !.b = v])

Binary == \E op \in {"Add", "Mul", "Mod", "CmpLe", "And", "Or"},
             l, r \in Values :
    Define([NoInstr EXCEPT !.op = op, !.a = l, !.b = r])

Unary == \E op \in {"Neg", "Not", "ConvertF64", "Abs", "Copy"}, v \in Values :
    Define([NoInstr EXCEPT !.op = op, !.a = v])

DimArray == \E slot \in Slots, type \in {"I32", "F64", "StringRef"}, size \in Sizes :
    Effect([NoInstr EXCEPT !.op = "DimArray", !.arg = slot, !.type = type,
                           !.n = size])

ArrayCopy == \E dst, src \in Slots :
    Effect([NoInstr EXCEPT !.op = "ArrayCopy", !.arg = dst, !.src = src])

LoadIndex == \E slot \in Slots, low \in Lows, v \in Values :
    Define([NoInstr EXCEPT !.op = "LoadIndex", !.arg = slot, !.b = v, !.n = low])

StoreIndex == \E slot \in Slots, low \in Lows, index, v \in Values :
    Effect([NoInstr EXCEPT !.op = "StoreIndex", !.arg = slot, !.b = v,
                           !.args = <<index>>, !.n = low])

Write == \E name \in {"write", "writeln"}, args \in ArgLists :
    \E types \in [DOMAIN args -> {"I32", "Char"}] :
        Effect([NoInstr EXCEPT !.op = "CallRuntime", !.arg = name, !.args = args,
                               !.types = types])

Read == \E type \in {"I32", "F64", "Char"} :
    Define([NoInstr EXCEPT !.op = "CallRuntime", !.arg = "read", !.type = type])

RuntimeUnary == \E name \in {"sqrt", "coerce.int", "str.seq", "str.fromByte"},
                   v \in Values :
    Define([NoInstr EXCEPT !.op = "CallRuntime", !.arg = name, !.args = <<v>>])

RuntimeBinary == \E name \in {"hostfs.read", "str.concat"}, l, r \in Values :
    Define([NoInstr EXCEPT !.op = "CallRuntime", !.arg = name,
                           !.args = <<l, r>>])

UserCall == \E callee \in Callees, args \in ArgLists,
               dst, src \in Slots, size \in Sizes, copies \in 0..1 :
    LET i == [NoInstr EXCEPT !.op = "Call", !.arg = callee, !.args = args,
                  !.mats = [k \in 1..copies |->
                               [dst |-> dst, src |-> src, size |-> size]]]
    IN  Define(i) \/ Effect(i)

---------------------------------------------------------------------------
Terminate(kind, value) ==
    /\ phase = "body"
    /\ c' = EmitTerminator(c, [kind |-> kind, value |-> value,
                               target |-> "block", falseTarget |-> "block"])
    /\ phase' = "boundary"
    /\ UNCHANGED next

Branch == Terminate("Branch", NoValue)
BranchIf == \E v \in Values : Terminate("BranchIf", v)
ReturnVoid == Terminate("Return", NoValue)
ReturnValue == \E v \in Values : c.fn # "main" /\ Terminate("Return", v)

Instruction ==
    \/ Const \/ LoadLocal \/ StoreLocal \/ Binary \/ Unary
    \/ DimArray \/ ArrayCopy \/ LoadIndex \/ StoreIndex
    \/ Write \/ Read \/ RuntimeUnary \/ RuntimeBinary \/ UserCall

Next ==
    \/ EnterFunction \/ EnterBlock \/ Leave
    \/ Instruction
    \/ Branch \/ BranchIf \/ ReturnVoid \/ ReturnValue

Spec == Init /\ [][Next]_vars

---------------------------------------------------------------------------
OpNames == PopOne \cup PopTwo \cup PopArgs \cup PushOne
           \cup {"LABEL", "JUMP", "HALT", "RETURN", "PRINT_EOL", "MAT_COPY",
                 "BIND_ARRAY"}
Names == FnNames \cup Slots \cup Callees \cup UnaryFuncs \cup HostFsFuncs
         \cup {NoName, "block", "__apollo$chr"}

Opcodes == [op : OpNames, arg : Names, src : Names, n : Int, temp : Int]

Contexts == [fn : FnNames, top : Int, spilled : SUBSET Int, failed : BOOLEAN,
             code : Seq(Opcodes), depth : Int, stored : SUBSET Int,
             faulty : BOOLEAN]

(* The emission context (Emit.cpp, EmitCtx) stays a context that names only *)
(* values the function has defined, and the operand stack never has a       *)
(* negative height.                                                         *)
TypeOK ==
    /\ c \in Contexts
    /\ c.top \in Values \cup {NoValue}
    /\ c.spilled \subseteq Values
    /\ c.depth >= 0
    /\ next \in Nat
    /\ phase \in Phases

(* Emission of IR whose operands are defined earlier never reports a        *)
(* codegen diagnostic: no "never spilled" or "unavailable" failure in       *)
(* ensureOnTop, emitBinary and the others.                                  *)
EmitNeverFails == ~c.failed

(* No emitted opcode pops an empty operand stack, and no LOAD_VAR of a      *)
(* temporary precedes every STORE_VAR of it: not even in str.concat and     *)
(* str.fromByte, which load their operands unchecked.                       *)
CodeIsSafe == ~c.faulty

(* Between two IR instructions of a block the operand stack is empty, and a *)
(* block leaves nothing on it but the one cell of a result that RETURN      *)
(* hands to the caller: no value is lost or left behind when control moves. *)
StackDiscipline ==
    phase # "entry" =>
        /\ c.top = NoValue
        /\ \/ c.depth = 0
           \/ /\ phase \in {"boundary", "done"}
              /\ c.depth = 1
              /\ c.code[Len(c.code)].op = "RETURN"

(* The emitter's set of spilled values is exactly what the opcodes have     *)
(* stored, and every value defined so far is in it: any of them can be an   *)
(* operand of any later instruction, of this block or of another.           *)
SpilledAreStored == c.spilled = c.stored /\ c.stored = Values

(* The integers PUSH_INT reads, and those the emitter may push: the         *)
(* constants of the IR are passed on as they are, whatever their size.      *)
Readable == MinInt..MaxInt
Pushable == Literals \cup Readable

(* No PUSH_INT carries an integer of the emitter's own making that the VM   *)
(* cannot read: the zeros and ones of its idioms, an array's size, and      *)
(* low - 1 although low may be the least integer (emitVmIndex).  A constant *)
(* of the IR is pushed unchanged, out of range or not.                      *)
LiteralsFit == \A k \in DOMAIN c.code :
                   c.code[k].op = "PUSH" => c.code[k].n \in Pushable
=============================================================================
