------------------------------ MODULE GeminiVM ------------------------------
(***************************************************************************)
(* The Gemini VM, as far as the opcodes that Emit.cpp writes rely on it.   *)
(* It is not part of this repository: each action is what the emitter      *)
(* expects of the opcode it writes, and docs/for-gemini describes.         *)
(*                                                                         *)
(* Variables and arrays live in two global maps; a call keeps nothing but  *)
(* the place to return to.  The model also numbers the activations, so     *)
(* that a variable remembers which one wrote it.                           *)
(***************************************************************************)
EXTENDS Numbers, Sequences

VARIABLES code,      \* the loaded program
          pc,        \* the opcode to execute next
          stack,     \* the operand stack, its top last
          frames,    \* for every active call: where it returns to, its number
                     \* and the height of the stack under its arguments
          calls,     \* the calls made so far
          memory,    \* variables: name -> [val, by]
          arrays,    \* arrays: name -> sequence of values
          input,     \* what is left to read
          output,    \* what has been printed
          status     \* "running", or why the machine does not run

machine == <<code, pc, stack, frames, calls, memory, arrays, input, output, status>>

EmptyMachine ==
    /\ pc = 0 /\ stack = <<>> /\ calls = 0
    /\ frames = <<[returnTo |-> 0, number |-> 0, base |-> 0]>>
    /\ memory = <<>> /\ arrays = <<>> /\ output = <<>>

Current == code[pc]
Frame == frames[Len(frames)]
Height == Len(stack)
TopOf(k) == stack[Height - k]          \* k cells below the top
Dropped(k) == SubSeq(stack, 1, Height - k)
Replacing(k, v) == Append(Dropped(k), v)
Updated(map, name, v) ==
    [x \in DOMAIN map \cup {name} |-> IF x = name THEN v ELSE map[x]]

(* The opcode that follows the label.                                       *)
Target(label) ==
    CHOOSE k \in DOMAIN code : code[k].op = "LABEL" /\ code[k].arg = label

---------------------------------------------------------------------------
(* Arithmetic takes its operands' types from the operands: integer when     *)
(* both are.  MOD knows no other.                                           *)
ArithmeticOps == {"ADD", "SUB", "MUL", "DIV", "MOD"}
CompareOps == {"EQ", "NE", "LT", "LE", "GT", "GE"}

Arithmetic(op, l, r) ==
    LET a == Quarters(l)
        b == Quarters(r)
    IN  IF op = "MOD" \/ (l.t = "int" /\ r.t = "int")
        THEN Whole(CASE op = "ADD" -> l.n + r.n
                     [] op = "SUB" -> l.n - r.n
                     [] op = "MUL" -> l.n * r.n
                     [] op = "DIV" -> Quotient(l.n, r.n)
                     [] op = "MOD" -> Remainder(l.n, r.n))
        ELSE Real(CASE op = "ADD" -> a + b
                    [] op = "SUB" -> a - b
                    [] op = "MUL" -> Product(a, b)
                    [] op = "DIV" -> Ratio(a, b))

Comparison(op, l, r) ==
    LET a == Quarters(l)
        b == Quarters(r)
    IN  Truth(\/ op = "EQ" /\ a = b
              \/ op = "NE" /\ a # b
              \/ op = "LT" /\ a < b
              \/ op = "LE" /\ a <= b
              \/ op = "GT" /\ a > b
              \/ op = "GE" /\ a >= b)

Converted(op, v) ==
    CASE op = "COERCE_INT" -> Whole(Quotient(Quarters(v), 4))
      [] op = "COERCE_FLT" -> Widen(v)
      [] op = "ABS_INT" -> [v EXCEPT !.n = Magnitude(@)]
      [] op = "CALL_FUNC" -> Real(SquareRoot(Quarters(v)))   \* sqrt alone

(* The machine stops with a message: an index out of range, a division by   *)
(* zero, a variable or an array that does not exist.                        *)
Traps ==
    \/ Current.op \in {"DIV", "MOD"} /\ TopOf(0).n = 0
    \/ Current.op = "LOAD_VAR" /\ Current.arg \notin DOMAIN memory
    \/ /\ Current.op \in {"LOAD_ARR", "STORE_ARR"}
       /\ \/ Current.arg \notin DOMAIN arrays
          \/ TopOf(0).n \notin DOMAIN arrays[Current.arg]
    \/ /\ Current.op = "MAT_COPY"
       /\ ~({Current.arg, Current.src} \subseteq DOMAIN arrays)

---------------------------------------------------------------------------
Running(ops) == status = "running" /\ Current.op \in ops
Continue == pc' = pc + 1 /\ UNCHANGED <<code, status>>
OnlyStack == UNCHANGED <<frames, calls, memory, arrays, input, output>>

Push ==
    /\ Running({"PUSH", "PUSH_FLT", "PUSH_STR"})
    /\ stack' = Append(stack, CASE Current.op = "PUSH" -> Whole(Current.n)
                                [] Current.op = "PUSH_FLT" -> Real(Current.n)
                                [] Current.op = "PUSH_STR" -> Text(Current.n))
    /\ Continue /\ OnlyStack

LoadVar ==
    /\ Running({"LOAD_VAR"}) /\ ~Traps
    /\ stack' = Append(stack, memory[Current.arg].val)
    /\ Continue /\ OnlyStack

StoreVar ==
    /\ Running({"STORE_VAR"})
    /\ memory' = Updated(memory, Current.arg, [val |-> TopOf(0), by |-> Frame.number])
    /\ stack' = Dropped(1)
    /\ Continue /\ UNCHANGED <<frames, calls, arrays, input, output>>

BinaryOp ==
    /\ Running(ArithmeticOps \cup CompareOps) /\ ~Traps
    /\ stack' = Replacing(2, IF Current.op \in CompareOps
                             THEN Comparison(Current.op, TopOf(1), TopOf(0))
                             ELSE Arithmetic(Current.op, TopOf(1), TopOf(0)))
    /\ Continue /\ OnlyStack

UnaryOp ==
    /\ Running({"COERCE_INT", "COERCE_FLT", "ABS_INT", "CALL_FUNC"})
    /\ stack' = Replacing(1, Converted(Current.op, TopOf(0)))
    /\ Continue /\ OnlyStack

PassLabel ==
    /\ Running({"LABEL"})
    /\ Continue /\ OnlyStack /\ UNCHANGED stack

Jump ==
    /\ Running({"JUMP"})
    /\ pc' = Target(Current.arg)
    /\ OnlyStack /\ UNCHANGED <<code, status, stack>>

JumpIfZero ==
    /\ Running({"JZ"})
    /\ pc' = IF Holds(TopOf(0)) THEN pc + 1 ELSE Target(Current.arg)
    /\ stack' = Dropped(1)
    /\ OnlyStack /\ UNCHANGED <<code, status>>

CallLabel ==
    /\ Running({"CALL", "CALLVOID"})
    /\ calls' = calls + 1
    /\ frames' = Append(frames, [returnTo |-> pc + 1, number |-> calls + 1,
                                 base |-> Height - Current.n])
    /\ pc' = Target(Current.arg)
    /\ UNCHANGED <<code, status, stack, memory, arrays, input, output>>

ReturnFromCall ==
    /\ Running({"RETURN"})
    /\ pc' = Frame.returnTo
    /\ frames' = SubSeq(frames, 1, Len(frames) - 1)
    /\ UNCHANGED <<code, status, stack, calls, memory, arrays, input, output>>

(* A character is a code on the stack; PRINT_CHAR shows its glyph.          *)
PrintTop ==
    /\ Running({"PRINT_VAL", "PRINT_CHAR", "PRINT_EOL"})
    /\ output' = Append(output, CASE Current.op = "PRINT_VAL" -> TopOf(0)
                                  [] Current.op = "PRINT_CHAR" -> Glyph(TopOf(0).n)
                                  [] Current.op = "PRINT_EOL" -> EndOfLine)
    /\ stack' = IF Current.op = "PRINT_EOL" THEN stack ELSE Dropped(1)
    /\ Continue /\ UNCHANGED <<frames, calls, memory, arrays, input>>

Input ==
    /\ Running({"INPUT_INT", "INPUT_FLT", "INPUT_STR"}) /\ input # <<>>
    /\ stack' = Append(stack, CASE Current.op = "INPUT_INT" -> Head(input)
                                [] Current.op = "INPUT_FLT" -> Widen(Head(input))
                                [] Current.op = "INPUT_STR" -> Text(Head(input).n))
    /\ input' = Tail(input)
    /\ Continue /\ UNCHANGED <<frames, calls, memory, arrays, output>>

(* DIM_ARRAY makes a new array, MAT_INIT fills one, MAT_COPY overwrites one.*)
SetArray ==
    /\ Running({"DIM_ARRAY", "MAT_INIT", "MAT_COPY"}) /\ ~Traps
    /\ arrays' = Updated(arrays, Current.arg,
           CASE Current.op = "DIM_ARRAY" -> [k \in 1..TopOf(0).n |-> EmptyString]
             [] Current.op = "MAT_INIT" ->
                  [k \in DOMAIN arrays[Current.arg] |-> TopOf(0)]
             [] Current.op = "MAT_COPY" -> arrays[Current.src])
    /\ stack' = IF Current.op = "MAT_COPY" THEN stack ELSE Dropped(1)
    /\ Continue /\ UNCHANGED <<frames, calls, memory, input, output>>

LoadArr ==
    /\ Running({"LOAD_ARR"}) /\ ~Traps
    /\ stack' = Replacing(1, arrays[Current.arg][TopOf(0).n])
    /\ Continue /\ OnlyStack

StoreArr ==
    /\ Running({"STORE_ARR"}) /\ ~Traps
    /\ arrays' = [arrays EXCEPT ![Current.arg][TopOf(0).n] = TopOf(1)]
    /\ stack' = Dropped(2)
    /\ Continue /\ UNCHANGED <<frames, calls, memory, input, output>>

Halt ==
    /\ Running({"HALT"})
    /\ status' = "halted"
    /\ UNCHANGED <<code, pc, stack, frames, calls, memory, arrays, input, output>>

Trap ==
    /\ status = "running" /\ Traps
    /\ status' = "trapped"
    /\ UNCHANGED <<code, pc, stack, frames, calls, memory, arrays, input, output>>

Step ==
    \/ Push \/ LoadVar \/ StoreVar \/ BinaryOp \/ UnaryOp
    \/ PassLabel \/ Jump \/ JumpIfZero \/ CallLabel \/ ReturnFromCall
    \/ PrintTop \/ Input \/ SetArray \/ LoadArr \/ StoreArr \/ Halt \/ Trap
=============================================================================
