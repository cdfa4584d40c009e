----------------------------- MODULE EmitProofs -----------------------------
(***************************************************************************)
(* Proofs about Emit for every set of names, every bound and every function*)
(* body.  The argument follows the emitter: Stage describes a context in   *)
(* the middle of an instruction, one lemma per writer call or helper moves *)
(* from one stage to the next, and one lemma per IR operation composes     *)
(* them into Stage(c, n, 0, NoValue) -> Stage(c, n or n + 1, 0, NoValue).  *)
(***************************************************************************)
EXTENDS Emit, TLAPS

Replacing == {"ADD", "SUB", "MUL", "DIV", "MOD", "EQ", "NE", "LT", "LE", "GT",
              "GE", "CONCAT"}
Mapping == {"LOAD_ARR", "COERCE_INT", "COERCE_FLT", "ABS_INT", "SEQ_STR"}
Consuming == {"STORE_VAR", "DIM_ARRAY", "MAT_INIT", "PRINT_VAL", "PRINT_CHAR",
              "JZ"}
Inputs == {"INPUT_INT", "INPUT_FLT", "INPUT_STR"}
Producing == {"PUSH", "PUSH_FLT", "PUSH_STR", "LOAD_VAR"} \cup Inputs
Neutral == {"LABEL", "JUMP", "HALT", "RETURN", "PRINT_EOL", "MAT_COPY",
            "BIND_ARRAY"}

GoodOpcodes == {o \in Opcodes : o.op = "PUSH" => o.n \in Pushable}

GoodContexts == [fn : FnNames, top : Int, spilled : SUBSET Int,
                 failed : BOOLEAN, code : Seq(GoodOpcodes), depth : Int,
                 stored : SUBSET Int, faulty : BOOLEAN]

(* Nothing has gone wrong so far; the values 0..n-1 are stored and known to *)
(* be stored; the operand stack holds d cells and its top is believed to    *)
(* be t.                                                                    *)
Stage(x, n, d, t) ==
    /\ x \in GoodContexts
    /\ ~x.failed /\ ~x.faulty
    /\ x.spilled = 0..n - 1 /\ x.stored = 0..n - 1
    /\ x.depth = d
    /\ x.top = t

(* Between two instructions.                                                *)
Clean(x, n) == Stage(x, n, 0, NoValue)

---------------------------------------------------------------------------
(* Opcodes.                                                                 *)

(* The integers emission pushes: those of the idioms, the IR's constants,   *)
(* a size, and low - 1 unless it would be less than MinInt.                 *)
LEMMA SmallPushable == 0 \in Pushable /\ 1 \in Pushable
BY MinIntAssumption, EmitAssumption DEF Pushable, Readable

LEMMA ConstPushable ==
    ASSUME NEW n \in Literals
    PROVE  n \in Int /\ n \in Pushable
BY EmitAssumption DEF Pushable

LEMMA SizePushable ==
    ASSUME NEW size \in 1..MaxInt
    PROVE  size \in Int /\ size \in Pushable
BY MinIntAssumption, EmitAssumption DEF Pushable, Readable

LEMMA LowPushable ==
    ASSUME NEW low \in Readable
    PROVE  /\ low \in Int /\ low \in Pushable
           /\ ~(low - 1 < MinInt) => low - 1 \in Pushable
BY MinIntAssumption, EmitAssumption DEF Pushable, Readable

(* The constructors of opcodes build opcodes, and only PUSH carries a       *)
(* literal that must fit.                                                   *)
LEMMA OpcodeType ==
    ASSUME NEW op \in OpNames, NEW arg \in Names, NEW n \in Int,
           op = "PUSH" => n \in Pushable
    PROVE  Opcode(op, arg, n) \in GoodOpcodes
<1>1. NoName \in Names
  BY DEF Names, NoName
<1>2. Opcode(op, arg, n) \in Opcodes
  BY <1>1 DEF Opcode, Opcodes, NoValue
<1>3. Opcode(op, arg, n).op = op /\ Opcode(op, arg, n).n = n
  BY DEF Opcode
<1> QED
  BY <1>2, <1>3 DEF GoodOpcodes

(* An integer literal that fits makes a good PUSH (emitPushInt).            *)
LEMMA PushIntType ==
    ASSUME NEW n \in Int, n \in Pushable
    PROVE  PushInt(n) \in GoodOpcodes
<1>1. NoName \in Names /\ "PUSH" \in OpNames
  BY DEF Names, NoName, OpNames, PushOne
<1> QED
  BY <1>1, OpcodeType DEF PushInt

(* Storing and loading a temporary are good opcodes.                        *)
LEMMA TempType ==
    ASSUME NEW v \in Int
    PROVE  StoreTemp(v) \in GoodOpcodes /\ LoadTemp(v) \in GoodOpcodes
<1>1. NoName \in Names /\ {"STORE_VAR", "LOAD_VAR"} \subseteq OpNames
  BY DEF Names, NoName, OpNames, PushOne, PopOne
<1>2. StoreTemp(v) \in Opcodes /\ LoadTemp(v) \in Opcodes
  BY <1>1 DEF StoreTemp, LoadTemp, Opcode, Opcodes
<1>3. StoreTemp(v).op = "STORE_VAR" /\ LoadTemp(v).op = "LOAD_VAR"
  BY DEF StoreTemp, LoadTemp, Opcode
<1> QED
  BY <1>2, <1>3 DEF GoodOpcodes

(* Every opcode pops and pushes some whole number of cells.                 *)
LEMMA CellsType ==
    ASSUME NEW o \in GoodOpcodes
    PROVE  Pops(o) \in Int /\ Pushes(o) \in Int
BY DEF Pops, Pushes, GoodOpcodes, Opcodes

(* What TbcWriter::op does to each part of a context.                       *)
LEMMA PutFields ==
    ASSUME NEW x \in GoodContexts, NEW o \in GoodOpcodes
    PROVE  /\ Put(x, o) \in GoodContexts
           /\ Put(x, o).fn = x.fn
           /\ Put(x, o).top = x.top
           /\ Put(x, o).spilled = x.spilled
           /\ Put(x, o).failed <=> x.failed
           /\ Put(x, o).code = Append(x.code, o)
           /\ Put(x, o).depth = x.depth - Pops(o) + Pushes(o)
           /\ Put(x, o).stored = IF o.op = "STORE_VAR" /\ o.temp # NoValue
                                 THEN x.stored \cup {o.temp} ELSE x.stored
           /\ Put(x, o).faulty <=> \/ x.faulty
                                   \/ Pops(o) > x.depth
                                   \/ /\ o.op = "LOAD_VAR"
                                      /\ o.temp # NoValue
                                      /\ o.temp \notin x.stored
<1>1. Pops(o) \in Int /\ Pushes(o) \in Int
  BY CellsType
<1> DEFINE p == Pops(o)
           q == Pushes(o)
           s == IF o.op = "STORE_VAR" /\ o.temp # NoValue
                THEN x.stored \cup {o.temp} ELSE x.stored
<1>2. /\ Append(x.code, o) \in Seq(GoodOpcodes)
      /\ x.depth - p + q \in Int
      /\ s \in SUBSET Int
  BY <1>1 DEF GoodContexts, GoodOpcodes, Opcodes
<1> QED
  BY <1>2 DEF Put, GoodContexts

(* Believing that v is on top changes the belief and nothing else.          *)
LEMMA TopStage ==
    ASSUME NEW x, NEW n \in Nat, NEW d \in Int, NEW t \in Int, NEW v \in Int,
           Stage(x, n, d, t)
    PROVE  Stage(Top(x, v), n, d, v)
BY DEF Top, Stage, GoodContexts

(* An opcode that stores no temporary, and loads none but a stored one,     *)
(* pops and pushes its cells.                                               *)
LEMMA PutStage ==
    ASSUME NEW x, NEW n \in Nat, NEW d \in Int, NEW t \in Int,
           NEW o \in GoodOpcodes, Stage(x, n, d, t), Pops(o) <= d,
           \/ o.temp = NoValue
           \/ o.temp \in 0..n - 1 /\ o.op # "STORE_VAR"
    PROVE  Stage(Put(x, o), n, d - Pops(o) + Pushes(o), t)
<1>1. /\ x \in GoodContexts /\ ~x.failed /\ ~x.faulty /\ x.depth = d
      /\ x.spilled = 0..n - 1 /\ x.stored = 0..n - 1 /\ x.top = t
  BY DEF Stage
<1>2. ~(Pops(o) > x.depth)
  BY <1>1, CellsType
<1>3. ~Put(x, o).faulty
  BY <1>1, <1>2, PutFields
<1>4. Put(x, o).stored = 0..n - 1
  BY <1>1, PutFields
<1> QED
  BY <1>1, <1>3, <1>4, PutFields DEF Stage

(* Loading a stored temporary adds one cell.                                *)
LEMMA LoadStage ==
    ASSUME NEW x, NEW n \in Nat, NEW d \in Nat, NEW e \in Nat,
           NEW t \in Int,
           NEW v \in 0..n - 1, e = d + 1, Stage(x, n, d, t)
    PROVE  Stage(Put(x, LoadTemp(v)), n, e, t)
<1>1. LoadTemp(v) \in GoodOpcodes
  BY TempType
<1>2. /\ Pops(LoadTemp(v)) = 0 /\ Pushes(LoadTemp(v)) = 1
      /\ LoadTemp(v).op = "LOAD_VAR" /\ LoadTemp(v).temp = v
  BY DEF LoadTemp, Opcode, Pops, Pushes, PopOne, PopTwo, PopArgs, PushOne
<1>3. Stage(Put(x, LoadTemp(v)), n, d - 0 + 1, t)
  BY <1>1, <1>2, PutStage
<1>4. d - 0 + 1 = e
  OBVIOUS
<1> QED
  BY <1>3, <1>4

(* Spilling the only cell stores it and empties the stack.                  *)
LEMMA SpillOne ==
    ASSUME NEW x, NEW n \in Nat, NEW m \in Nat, NEW v \in Nat,
           (0..n - 1) \cup {v} = 0..m - 1, Stage(x, n, 1, v)
    PROVE  Stage(SpillStackTop(x), m, 0, NoValue)
<1>1. StoreTemp(v) \in GoodOpcodes
  BY TempType
<1>2. /\ Pops(StoreTemp(v)) = 1 /\ Pushes(StoreTemp(v)) = 0
      /\ StoreTemp(v).op = "STORE_VAR" /\ StoreTemp(v).temp = v
  BY DEF StoreTemp, Opcode, Pops, Pushes, PopOne, PopTwo, PopArgs, PushOne
<1> DEFINE y == Put(x, StoreTemp(v))
<1>0. /\ x \in GoodContexts /\ ~x.failed /\ ~x.faulty /\ x.depth = 1
      /\ x.spilled = 0..n - 1 /\ x.stored = 0..n - 1 /\ x.top = v
  BY DEF Stage
<1>3. /\ y \in GoodContexts /\ (y.failed <=> x.failed)
      /\ y.spilled = x.spilled /\ y.stored = x.stored \cup {v}
      /\ y.depth = x.depth - 1 + 0
      /\ ~y.faulty
  <2>1. v # NoValue /\ ~(1 > x.depth)
    BY <1>0 DEF NoValue
  <2>2. y \in GoodContexts /\ (y.failed <=> x.failed) /\ y.spilled = x.spilled
    BY <1>0, <1>1, PutFields
  <2>3. y.stored = x.stored \cup {v}
    BY <1>0, <1>1, <1>2, <2>1, PutFields
  <2>4. y.depth = x.depth - 1 + 0
    <3>1. y.depth = x.depth - Pops(StoreTemp(v)) + Pushes(StoreTemp(v))
      BY <1>0, <1>1, PutFields
    <3> HIDE DEF y
    <3> QED
      BY <3>1, <1>2
  <2>5. ~y.faulty
    <3>1. y.faulty => x.faulty \/ Pops(StoreTemp(v)) > x.depth
      BY <1>0, <1>1, <1>2, PutFields
    <3> HIDE DEF y
    <3> QED
      BY <3>1, <1>0, <1>2, <2>1
  <2> QED
    BY <2>2, <2>3, <2>4, <2>5
<1>4. SpillStackTop(x) = [y EXCEPT !.spilled = @ \cup {v}, !.top = NoValue]
  BY <1>0 DEF SpillStackTop, NoValue
<1>6. y.depth = 0 /\ ~y.faulty /\ ~y.failed
  BY <1>0, <1>3
<1> DEFINE z == SpillStackTop(x)
<1>7. /\ z \in GoodContexts /\ z.top = NoValue /\ z.spilled = 0..m - 1
      /\ z.stored = 0..m - 1 /\ z.depth = y.depth
      /\ (z.failed <=> y.failed) /\ (z.faulty <=> y.faulty)
  <2> HIDE DEF y
  <2>1. z = [y EXCEPT !.spilled = y.spilled \cup {v}, !.top = -1]
    BY <1>4 DEF NoValue
  <2>2. y.spilled \cup {v} \in SUBSET Int /\ -1 \in Int
    BY <1>0, <1>3
  <2>3. z \in GoodContexts /\ z.top = NoValue
    BY <1>3, <2>1, <2>2 DEF GoodContexts, NoValue
  <2>4. z.spilled = y.spilled \cup {v}
    BY <1>3, <2>1, <2>2 DEF GoodContexts
  <2>5. z.stored = y.stored /\ z.depth = y.depth
    BY <1>3, <2>1, <2>2 DEF GoodContexts
  <2>6. (z.failed <=> y.failed) /\ (z.faulty <=> y.faulty)
    BY <1>3, <2>1, <2>2 DEF GoodContexts
  <2> QED
    BY <1>0, <1>3, <2>3, <2>4, <2>5, <2>6
<1> QED
  BY <1>6, <1>7 DEF Stage

(* Spilling the new value n makes it one of the stored values.              *)
LEMMA SpillStage ==
    ASSUME NEW x, NEW n \in Nat, Stage(x, n, 1, n)
    PROVE  Stage(SpillStackTop(x), n + 1, 0, NoValue)
<1>1. (0..n - 1) \cup {n} = 0..(n + 1) - 1 /\ n + 1 \in Nat
  OBVIOUS
<1> QED
  BY <1>1, SpillOne
---------------------------------------------------------------------------
(* Opcodes by what they do to the operand stack.                            *)

(* The classes above are names of opcodes, and an opcode without a name     *)
(* operand is named.                                                        *)
LEMMA OpNamesTyped ==
    /\ Replacing \cup Mapping \cup Consuming \cup Producing \cup Neutral
         \cup PopArgs \cup {"STORE_ARR"} \subseteq OpNames
    /\ NoName \in Names
BY DEF OpNames, Replacing, Mapping, Consuming, Inputs, Producing, Neutral, PopOne,
       PopTwo, PopArgs, PushOne, Names, NoName

(* Every name an action puts in an opcode is in Names.                      *)
LEMMA NamesUsed ==
    /\ FnNames \subseteq Names /\ Slots \subseteq Names /\ Callees \subseteq Names
    /\ NoName \in Names /\ "block" \in Names
BY DEF Names, NoName

(* What the constructor puts in the fields the verifier reads.              *)
LEMMA OpcodeFields ==
    ASSUME NEW op, NEW arg, NEW n
    PROVE  /\ Opcode(op, arg, n).op = op /\ Opcode(op, arg, n).n = n
           /\ Opcode(op, arg, n).temp = NoValue
BY DEF Opcode

(* PutStage for the opcodes of the constructor Opcode.                      *)
LEMMA CellsStage ==
    ASSUME NEW x, NEW n \in Nat, NEW d \in Int, NEW e \in Int, NEW t \in Int,
           NEW op \in OpNames, NEW arg \in Names, NEW k \in Int,
           op = "PUSH" => k \in Pushable,
           Pops(Opcode(op, arg, k)) <= d,
           e = d - Pops(Opcode(op, arg, k)) + Pushes(Opcode(op, arg, k)),
           Stage(x, n, d, t)
    PROVE  Stage(Put(x, Opcode(op, arg, k)), n, e, t)
<1> DEFINE o == Opcode(op, arg, k)
<1>1. o \in GoodOpcodes /\ o.temp = NoValue
  BY OpcodeType, OpcodeFields
<1>2. Pops(o) <= d /\ e = d - Pops(o) + Pushes(o)
  OBVIOUS
<1> HIDE DEF o
<1>3. Stage(Put(x, o), n, d - Pops(o) + Pushes(o), t)
  BY <1>1, <1>2, PutStage
<1>4. Stage(Put(x, o), n, e, t)
  BY <1>2, <1>3
<1> QED
  BY <1>4 DEF o

(* A two-operand opcode leaves one cell in place of two.                    *)
LEMMA ReplacingStage ==
    ASSUME NEW x, NEW n \in Nat, NEW d \in Nat, NEW e \in Nat,
           NEW t \in Int,
           NEW op \in Replacing, d >= 2, e = d - 1, Stage(x, n, d, t)
    PROVE  Stage(Put(x, Opcode(op, NoName, 0)), n, e, t)
<1>1. Pops(Opcode(op, NoName, 0)) = 2 /\ Pushes(Opcode(op, NoName, 0)) = 1
  BY OpcodeFields DEF Pops, Pushes, PopOne, PopTwo, PushOne, Replacing
<1>2. op \in OpNames /\ op # "PUSH" /\ NoName \in Names
  BY OpNamesTyped DEF Replacing
<1>3. /\ Pops(Opcode(op, NoName, 0)) <= d
      /\ e = d - Pops(Opcode(op, NoName, 0)) + Pushes(Opcode(op, NoName, 0))
  BY <1>1
<1> QED
  BY <1>2, <1>3, CellsStage

(* A one-operand opcode leaves the height as it was.                        *)
LEMMA MappingStage ==
    ASSUME NEW x, NEW n \in Nat, NEW d \in Nat, NEW t \in Int,
           NEW op \in Mapping, NEW arg \in Names, d >= 1, Stage(x, n, d, t)
    PROVE  Stage(Put(x, Opcode(op, arg, 0)), n, d, t)
<1>1. Pops(Opcode(op, arg, 0)) = 1 /\ Pushes(Opcode(op, arg, 0)) = 1
  BY OpcodeFields DEF Pops, Pushes, PopOne, PopTwo, PushOne, Mapping
<1>2. op \in OpNames /\ op # "PUSH"
  BY OpNamesTyped DEF Mapping
<1>3. /\ Pops(Opcode(op, arg, 0)) <= d
      /\ d = d - Pops(Opcode(op, arg, 0)) + Pushes(Opcode(op, arg, 0))
  BY <1>1
<1> QED
  BY <1>2, <1>3, CellsStage

(* A consuming opcode removes one cell.                                     *)
LEMMA ConsumingStage ==
    ASSUME NEW x, NEW n \in Nat, NEW d \in Nat, NEW e \in Nat,
           NEW t \in Int,
           NEW op \in Consuming, NEW arg \in Names, d >= 1, e = d - 1, Stage(x, n, d, t)
    PROVE  Stage(Put(x, Opcode(op, arg, 0)), n, e, t)
<1>1. Pops(Opcode(op, arg, 0)) = 1 /\ Pushes(Opcode(op, arg, 0)) = 0
  BY OpcodeFields DEF Pops, Pushes, PopOne, PushOne, Consuming
<1>2. op \in OpNames /\ op # "PUSH"
  BY OpNamesTyped DEF Consuming
<1>3. /\ Pops(Opcode(op, arg, 0)) <= d
      /\ e = d - Pops(Opcode(op, arg, 0)) + Pushes(Opcode(op, arg, 0))
  BY <1>1
<1> QED
  BY <1>2, <1>3, CellsStage

(* A producing opcode adds one cell; a literal it carries has to fit.       *)
LEMMA ProducingStage ==
    ASSUME NEW x, NEW n \in Nat, NEW d \in Nat, NEW e \in Nat,
           NEW t \in Int,
           NEW op \in Producing, NEW arg \in Names, NEW k \in Int,
           op = "PUSH" => k \in Pushable, e = d + 1, Stage(x, n, d, t)
    PROVE  Stage(Put(x, Opcode(op, arg, k)), n, e, t)
<1>1. Pops(Opcode(op, arg, k)) = 0 /\ Pushes(Opcode(op, arg, k)) = 1
  BY OpcodeFields DEF Pops, Pushes, PopOne, PopTwo, PopArgs, PushOne, Producing,
                      Inputs
<1>2. op \in OpNames
  BY OpNamesTyped
<1>3. /\ Pops(Opcode(op, arg, k)) <= d
      /\ e = d - Pops(Opcode(op, arg, k)) + Pushes(Opcode(op, arg, k))
  BY <1>1
<1> QED
  BY <1>2, <1>3, CellsStage

(* A neutral opcode leaves the height as it was.                            *)
LEMMA NeutralStage ==
    ASSUME NEW x, NEW n \in Nat, NEW d \in Nat, NEW t \in Int,
           NEW op \in Neutral, NEW arg \in Names, Stage(x, n, d, t)
    PROVE  Stage(Put(x, Opcode(op, arg, 0)), n, d, t)
<1>1. Pops(Opcode(op, arg, 0)) = 0 /\ Pushes(Opcode(op, arg, 0)) = 0
  BY OpcodeFields DEF Pops, Pushes, PopOne, PopTwo, PopArgs, PushOne, Neutral
<1>2. op \in OpNames /\ op # "PUSH"
  BY OpNamesTyped DEF Neutral
<1>3. /\ Pops(Opcode(op, arg, 0)) <= d
      /\ d = d - Pops(Opcode(op, arg, 0)) + Pushes(Opcode(op, arg, 0))
  BY <1>1
<1> QED
  BY <1>2, <1>3, CellsStage
---------------------------------------------------------------------------
(* The stack discipline helpers and the emission functions.                 *)

(* What Clean says, and that there is then nothing to spill.                *)
LEMMA CleanFields ==
    ASSUME NEW x, NEW n, Clean(x, n)
    PROVE  /\ x.top = NoValue /\ x.spilled = 0..n - 1 /\ ~x.failed
           /\ x \in GoodContexts /\ SpillStackTop(x) = x
BY DEF Clean, Stage, SpillStackTop

(* The absent value is an integer, as Contexts wants of `top`.              *)
LEMMA NoValueType == NoValue \in Int
BY DEF NoValue

(* A stored value can be loaded on the empty stack.                         *)
LEMMA LoadFirst ==
    ASSUME NEW x, NEW n \in Nat, NEW v \in 0..n - 1, Clean(x, n)
    PROVE  Stage(Put(x, LoadTemp(v)), n, 1, NoValue)
<1>1. Stage(x, n, 0, NoValue) /\ 1 = 0 + 1
  BY DEF Clean
<1> QED
  BY <1>1, NoValueType, LoadStage

(* Every stored value can be brought to the top of an empty stack.          *)
LEMMA EnsureStage ==
    ASSUME NEW x, NEW n \in Nat, NEW v \in 0..n - 1, Clean(x, n)
    PROVE  Stage(EnsureOnTop(x, v), n, 1, v)
<1>1. EnsureOnTop(x, v) = LoadSpilled(x, v)
  BY CleanFields DEF EnsureOnTop
<1>2. Stage(Put(x, LoadTemp(v)), n, 1, NoValue)
  BY LoadFirst
<1> QED
  BY <1>1, <1>2, TopStage DEF LoadSpilled, NoValue

(* Leaving the value n alone on the stack and spilling it defines it.       *)
LEMMA DefineStage ==
    ASSUME NEW y, NEW n \in Nat, NEW t \in Int, Stage(y, n, 1, t)
    PROVE  Clean(SpillStackTop(Top(y, n)), n + 1)
<1>1. Stage(Top(y, n), n, 1, n)
  BY TopStage
<1> QED
  BY <1>1, SpillStage DEF Clean

(* A value already stored may be on the stack again; spilling it stores it  *)
(* once more.                                                               *)
LEMMA RespillStage ==
    ASSUME NEW y, NEW n \in Nat, NEW v \in 0..n - 1, Stage(y, n, 1, v)
    PROVE  Clean(SpillStackTop(y), n)
<1>1. (0..n - 1) \cup {v} = 0..n - 1
  OBVIOUS
<1> QED
  BY <1>1, SpillOne DEF Clean

(* Two stored values can be loaded one after the other (emitBinary).        *)
LEMMA LoadTwoStage ==
    ASSUME NEW x, NEW n \in Nat, NEW l \in 0..n - 1, NEW r \in 0..n - 1,
           Clean(x, n)
    PROVE  Stage(Put(Put(x, LoadTemp(l)), LoadTemp(r)), n, 2, NoValue)
<1>1. Stage(Put(x, LoadTemp(l)), n, 1, NoValue)
  BY LoadFirst
<1> QED
  BY <1>1, LoadStage DEF NoValue

(* emitBinary, then the spill after it, defines one value.                  *)
LEMMA BinaryClean ==
    ASSUME NEW x, NEW n \in Nat, NEW l \in 0..n - 1, NEW r \in 0..n - 1,
           NEW op \in Replacing, Clean(x, n)
    PROVE  Clean(SpillStackTop(EmitBinary(x, op, l, r, n)), n + 1)
<1> DEFINE y == Put(Put(x, LoadTemp(l)), LoadTemp(r))
<1>1. Stage(y, n, 2, NoValue)
  BY LoadTwoStage
<1>2. EmitBinary(x, op, l, r, n) = Top(Put(y, Opcode(op, NoName, 0)), n)
  BY CleanFields DEF EmitBinary
<1> HIDE DEF y
<1>3. Stage(Put(y, Opcode(op, NoName, 0)), n, 1, NoValue)
  BY <1>1, ReplacingStage DEF NoValue
<1> QED
  BY <1>2, <1>3, DefineStage DEF NoValue

(* emitPushInt adds one cell.                                               *)
LEMMA PushStage ==
    ASSUME NEW x, NEW n \in Nat, NEW d \in Nat, NEW e \in Nat,
           NEW t \in Int, NEW k \in Int,
           k \in Pushable, e = d + 1, Stage(x, n, d, t)
    PROVE  Stage(Put(x, PushInt(k)), n, e, t)
<1>1. "PUSH" \in Producing
  BY DEF Producing
<1> QED
  BY <1>1, OpNamesTyped, ProducingStage DEF PushInt

(* emitUnaryNeg, 0 - operand, defines one value.                            *)
LEMMA NegClean ==
    ASSUME NEW x, NEW n \in Nat, NEW v \in 0..n - 1, Clean(x, n)
    PROVE  Clean(SpillStackTop(EmitUnaryNeg(x, v, n)), n + 1)
<1> DEFINE y == Put(Put(x, PushInt(0)), LoadTemp(v))
<1>0. 0 \in Pushable
  BY SmallPushable
<1>1. Stage(Put(x, PushInt(0)), n, 1, NoValue)
  BY <1>0, PushStage DEF Clean, NoValue
<1>2. Stage(y, n, 2, NoValue)
  BY <1>1, LoadStage DEF NoValue
<1>3. EmitUnaryNeg(x, v, n) = Top(Put(y, Opcode("SUB", NoName, 0)), n)
  BY CleanFields DEF EmitUnaryNeg
<1>4. "SUB" \in Replacing
  BY DEF Replacing
<1> HIDE DEF y
<1>5. Stage(Put(y, Opcode("SUB", NoName, 0)), n, 1, NoValue)
  BY <1>2, <1>4, ReplacingStage DEF NoValue
<1> QED
  BY <1>3, <1>5, DefineStage DEF NoValue

(* LOAD v, PUSH 0, compare: the test emitUnaryNot and emitOr end with.      *)
LEMMA TestStage ==
    ASSUME NEW x, NEW n \in Nat, NEW v \in 0..n - 1, NEW op \in Replacing,
           Clean(x, n)
    PROVE  Stage(Put(Put(Put(x, LoadTemp(v)), PushInt(0)),
                     Opcode(op, NoName, 0)), n, 1, NoValue)
<1> DEFINE y == Put(x, LoadTemp(v))
           z == Put(y, PushInt(0))
<1>0. 0 \in Pushable
  BY SmallPushable
<1>1. Stage(y, n, 1, NoValue)
  BY LoadFirst
<1> HIDE DEF y
<1>2. Stage(z, n, 2, NoValue)
  BY <1>0, <1>1, PushStage DEF NoValue
<1> HIDE DEF z
<1>3. Stage(Put(z, Opcode(op, NoName, 0)), n, 1, NoValue)
  BY <1>2, ReplacingStage DEF NoValue
<1> QED
  BY <1>3 DEF y, z

(* emitUnaryNot, operand = 0, defines one value.                            *)
LEMMA NotClean ==
    ASSUME NEW x, NEW n \in Nat, NEW v \in 0..n - 1, Clean(x, n)
    PROVE  Clean(SpillStackTop(EmitUnaryNot(x, v, n)), n + 1)
<1> DEFINE y == Put(Put(Put(x, LoadTemp(v)), PushInt(0)),
                    Opcode("EQ", NoName, 0))
<1>1. "EQ" \in Replacing
  BY DEF Replacing
<1>2. Stage(y, n, 1, NoValue)
  BY <1>1, TestStage
<1>3. EmitUnaryNot(x, v, n) = Top(y, n)
  BY CleanFields DEF EmitUnaryNot
<1> HIDE DEF y
<1> QED
  BY <1>2, <1>3, DefineStage DEF NoValue

(* emitOr, which stores its sum, reloads it and stores the truth value      *)
(* under the same name, defines one value.                                  *)
LEMMA OrClean ==
    ASSUME NEW x, NEW n \in Nat, NEW l \in 0..n - 1, NEW r \in 0..n - 1,
           Clean(x, n)
    PROVE  Clean(SpillStackTop(EmitOr(x, l, r, n)), n + 1)
<1> DEFINE y == SpillStackTop(EmitBinary(x, "ADD", l, r, n))
           z == Put(Put(Put(y, LoadTemp(n)), PushInt(0)),
                    Opcode("NE", NoName, 0))
<1>1. {"ADD", "NE"} \subseteq Replacing
  BY DEF Replacing
<1>2. Clean(y, n + 1)
  BY <1>1, BinaryClean
<1>3. EmitOr(x, l, r, n) = Top(z, n)
  BY DEF EmitOr
<1> HIDE DEF y
<1>4. n \in 0..(n + 1) - 1 /\ n + 1 \in Nat
  OBVIOUS
<1>5. Stage(z, n + 1, 1, NoValue)
  BY <1>1, <1>2, <1>4, TestStage
<1> HIDE DEF z
<1>6. Stage(EmitOr(x, l, r, n), n + 1, 1, n)
  BY <1>3, <1>4, <1>5, TopStage DEF NoValue
<1> QED
  BY <1>6, RespillStage

(* The conversions and emitAbsInt define one value.                         *)
LEMMA UnaryClean ==
    ASSUME NEW x, NEW n \in Nat, NEW v \in 0..n - 1,
           NEW op \in Mapping, NEW arg \in Names, Clean(x, n)
    PROVE  Clean(SpillStackTop(EmitUnary(x, Opcode(op, arg, 0), v, n)), n + 1)
<1> DEFINE y == EnsureOnTop(x, v)
<1>1. Stage(y, n, 1, v)
  BY EnsureStage
<1> HIDE DEF y
<1>2. Stage(Put(y, Opcode(op, arg, 0)), n, 1, v)
  BY <1>1, MappingStage
<1> QED
  BY <1>2, DefineStage DEF EmitUnary, y

(* A call that pops every cell leaves exactly its result.                   *)
LEMMA CallFuncStage ==
    ASSUME NEW x, NEW n \in Nat, NEW k \in Nat, NEW t \in Int,
           NEW arg \in Names, NEW op \in {"CALL_FUNC", "CALL"},
           Stage(x, n, k, t)
    PROVE  Stage(Put(x, Opcode(op, arg, k)), n, 1, t)
<1>1. Pops(Opcode(op, arg, k)) = k /\ Pushes(Opcode(op, arg, k)) = 1
  BY OpcodeFields DEF Pops, Pushes, PopOne, PopTwo, PopArgs, PushOne
<1>2. op \in OpNames /\ op # "PUSH"
  BY OpNamesTyped DEF PopArgs
<1>3. /\ Pops(Opcode(op, arg, k)) <= k
      /\ 1 = k - Pops(Opcode(op, arg, k)) + Pushes(Opcode(op, arg, k))
  BY <1>1
<1> QED
  BY <1>2, <1>3, CellsStage

(* A one-argument runtime function defines one value.                       *)
LEMMA UnaryFuncClean ==
    ASSUME NEW x, NEW n \in Nat, NEW v \in 0..n - 1, NEW arg \in Names,
           Clean(x, n)
    PROVE  Clean(SpillStackTop(EmitUnary(x, Opcode("CALL_FUNC", arg, 1), v, n)),
                 n + 1)
<1> DEFINE y == EnsureOnTop(x, v)
<1>1. Stage(y, n, 1, v)
  BY EnsureStage
<1> HIDE DEF y
<1>2. Stage(Put(y, Opcode("CALL_FUNC", arg, 1)), n, 1, v)
  BY <1>1, CallFuncStage
<1> QED
  BY <1>2, DefineStage DEF EmitUnary, y

(* emitConst defines one value.                                             *)
LEMMA ConstClean ==
    ASSUME NEW x, NEW n \in Nat, NEW op \in {"PUSH", "PUSH_FLT", "PUSH_STR"},
           NEW k \in Int, k \in Pushable, Clean(x, n)
    PROVE  Clean(SpillStackTop(EmitConst(x, op, k, n)), n + 1)
<1>1. op \in Producing /\ NoName \in Names
  BY OpNamesTyped DEF Producing
<1>2. Stage(Put(x, Opcode(op, NoName, k)), n, 1, NoValue)
  BY <1>1, ProducingStage DEF Clean, NoValue
<1> QED
  BY <1>2, CleanFields, DefineStage DEF EmitConst, NoValue

(* Any producing opcode but PUSH fills the empty stack with one cell.       *)
LEMMA LoadVarStage ==
    ASSUME NEW x, NEW n \in Nat, NEW arg \in Names, NEW op \in Producing,
           op # "PUSH", Clean(x, n)
    PROVE  Stage(Put(x, Opcode(op, arg, 0)), n, 1, NoValue)
BY ProducingStage DEF Clean, NoValue

(* emitLoadLocal defines one value.                                         *)
LEMMA LoadLocalClean ==
    ASSUME NEW x, NEW n \in Nat, NEW slot \in Names, Clean(x, n)
    PROVE  Clean(SpillStackTop(EmitLoadLocal(x, slot, n)), n + 1)
<1>1. Stage(Put(x, Opcode("LOAD_VAR", slot, 0)), n, 1, NoValue)
  BY LoadVarStage DEF Producing
<1> QED
  BY <1>1, CleanFields, DefineStage DEF EmitLoadLocal, LoadVar, NoValue

(* emitStoreLocal takes a stored value and defines none.                    *)
LEMMA StoreLocalClean ==
    ASSUME NEW x, NEW n \in Nat, NEW slot \in Names, NEW v \in 0..n - 1,
           Clean(x, n)
    PROVE  Clean(EmitStoreLocal(x, slot, v), n)
<1> DEFINE y == EnsureOnTop(x, v)
<1>1. Stage(y, n, 1, v)
  BY EnsureStage
<1> HIDE DEF y
<1>2. Stage(Put(y, Opcode("STORE_VAR", slot, 0)), n, 0, v)
  BY <1>1, ConsumingStage DEF Consuming
<1> QED
  BY <1>2, TopStage DEF EmitStoreLocal, StoreVar, Clean, NoValue, y

(* emitCopy defines a new value from a stored one.                          *)
LEMMA CopyClean ==
    ASSUME NEW x, NEW n \in Nat, NEW v \in 0..n - 1, Clean(x, n)
    PROVE  Clean(SpillStackTop(EmitCopy(x, v, n)), n + 1)
BY EnsureStage, DefineStage DEF EmitCopy

---------------------------------------------------------------------------
(* Arrays.                                                                  *)

(* Whatever the low bound, the VM index is one cell and its literals fit.   *)
LEMMA VmIndexStage ==
    ASSUME NEW x, NEW n \in Nat, NEW v \in 0..n - 1, NEW low \in Readable,
           NEW d \in Nat, NEW e \in Nat, e = d + 1, Stage(x, n, d, NoValue)
    PROVE  Stage(EmitVmIndex(x, v, low), n, e, NoValue)
<1> DEFINE i == Put(x, LoadTemp(v))
<1>1. Stage(i, n, e, NoValue)
  BY LoadStage DEF NoValue
<1>2. {"SUB", "ADD"} \subseteq Replacing
  BY DEF Replacing
<1>3. e >= 1 /\ e + 1 \in Nat /\ e + 1 >= 2 /\ e = (e + 1) - 1
  OBVIOUS
<1> HIDE DEF i
<1>4. ASSUME NEW y, Stage(y, n, e, NoValue), NEW k \in Int, k \in Pushable,
             NEW op \in {"SUB", "ADD"}
      PROVE  Stage(Put(Put(y, PushInt(k)), Opcode(op, NoName, 0)), n, e, NoValue)
  <2> DEFINE z == Put(y, PushInt(k))
  <2>1. Stage(z, n, e + 1, NoValue)
    BY <1>3, <1>4, PushStage DEF NoValue
  <2> HIDE DEF z
  <2>2. Stage(Put(z, Opcode(op, NoName, 0)), n, e, NoValue)
    BY <1>2, <1>3, <2>1, ReplacingStage DEF NoValue
  <2> QED
    BY <2>2 DEF z
<1>5. CASE low = 1
  BY <1>1, <1>5 DEF EmitVmIndex, i
<1>6. CASE low # 1 /\ low - 1 < MinInt
  <2> DEFINE y == Put(Put(i, PushInt(low)), Opcode("SUB", NoName, 0))
             z == Put(Put(y, PushInt(1)), Opcode("ADD", NoName, 0))
  <2>1. EmitVmIndex(x, v, low) = z
    BY <1>6 DEF EmitVmIndex, i
  <2>2. Stage(y, n, e, NoValue)
    BY <1>1, <1>4, LowPushable
  <2>3. 1 \in Int /\ 1 \in Pushable
    BY SmallPushable
  <2> HIDE DEF y
  <2>4. Stage(z, n, e, NoValue)
    BY <1>4, <2>2, <2>3
  <2> QED
    BY <2>1, <2>4
<1>7. CASE low # 1 /\ ~(low - 1 < MinInt)
  <2>1. EmitVmIndex(x, v, low)
          = Put(Put(i, PushInt(low - 1)), Opcode("SUB", NoName, 0))
    BY <1>7 DEF EmitVmIndex, i
  <2>2. low - 1 \in Int /\ low - 1 \in Pushable
    BY <1>7, LowPushable
  <2> QED
    BY <1>1, <1>4, <2>1, <2>2
<1> QED
  BY <1>5, <1>6, <1>7

(* emitLoadIndex defines one value, whatever the low bound.                 *)
LEMMA LoadIndexClean ==
    ASSUME NEW x, NEW n \in Nat, NEW v \in 0..n - 1, NEW low \in Readable, NEW slot \in Names, Clean(x, n)
    PROVE  Clean(SpillStackTop(EmitLoadIndex(x, slot, v, low, n)), n + 1)
<1> DEFINE y == EmitVmIndex(x, v, low)
<1>0. 0 \in Nat /\ 1 \in Nat /\ 1 = 0 + 1 /\ Stage(x, n, 0, NoValue)
  BY DEF Clean
<1>1. Stage(y, n, 1, NoValue)
  BY <1>0, VmIndexStage
<1>2. EmitLoadIndex(x, slot, v, low, n) = Top(Put(y, Opcode("LOAD_ARR", slot, 0)), n)
  BY CleanFields DEF EmitLoadIndex
<1> HIDE DEF y
<1>3. Stage(Put(y, Opcode("LOAD_ARR", slot, 0)), n, 1, NoValue)
  BY <1>1, MappingStage DEF Mapping, NoValue
<1> QED
  BY <1>2, <1>3, DefineStage DEF NoValue

(* emitStoreIndex consumes the value and the index it loads.                *)
LEMMA StoreIndexClean ==
    ASSUME NEW x, NEW n \in Nat, NEW v \in 0..n - 1, NEW w \in 0..n - 1,
           NEW low \in Readable, NEW slot \in Names,
           Clean(x, n)
    PROVE  Clean(EmitStoreIndex(x, slot, v, low, w), n)
<1> DEFINE y == EmitVmIndex(Put(x, LoadTemp(w)), v, low)
           o == Opcode("STORE_ARR", slot, 0)
<1>1. Stage(Put(x, LoadTemp(w)), n, 1, NoValue) /\ 2 = 1 + 1
  BY LoadFirst
<1>2. Stage(y, n, 2, NoValue)
  <2> DEFINE z == Put(x, LoadTemp(w))
  <2>1. Stage(z, n, 1, NoValue)
    BY <1>1
  <2> HIDE DEF z
  <2>2. Stage(EmitVmIndex(z, v, low), n, 2, NoValue)
    BY <1>1, <2>1, VmIndexStage
  <2> QED
    BY <2>2 DEF z
<1>3. EmitStoreIndex(x, slot, v, low, w) = Top(Put(y, o), NoValue)
  BY CleanFields DEF EmitStoreIndex
<1> HIDE DEF y
<1>4. Pops(o) = 2 /\ Pushes(o) = 0
  BY OpcodeFields DEF Pops, Pushes, PopOne, PopTwo, PushOne
<1>5. Pops(o) <= 2 /\ 0 = 2 - Pops(o) + Pushes(o)
  BY <1>4
<1>6. "STORE_ARR" \in OpNames
  BY OpNamesTyped
<1>7. Stage(Put(y, o), n, 0, NoValue)
  BY <1>2, <1>5, <1>6, CellsStage DEF NoValue
<1> HIDE DEF o
<1> QED
  BY <1>3, <1>7, TopStage DEF Clean, NoValue

(* emitDimArray leaves the stack as it was when the array has a size.       *)
LEMMA DimArrayClean ==
    ASSUME NEW x, NEW n \in Nat, NEW slot \in Names, NEW element,
           NEW size \in 1..MaxInt, Clean(x, n)
    PROVE  Clean(EmitDimArray(x, slot, element, size), n)
<1> DEFINE a == Put(x, PushInt(size))
           b == Put(a, Opcode("DIM_ARRAY", slot, 0))
           e == Put(b, Opcode(ZeroOpcode(element), NoName, 0))
           g == Put(e, Opcode("MAT_INIT", slot, 0))
<1>0. /\ size \in Int /\ size \in Pushable /\ ~(size < 1)
      /\ 0 \in Pushable
  BY SmallPushable, SizePushable
<1>1. EmitDimArray(x, slot, element, size)
        = IF element = "StringRef" THEN b ELSE g
  BY <1>0, CleanFields DEF EmitDimArray
<1>2. Stage(a, n, 1, NoValue)
  BY <1>0, PushStage DEF Clean, NoValue
<1> HIDE DEF a
<1>3. Stage(b, n, 0, NoValue)
  BY <1>2, ConsumingStage DEF Consuming, NoValue
<1> HIDE DEF b
<1>4. Stage(e, n, 1, NoValue)
  <2>1. ZeroOpcode(element) \in Producing
    BY DEF ZeroOpcode, Producing
  <2> QED
    BY <1>0, <1>3, <2>1, NamesUsed, ProducingStage DEF NoValue
<1> HIDE DEF e
<1>5. Stage(g, n, 0, NoValue)
  BY <1>4, ConsumingStage DEF Consuming, NoValue
<1> HIDE DEF g
<1> QED
  BY <1>1, <1>3, <1>5 DEF Clean

(* emitArrayCopy does not touch the stack.                                  *)
LEMMA ArrayCopyClean ==
    ASSUME NEW x, NEW n \in Nat, NEW dst \in Names, NEW src \in Names,
           Clean(x, n)
    PROVE  Clean(EmitArrayCopy(x, dst, src), n)
<1> DEFINE o == MatCopy(dst, src)
<1>1. "MAT_COPY" \in OpNames
  BY OpNamesTyped DEF Neutral
<1>2. /\ o.op = "MAT_COPY" /\ o.temp = NoValue
  BY DEF MatCopy, Opcode
<1>3. o \in Opcodes
  <2>1. Opcode("MAT_COPY", dst, 0) \in Opcodes
    BY <1>1, OpcodeType DEF GoodOpcodes
  <2>2. MatCopy(dst, src) = [Opcode("MAT_COPY", dst, 0) EXCEPT !.src = src]
    BY DEF MatCopy
  <2> QED
    BY <2>1, <2>2 DEF Opcodes
<1>4. Pops(o) = 0 /\ Pushes(o) = 0 /\ o \in GoodOpcodes
  BY <1>2, <1>3 DEF Pops, Pushes, PopOne, PopTwo, PopArgs, PushOne, GoodOpcodes
<1> HIDE DEF o
<1>5. Stage(Put(x, o), n, 0 - Pops(o) + Pushes(o), NoValue)
  BY <1>2, <1>4, PutStage DEF Clean, NoValue
<1>6. 0 - Pops(o) + Pushes(o) = 0
  BY <1>4
<1> QED
  BY <1>5, <1>6 DEF EmitArrayCopy, Clean, o

---------------------------------------------------------------------------
(* Calls.                                                                   *)

(* A run of writer calls pops and pushes what it says it does.              *)
LEMMA PutAllStage ==
    ASSUME NEW x, NEW n \in Nat, NEW d \in Nat, NEW e \in Nat, NEW t \in Int,
           NEW ops \in Seq(GoodOpcodes), NEW temps \in SUBSET (0..n - 1),
           NEW p \in Nat, NEW q \in Nat, p <= d, e = d - p + q,
           Stage(x, n, d, t)
    PROVE  Stage(PutAll(x, ops, temps, p, q), n, e, t)
<1> DEFINE y == PutAll(x, ops, temps, p, q)
<1>1. /\ x \in GoodContexts /\ ~x.failed /\ ~x.faulty /\ x.depth = d
      /\ x.spilled = 0..n - 1 /\ x.stored = 0..n - 1 /\ x.top = t
  BY DEF Stage
<1> DEFINE code == x.code \o ops
<1>2. code \in Seq(GoodOpcodes)
  BY <1>1 DEF GoodContexts
<1>3. ~(p > x.depth) /\ x.depth - p + q = e
  BY <1>1
<1>4. y = [x EXCEPT !.code = code, !.depth = e, !.faulty = FALSE]
  BY <1>1, <1>3 DEF PutAll
<1> HIDE DEF y, code
<1>5. /\ y \in GoodContexts /\ y.depth = e /\ ~y.faulty /\ y.top = x.top
      /\ y.spilled = x.spilled /\ y.stored = x.stored
  <2>1. y \in GoodContexts
    <3>1. [x EXCEPT !.code = code] \in GoodContexts
      BY <1>1, <1>2 DEF GoodContexts
    <3> DEFINE z == [x EXCEPT !.code = code]
    <3>2. y = [z EXCEPT !.depth = e, !.faulty = FALSE] /\ e \in Int
      BY <1>4
    <3> HIDE DEF z
    <3>3. [z EXCEPT !.depth = e] \in GoodContexts
      BY <3>1, <3>2 DEF GoodContexts, z
    <3> QED
      BY <3>2, <3>3 DEF GoodContexts
  <2>2. y.depth = e /\ ~y.faulty
    BY <1>1, <1>4 DEF GoodContexts
  <2>3. y.top = x.top /\ y.spilled = x.spilled /\ y.stored = x.stored
    BY <1>1, <1>4 DEF GoodContexts
  <2> QED
    BY <2>1, <2>2, <2>3
<1>6. ~y.failed
  BY <1>1, <1>4 DEF GoodContexts
<1> QED
  BY <1>1, <1>5, <1>6 DEF Stage, y

(* A run of writer calls that leaves the stack alone.                       *)
LEMMA PutAllClean ==
    ASSUME NEW x, NEW n \in Nat, NEW ops \in Seq(GoodOpcodes),
           NEW temps \in SUBSET (0..n - 1), Clean(x, n)
    PROVE  Clean(PutAll(x, ops, temps, 0, 0), n)
<1> DEFINE z == 0
<1>1. Stage(x, n, z, NoValue)
  BY DEF Clean
<1>2. z \in Nat /\ z <= z /\ z = z - z + z
  OBVIOUS
<1> HIDE DEF z
<1>3. Stage(PutAll(x, ops, temps, z, z), n, z, NoValue)
  BY <1>1, <1>2, PutAllStage, NoValueType
<1> QED
  BY <1>3 DEF Clean, z

(* The members of an argument list are values, as many as its length.       *)
LEMMA MembersType ==
    ASSUME NEW n \in Nat, NEW m \in Nat, NEW args \in [1..m -> 0..n - 1]
    PROVE  Members(args) \subseteq 0..n - 1 /\ Len(args) = m
BY DEF Members

(* Pushing the arguments of a call adds one cell for each.                  *)
LEMMA LoadArgsStage ==
    ASSUME NEW x, NEW n \in Nat, NEW m \in Nat, NEW args \in [1..m -> 0..n - 1],
           Clean(x, n)
    PROVE  Stage(LoadArgs(x, args), n, m, NoValue)
<1> DEFINE ops == [k \in DOMAIN args |-> LoadTemp(args[k])]
<1>1. ops \in Seq(GoodOpcodes)
  <2>1. \A k \in 1..m : LoadTemp(args[k]) \in GoodOpcodes
    BY TempType
  <2> QED
    BY <2>1
<1>2. Members(args) \in SUBSET (0..n - 1) /\ Len(args) = m
  BY MembersType
<1>3. m = 0 - 0 + m /\ 0 <= 0
  OBVIOUS
<1> HIDE DEF ops
<1> DEFINE temps == Members(args)
<1> HIDE DEF temps
<1>5. temps \in SUBSET (0..n - 1) /\ Stage(x, n, 0, NoValue)
  BY <1>2 DEF Clean, temps
<1>4. Stage(PutAll(x, ops, temps, 0, m), n, m, NoValue)
  BY <1>1, <1>3, <1>5, PutAllStage, NoValueType
<1> QED
  BY <1>2, <1>4 DEF LoadArgs, ops, temps

(* A host file function loads its arguments and defines its result.         *)
LEMMA HostFsClean ==
    ASSUME NEW x, NEW n \in Nat, NEW m \in Nat, NEW args \in [1..m -> 0..n - 1],
           NEW arg \in Names, Clean(x, n)
    PROVE  Clean(SpillStackTop(Top(Put(LoadArgs(x, args),
                                       Opcode("CALL_FUNC", arg, Len(args))), n)),
                 n + 1)
<1> DEFINE y == LoadArgs(x, args)
<1>1. Stage(y, n, m, NoValue) /\ Len(args) = m
  BY LoadArgsStage, MembersType
<1> HIDE DEF y
<1>2. Stage(Put(y, Opcode("CALL_FUNC", arg, m)), n, 1, NoValue)
  BY <1>1, CallFuncStage DEF NoValue
<1> QED
  BY <1>1, <1>2, DefineStage DEF NoValue, y

(* An input opcode defines one value.                                       *)
LEMMA ReadClean ==
    ASSUME NEW x, NEW n \in Nat, NEW op \in Inputs, Clean(x, n)
    PROVE  Clean(SpillStackTop(Top(Put(x, Opcode(op, NoName, 0)), n)), n + 1)
<1>1. Stage(Put(x, Opcode(op, NoName, 0)), n, 1, NoValue)
  <2>1. NoName \in Names
    BY OpNamesTyped
  <2>2. op \in Producing /\ op # "PUSH"
    BY DEF Producing, Inputs
  <2> QED
    BY <2>1, <2>2, LoadVarStage
<1> QED
  BY <1>1, DefineStage DEF NoValue

(* str.concat loads its two operands unchecked, yet finds both stored.      *)
LEMMA ConcatClean ==
    ASSUME NEW x, NEW n \in Nat, NEW l \in 0..n - 1, NEW r \in 0..n - 1,
           Clean(x, n)
    PROVE  Clean(SpillStackTop(
                     Top(Put(Put(Put(x, LoadTemp(l)), LoadTemp(r)),
                             Opcode("CONCAT", NoName, 0)), n)), n + 1)
<1> DEFINE y == Put(Put(x, LoadTemp(l)), LoadTemp(r))
<1>1. Stage(y, n, 2, NoValue)
  BY LoadTwoStage
<1> HIDE DEF y
<1>2. Stage(Put(y, Opcode("CONCAT", NoName, 0)), n, 1, NoValue)
  BY <1>1, ReplacingStage DEF Replacing, NoValue
<1> QED
  BY <1>2, DefineStage DEF NoValue, y

(* str.fromByte loads its operand unchecked, yet finds it stored.           *)
LEMMA FromByteClean ==
    ASSUME NEW x, NEW n \in Nat, NEW v \in 0..n - 1, Clean(x, n)
    PROVE  Clean(SpillStackTop(
                     Top(Put(Put(Put(Put(x, LoadTemp(v)), PushInt(1)),
                                 Opcode("ADD", NoName, 0)),
                             Opcode("LOAD_ARR", "__apollo$chr", 0)), n)), n + 1)
<1> DEFINE a == Put(x, LoadTemp(v))
           b == Put(a, PushInt(1))
           e == Put(b, Opcode("ADD", NoName, 0))
           g == Put(e, Opcode("LOAD_ARR", "__apollo$chr", 0))
<1>0. 1 \in Pushable
  BY SmallPushable
<1>5. "__apollo$chr" \in Names
  BY Zenon DEF Names
<1>1. Stage(a, n, 1, NoValue)
  BY LoadFirst
<1> HIDE DEF a
<1>2. Stage(b, n, 2, NoValue)
  BY <1>0, <1>1, PushStage DEF NoValue
<1> HIDE DEF b
<1>3. Stage(e, n, 1, NoValue)
  BY <1>2, ReplacingStage DEF Replacing, NoValue
<1> HIDE DEF e
<1>4. Stage(g, n, 1, NoValue)
  BY <1>3, <1>5, MappingStage DEF Mapping, NoValue
<1> HIDE DEF g
<1>6. Clean(SpillStackTop(Top(g, n)), n + 1)
  BY <1>4, DefineStage DEF NoValue
<1> QED
  BY <1>6 DEF a, b, e, g

(* A print consumes what its loads produce, however many there are.         *)
LEMMA WriteClean ==
    ASSUME NEW x, NEW n \in Nat, NEW m \in Nat, NEW args \in [1..m -> 0..n - 1],
           NEW types, Clean(x, n)
    PROVE  Clean(EmitWrite(x, args, types), n)
<1>1. CASE m = 0
  <2>1. args = <<>>
    BY <1>1
  <2> QED
    BY <2>1 DEF EmitWrite
<1>2. CASE m # 0
  <2> DEFINE print == PrintOpcode(types[1])
             first == Top(Put(EnsureOnTop(x, Head(args)), print), NoValue)
             rest == Tail(args)
             ops == [k \in 1..2 * Len(rest) |->
                         IF k % 2 = 0 THEN PrintOpcode(types[1 + k \div 2])
                         ELSE LoadTemp(rest[(k + 1) \div 2])]
  <2>1. /\ args # <<>> /\ Head(args) \in 0..n - 1
        /\ rest \in [1..m - 1 -> 0..n - 1] /\ m - 1 \in Nat
    <3>1. args \in Seq(0..n - 1) /\ Len(args) = m /\ m >= 1
      BY <1>2
    <3>2. args # <<>>
      BY <3>1
    <3>3. Head(args) = args[1] /\ 1 \in 1..m
      BY <3>1
    <3>4. rest \in Seq(0..n - 1) /\ Len(rest) = m - 1
      BY <3>1, <3>2
    <3> HIDE DEF rest
    <3>5. rest \in [1..m - 1 -> 0..n - 1]
      BY <3>4
    <3> QED
      BY <3>1, <3>2, <3>3, <3>5
  <2>2. /\ {"PRINT_VAL", "PRINT_CHAR"} \subseteq Consuming \cap OpNames
        /\ NoName \in Names
    BY OpNamesTyped DEF Consuming
  <2>3. \A type : PrintOpcode(type) \in GoodOpcodes
    BY <2>2, OpcodeType DEF PrintOpcode
  <2>4. Clean(first, n)
    <3> DEFINE v == Head(args)
               y == EnsureOnTop(x, v)
    <3>1. v \in 0..n - 1
      BY <2>1
    <3> HIDE DEF v
    <3>2. Stage(y, n, 1, v)
      BY <3>1, EnsureStage
    <3> HIDE DEF y
    <3>3. Stage(Put(y, print), n, 0, v)
      BY <2>2, <3>1, <3>2, ConsumingStage DEF PrintOpcode
    <3> HIDE DEF print
    <3>4. Stage(Top(Put(y, print), NoValue), n, 0, NoValue)
      BY <3>1, <3>3, TopStage, NoValueType
    <3> QED
      BY <3>4 DEF Clean, v, y
  <2>5. Members(rest) \in SUBSET (0..n - 1) /\ Len(rest) = m - 1
    BY <2>1, MembersType
  <2>6. ops \in Seq(GoodOpcodes)
    <3> HIDE DEF rest
    <3>1. \A k \in 1..2 * (m - 1) :
             k % 2 # 0 => (k + 1) \div 2 \in 1..m - 1
      BY <2>1
    <3>2. \A k \in 1..2 * (m - 1) : ops[k] \in GoodOpcodes
      BY <2>1, <2>3, <2>5, <3>1, TempType
    <3>3. 2 * (m - 1) \in Nat
      BY <2>1
    <3> QED
      BY <2>5, <3>2, <3>3
  <2> DEFINE temps == Members(rest)
  <2>7. EmitWrite(x, args, types) = PutAll(first, ops, temps, 0, 0)
    <3>1. temps \subseteq first.spilled
      BY <2>4, <2>5, CleanFields
    <3> QED
      BY <2>1, <3>1 DEF EmitWrite
  <2>8. temps \in SUBSET (0..n - 1)
    BY <2>5
  <2> HIDE DEF first, ops, temps
  <2> QED
    BY <2>4, <2>6, <2>7, <2>8, PutAllClean
<1> QED
  BY <1>1, <1>2

(* A neutral opcode between two instructions.                               *)
LEMMA NeutralClean ==
    ASSUME NEW x, NEW n \in Nat, NEW op \in Neutral, NEW arg \in Names,
           Clean(x, n)
    PROVE  Clean(Put(x, Opcode(op, arg, 0)), n)
BY NeutralStage, NoValueType DEF Clean

Bindings == [dst : Names, src : Names, size : Nat \ {0}]

(* A call fills the array formals, pushes its arguments and pops them, and  *)
(* leaves the result, if there is one, spilled.                             *)
LEMMA UserCallClean ==
    ASSUME NEW x, NEW n \in Nat, NEW m \in Nat, NEW j \in Nat, NEW i,
           i.mats \in [1..j -> Bindings],
           i.args \in [1..m -> 0..n - 1], i.arg \in Names,
           i.res \in {n, NoValue}, Clean(x, n)
    PROVE  Clean(EmitUserCall(x, i), IF i.res = n THEN n + 1 ELSE n)
<1> DEFINE copies == [k \in DOMAIN i.mats |-> BindArray(i.mats[k])]
           b == PutAll(x, copies, {}, 0, 0)
           p == LoadArgs(b, i.args)
<1>1. copies \in Seq(GoodOpcodes)
  <2>1. \A k \in 1..j : BindArray(i.mats[k]) \in GoodOpcodes
    <3> TAKE k \in 1..j
    <3> DEFINE mat == i.mats[k]
               base == Opcode("BIND_ARRAY", mat.dst, mat.size)
    <3>1. mat.dst \in Names /\ mat.src \in Names /\ mat.size \in Int
      BY DEF Bindings
    <3> HIDE DEF mat
    <3>2. "BIND_ARRAY" \in OpNames
      BY OpNamesTyped DEF Neutral
    <3>3. base \in Opcodes /\ base.op = "BIND_ARRAY"
      BY <3>1, <3>2, OpcodeType, OpcodeFields DEF GoodOpcodes
    <3>4. BindArray(mat) = [base EXCEPT !.src = mat.src]
      BY DEF BindArray
    <3> HIDE DEF base
    <3>5. BindArray(mat) \in Opcodes /\ BindArray(mat).op = "BIND_ARRAY"
      BY <3>1, <3>3, <3>4 DEF Opcodes
    <3>6. BindArray(mat) \in GoodOpcodes
      BY <3>5 DEF GoodOpcodes
    <3> QED
      BY <3>6 DEF mat
  <2> QED
    BY <2>1
<1>2. SpillStackTop(x) = x /\ x.spilled = 0..n - 1
  BY CleanFields
<1>3. /\ \A k \in DOMAIN i.mats : i.mats[k].size >= 1
      /\ Members(i.args) \subseteq 0..n - 1 /\ Len(i.args) = m
  <2>1. \A k \in 1..j : i.mats[k].size >= 1
    BY DEF Bindings
  <2> QED
    BY <2>1, MembersType
<1> HIDE DEF copies
<1>4. Clean(b, n)
  <2>1. {} \in SUBSET (0..n - 1)
    OBVIOUS
  <2> QED
    BY <1>1, <2>1, PutAllClean
<1>5. EmitUserCall(x, i) =
        IF i.res = NoValue
        THEN Put(p, Opcode("CALLVOID", i.arg, m))
        ELSE SpillStackTop(Top(Put(p, Opcode("CALL", i.arg, m)), i.res))
  BY <1>2, <1>3 DEF EmitUserCall, copies
<1> HIDE DEF b
<1>6. Stage(p, n, m, NoValue)
  BY <1>4, LoadArgsStage
<1> HIDE DEF p
<1>7. CASE i.res = NoValue
  <2> DEFINE o == Opcode("CALLVOID", i.arg, m)
  <2>1. Pops(o) = m /\ Pushes(o) = 0
    BY OpcodeFields DEF Pops, Pushes, PopOne, PopTwo, PopArgs, PushOne
  <2>2. "CALLVOID" \in OpNames
    BY OpNamesTyped DEF PopArgs
  <2>3. Pops(o) <= m /\ 0 = m - Pops(o) + Pushes(o)
    BY <2>1
  <2>4. Stage(Put(p, o), n, 0, NoValue)
    BY <1>6, <2>2, <2>3, CellsStage, NoValueType
  <2>5. NoValue # n
    BY DEF NoValue
  <2> QED
    BY <1>5, <1>7, <2>4, <2>5 DEF Clean
<1>8. CASE i.res = n
  <2>1. Stage(Put(p, Opcode("CALL", i.arg, m)), n, 1, NoValue)
    BY <1>6, CallFuncStage, NoValueType
  <2>2. Clean(SpillStackTop(Top(Put(p, Opcode("CALL", i.arg, m)), n)), n + 1)
    BY <2>1, DefineStage, NoValueType
  <2>3. NoValue # n
    BY DEF NoValue
  <2> QED
    BY <1>5, <1>8, <2>2, <2>3
<1> QED
  BY <1>7, <1>8

---------------------------------------------------------------------------
(* Labels, the parameter prologue and terminators.                          *)

(* A label restarts the verifier at the height it is given.                 *)
LEMMA BeginBlockStage ==
    ASSUME NEW x, NEW n \in Nat, NEW d \in Nat, NEW e \in Nat,
           NEW label \in Names, Stage(x, n, d, NoValue)
    PROVE  Stage(BeginBlock(x, label, e), n, e, NoValue)
<1> DEFINE y == Top(Put(x, Opcode("LABEL", label, 0)), NoValue)
<1>1. Stage(y, n, d, NoValue)
  BY NeutralStage, TopStage, NoValueType DEF Neutral
<1>2. BeginBlock(x, label, e) = [y EXCEPT !.depth = e]
  BY DEF BeginBlock
<1> DEFINE z == BeginBlock(x, label, e)
<1> HIDE DEF y, z
<1>3. /\ y \in GoodContexts /\ ~y.failed /\ ~y.faulty
      /\ y.spilled = 0..n - 1 /\ y.stored = 0..n - 1 /\ y.top = NoValue
  BY <1>1 DEF Stage
<1>4. z = [y EXCEPT !.depth = e] /\ e \in Int
  BY <1>2 DEF z
<1>5. z \in GoodContexts /\ z.depth = e
  BY <1>3, <1>4 DEF GoodContexts
<1>6. z.spilled = y.spilled /\ z.stored = y.stored /\ z.top = y.top
  BY <1>3, <1>4 DEF GoodContexts
<1>7. ~z.failed /\ ~z.faulty
  BY <1>3, <1>4 DEF GoodContexts
<1> QED
  BY <1>3, <1>5, <1>6, <1>7 DEF Stage, z

(* The prologue takes exactly the cells the call left for it.               *)
LEMMA PrologueClean ==
    ASSUME NEW x, NEW n \in Nat, NEW m \in Nat, NEW slot \in Names,
           Stage(x, n, m, NoValue)
    PROVE  Clean(EmitParamPrologue(x, [k \in 1..m |-> slot]), n)
<1> DEFINE scalars == [k \in 1..m |-> slot]
           ops == [k \in DOMAIN scalars |->
                       StoreVar(scalars[Len(scalars) + 1 - k])]
<1>1. scalars \in Seq(Names) /\ Len(scalars) = m /\ DOMAIN scalars = 1..m
  OBVIOUS
<1>2. ops \in Seq(GoodOpcodes)
  <2>1. "STORE_VAR" \in OpNames
    BY OpNamesTyped DEF Consuming
  <2>2. \A s \in Names : StoreVar(s) \in GoodOpcodes
    BY <2>1, OpcodeType DEF StoreVar
  <2>3. \A k \in 1..m : scalars[m + 1 - k] \in Names
    OBVIOUS
  <2> HIDE DEF scalars
  <2> QED
    BY <1>1, <2>2, <2>3
<1>3. m <= m /\ 0 = m - m + 0 /\ {} \in SUBSET (0..n - 1)
  OBVIOUS
<1> HIDE DEF ops
<1>4. Stage(PutAll(x, ops, {}, m, 0), n, 0, NoValue)
  BY <1>2, <1>3, PutAllStage, NoValueType
<1>5. EmitParamPrologue(x, scalars) = PutAll(x, ops, {}, m, 0)
  BY <1>1 DEF EmitParamPrologue, ops
<1> QED
  BY <1>4, <1>5 DEF Clean

(* After a terminator the stack is empty, or holds the result just before   *)
(* the RETURN that hands it over.                                           *)
Ended(x, n) ==
    \/ Clean(x, n)
    \/ Stage(x, n, 1, NoValue) /\ x.code[Len(x.code)].op = "RETURN"

(* Every terminator leaves the empty stack, or the result above RETURN.     *)
LEMMA TerminatorEnded ==
    ASSUME NEW x, NEW n \in Nat, NEW term, Clean(x, n),
           term.kind \in {"Branch", "BranchIf", "Return"},
           term.value \in (0..n - 1) \cup {NoValue},
           term.kind = "BranchIf" => term.value # NoValue,
           term.target \in Names, term.falseTarget \in Names
    PROVE  Ended(EmitTerminator(x, term), n)
<1>1. ~x.failed /\ SpillStackTop(x) = x
  BY CleanFields
<1>2. CASE term.kind = "Branch"
  <2>1. EmitTerminator(x, term) = Put(x, Opcode("JUMP", term.target, 0))
    BY <1>1, <1>2 DEF EmitTerminator
  <2>2. Clean(Put(x, Opcode("JUMP", term.target, 0)), n)
    BY NeutralClean DEF Neutral
  <2> QED
    BY <2>1, <2>2 DEF Ended
<1>3. CASE term.kind = "BranchIf"
  <2> DEFINE v == term.value
             y == EnsureOnTop(x, v)
             z == Top(Put(y, Opcode("JZ", term.falseTarget, 0)), NoValue)
  <2>1. EmitTerminator(x, term) = Put(z, Opcode("JUMP", term.target, 0))
    BY <1>1, <1>3 DEF EmitTerminator
  <2>2. v \in 0..n - 1
    BY <1>3
  <2> HIDE DEF v
  <2>3. Stage(y, n, 1, v)
    BY <2>2, EnsureStage
  <2> HIDE DEF y
  <2>4. Stage(Put(y, Opcode("JZ", term.falseTarget, 0)), n, 0, v)
    BY <2>2, <2>3, ConsumingStage DEF Consuming
  <2>5. Clean(z, n)
    BY <2>2, <2>4, TopStage, NoValueType DEF Clean
  <2> HIDE DEF z
  <2>6. Clean(Put(z, Opcode("JUMP", term.target, 0)), n)
    BY <2>5, NeutralClean DEF Neutral
  <2> QED
    BY <2>1, <2>6 DEF Ended
<1>4. CASE term.kind = "Return" /\ x.fn = "main"
  <2>1. EmitTerminator(x, term) = Put(x, Opcode("HALT", NoName, 0))
    BY <1>1, <1>4 DEF EmitTerminator
  <2>2. Clean(Put(x, Opcode("HALT", NoName, 0)), n)
    BY NeutralClean, OpNamesTyped DEF Neutral
  <2> QED
    BY <2>1, <2>2 DEF Ended
<1>5. CASE term.kind = "Return" /\ x.fn # "main" /\ term.value = NoValue
  <2>1. EmitTerminator(x, term) = Put(x, Opcode("RETURN", NoName, 0))
    BY <1>1, <1>5 DEF EmitTerminator
  <2>2. Clean(Put(x, Opcode("RETURN", NoName, 0)), n)
    BY NeutralClean, OpNamesTyped DEF Neutral
  <2> QED
    BY <2>1, <2>2 DEF Ended
<1>6. CASE term.kind = "Return" /\ x.fn # "main" /\ term.value # NoValue
  <2> DEFINE v == term.value
             y == Top(EnsureOnTop(x, v), NoValue)
             o == Opcode("RETURN", NoName, 0)
  <2>1. EmitTerminator(x, term) = Put(y, o)
    BY <1>1, <1>6 DEF EmitTerminator
  <2>2. v \in 0..n - 1
    BY <1>6
  <2> HIDE DEF v
  <2>3. Stage(y, n, 1, NoValue)
    BY <2>2, EnsureStage, TopStage, NoValueType
  <2> HIDE DEF y
  <2>4. "RETURN" \in Neutral /\ "RETURN" \in OpNames /\ NoName \in Names
    BY OpNamesTyped DEF Neutral
  <2>5. Stage(Put(y, o), n, 1, NoValue)
    BY <2>3, <2>4, NeutralStage, NoValueType
  <2>6. o \in GoodOpcodes /\ o.op = "RETURN"
    BY <2>4, OpcodeType, OpcodeFields
  <2> HIDE DEF o
  <2>7. y \in GoodContexts /\ y.code \in Seq(GoodOpcodes)
    BY <2>3 DEF Stage, GoodContexts
  <2>8. Put(y, o).code = Append(y.code, o)
    BY <2>6, <2>7, PutFields
  <2>9. Put(y, o).code[Len(Put(y, o).code)] = o
    BY <2>6, <2>7, <2>8
  <2> QED
    BY <2>1, <2>5, <2>6, <2>9 DEF Ended
<1> QED
  BY <1>2, <1>3, <1>4, <1>5, <1>6

---------------------------------------------------------------------------
(* The instructions, one lemma for each action of Emit.                     *)

(* The operation tables map into the classes of opcodes.                    *)
LEMMA Operands ==
    /\ DOMAIN BinaryOpcode = {"Add", "Sub", "Mul", "Div", "Mod", "And", "CmpEq",
                              "CmpNe", "CmpLt", "CmpLe", "CmpGt", "CmpGe"}
    /\ DOMAIN UnaryOpcode = {"ConvertF64", "ConvertI32", "Abs"}
    /\ DOMAIN ConstOpcode = {"ConstI32", "ConstF64", "ConstBool", "ConstChar",
                             "ConstString"}
    /\ \A op \in DOMAIN ConstOpcode :
          ConstOpcode[op] \in {"PUSH", "PUSH_FLT", "PUSH_STR"}
    /\ \A type \in DOMAIN InputOpcode : InputOpcode[type] \in Inputs
    /\ {"I32", "F64", "Char"} \subseteq DOMAIN InputOpcode
    /\ \A op \in DOMAIN BinaryOpcode : BinaryOpcode[op] \in Replacing
    /\ \A op \in DOMAIN UnaryOpcode : UnaryOpcode[op] \in Mapping
BY DEF BinaryOpcode, UnaryOpcode, ConstOpcode, InputOpcode, Inputs, Replacing,
       Mapping

(* emitInstr on a two-operand IR operation.                                 *)
LEMMA BinaryInstr ==
    ASSUME NEW x, NEW n \in Nat, Clean(x, n), NEW i, i.res = n,
           i.op \in DOMAIN BinaryOpcode \cup {"Or"},
           i.a \in 0..n - 1, i.b \in 0..n - 1
    PROVE  Clean(EmitInstr(x, i), n + 1)
<1>1. ~x.failed
  BY CleanFields
<1>2. CASE i.op = "Or"
  <2>1. EmitInstr(x, i) = SpillStackTop(EmitOr(x, i.a, i.b, n))
    BY <1>1, <1>2, Operands DEF EmitInstr
  <2> QED
    BY <2>1, OrClean
<1>3. CASE i.op \in DOMAIN BinaryOpcode
  <2>1. EmitInstr(x, i)
          = SpillStackTop(EmitBinary(x, BinaryOpcode[i.op], i.a, i.b, n))
    BY <1>1, <1>3, Operands DEF EmitInstr
  <2>2. BinaryOpcode[i.op] \in Replacing
    BY <1>3, Operands
  <2> QED
    BY <2>1, <2>2, BinaryClean
<1> QED
  BY <1>2, <1>3

(* emitInstr on a one-operand IR operation.                                 *)
LEMMA UnaryInstr ==
    ASSUME NEW x, NEW n \in Nat, Clean(x, n), NEW i, i.res = n,
           i.op \in DOMAIN UnaryOpcode \cup {"Neg", "Not", "Copy"},
           i.a \in 0..n - 1
    PROVE  Clean(EmitInstr(x, i), n + 1)
<1>1. ~x.failed /\ NoName \in Names
  BY CleanFields, OpNamesTyped
<1>2. CASE i.op = "Neg"
  <2>1. EmitInstr(x, i) = SpillStackTop(EmitUnaryNeg(x, i.a, n))
    BY <1>1, <1>2, Operands DEF EmitInstr
  <2> QED
    BY <2>1, NegClean
<1>3. CASE i.op = "Not"
  <2>1. EmitInstr(x, i) = SpillStackTop(EmitUnaryNot(x, i.a, n))
    BY <1>1, <1>3, Operands DEF EmitInstr
  <2> QED
    BY <2>1, NotClean
<1>4. CASE i.op = "Copy"
  <2>1. EmitInstr(x, i) = SpillStackTop(EmitCopy(x, i.a, n))
    BY <1>1, <1>4, Operands DEF EmitInstr
  <2> QED
    BY <2>1, CopyClean
<1>5. CASE i.op \in DOMAIN UnaryOpcode
  <2>1. EmitInstr(x, i) = SpillStackTop(
            EmitUnary(x, Opcode(UnaryOpcode[i.op], NoName, 0), i.a, n))
    BY <1>1, <1>5, Operands DEF EmitInstr
  <2> QED
    BY <1>1, <1>5, <2>1, Operands, UnaryClean
<1> QED
  BY <1>2, <1>3, <1>4, <1>5

(* emitInstr on constants, loads and array loads.                           *)
LEMMA SimpleInstr ==
    ASSUME NEW x, NEW n \in Nat, Clean(x, n), NEW i, i.res = n,
           \/ i.op \in DOMAIN ConstOpcode /\ i.n \in Literals
           \/ i.op = "LoadLocal" /\ i.arg \in Names
           \/ /\ i.op = "LoadIndex" /\ i.arg \in Names /\ i.b \in 0..n - 1
              /\ i.n \in Readable
    PROVE  Clean(EmitInstr(x, i), n + 1)
<1>1. ~x.failed
  BY CleanFields
<1>2. CASE i.op \in DOMAIN ConstOpcode /\ i.n \in Literals
  <2>1. EmitInstr(x, i) 
          = SpillStackTop(EmitConst(x, ConstOpcode[i.op], i.n, n))
    BY <1>1, <1>2, Operands DEF EmitInstr
  <2> QED
    BY <1>2, <2>1, Operands, ConstPushable, ConstClean
<1>3. CASE i.op = "LoadLocal" /\ i.arg \in Names
  <2>1. EmitInstr(x, i) = SpillStackTop(EmitLoadLocal(x, i.arg, n))
    BY <1>1, <1>3, Operands DEF EmitInstr
  <2> QED
    BY <1>3, <2>1, LoadLocalClean
<1>4. CASE /\ i.op = "LoadIndex" /\ i.arg \in Names /\ i.b \in 0..n - 1
           /\ i.n \in Readable
  <2>1. EmitInstr(x, i) = SpillStackTop(EmitLoadIndex(x, i.arg, i.b, i.n, n))
    BY <1>1, <1>4, Operands DEF EmitInstr
  <2> QED
    BY <1>4, <2>1, LoadIndexClean
<1> QED
  BY <1>2, <1>3, <1>4

(* emitInstr on the operations that define no value.                        *)
LEMMA EffectInstr ==
    ASSUME NEW x, NEW n \in Nat, Clean(x, n), NEW i,
           i.arg \in Names,
           \/ i.op = "StoreLocal" /\ i.b \in 0..n - 1
           \/ i.op = "DimArray" /\ i.n \in 1..MaxInt
           \/ i.op = "ArrayCopy" /\ i.src \in Names
           \/ /\ i.op = "StoreIndex" /\ i.args[1] \in 0..n - 1
              /\ i.b \in 0..n - 1 /\ i.n \in Readable
    PROVE  Clean(EmitInstr(x, i), n)
<1>1. ~x.failed
  BY CleanFields
<1>2. CASE i.op = "StoreLocal" /\ i.b \in 0..n - 1
  <2>1. EmitInstr(x, i) = EmitStoreLocal(x, i.arg, i.b)
    BY <1>1, <1>2, Operands DEF EmitInstr
  <2> QED
    BY <1>2, <2>1, StoreLocalClean
<1>3. CASE i.op = "DimArray" /\ i.n \in 1..MaxInt
  <2>1. EmitInstr(x, i) = EmitDimArray(x, i.arg, i.type, i.n)
    BY <1>1, <1>3, Operands DEF EmitInstr
  <2> QED
    BY <1>3, <2>1, DimArrayClean
<1>4. CASE i.op = "ArrayCopy" /\ i.src \in Names
  <2>1. EmitInstr(x, i) = EmitArrayCopy(x, i.arg, i.src)
    BY <1>1, <1>4, Operands DEF EmitInstr
  <2> QED
    BY <1>4, <2>1, ArrayCopyClean
<1>5. CASE /\ i.op = "StoreIndex" /\ i.args[1] \in 0..n - 1
           /\ i.b \in 0..n - 1 /\ i.n \in Readable
  <2>1. EmitInstr(x, i) = EmitStoreIndex(x, i.arg, i.args[1], i.n, i.b)
    BY <1>1, <1>5, Operands DEF EmitInstr
  <2> QED
    BY <1>5, <2>1, StoreIndexClean
<1> QED
  BY <1>2, <1>3, <1>4, <1>5

(* emitInstr on write and writeln with any number of arguments.             *)
LEMMA WriteInstr ==
    ASSUME NEW x, NEW n \in Nat, Clean(x, n), NEW i, i.res = NoValue,
           i.op = "CallRuntime", i.arg \in {"write", "writeln"},
           NEW m \in Nat, i.args \in [1..m -> 0..n - 1]
    PROVE  Clean(EmitInstr(x, i), n)
<1>1. ~x.failed
  BY CleanFields
<1>2. EmitInstr(x, i) = EmitCallRuntime(x, i)
  BY <1>1, Operands DEF EmitInstr, ProducesValue
<1>3. Clean(EmitWrite(x, i.args, i.types), n)
  BY WriteClean
<1>4. CASE i.arg = "write"
  BY <1>2, <1>3, <1>4 DEF EmitCallRuntime, UnaryFuncs, HostFsFuncs
<1>5. CASE i.arg = "writeln"
  <2> DEFINE y == EmitWrite(x, i.args, i.types)
  <2>1. EmitCallRuntime(x, i) = Put(y, Opcode("PRINT_EOL", NoName, 0))
    BY <1>5 DEF EmitCallRuntime, UnaryFuncs, HostFsFuncs
  <2>2. Clean(y, n)
    BY <1>3
  <2> HIDE DEF y
  <2>3. Clean(Put(y, Opcode("PRINT_EOL", NoName, 0)), n)
    BY <2>2, OpNamesTyped, NeutralClean DEF Neutral
  <2> QED
    BY <1>2, <2>1, <2>3
<1> QED
  BY <1>4, <1>5

(* emitInstr on the runtime functions that define a value.                  *)
LEMMA RuntimeInstr ==
    ASSUME NEW x, NEW n \in Nat, Clean(x, n), NEW i, i.res = n,
           i.op = "CallRuntime",
           NEW m \in Nat, i.args \in [1..m -> 0..n - 1],
           \/ i.arg = "read" /\ i.type \in DOMAIN InputOpcode
           \/ i.arg \in {"sqrt", "coerce.int", "str.seq", "str.fromByte"} /\ m = 1
           \/ i.arg \in {"hostfs.read", "str.concat"} /\ m = 2
    PROVE  Clean(EmitInstr(x, i), n + 1)
<1>1. ~x.failed /\ SpillStackTop(x) = x /\ x.spilled = 0..n - 1
  BY CleanFields
<1>2. EmitInstr(x, i) = SpillStackTop(EmitCallRuntime(x, i))
  BY <1>1, Operands DEF EmitInstr, ProducesValue, NoValue
<1>3. CASE i.arg = "read" /\ i.type \in DOMAIN InputOpcode
  <2>1. EmitCallRuntime(x, i)
          = Top(Put(x, Opcode(InputOpcode[i.type], NoName, 0)), n)
    BY <1>1, <1>3 DEF EmitCallRuntime, UnaryFuncs, HostFsFuncs
  <2>2. InputOpcode[i.type] \in Inputs
    BY <1>3, Operands
  <2> QED
    BY <1>2, <2>1, <2>2, ReadClean
<1>4. CASE i.arg \in {"sqrt", "coerce.int", "str.seq", "str.fromByte"} /\ m = 1
  <2> DEFINE v == i.args[1]
  <2>1. v \in 0..n - 1
    BY <1>4
  <2> HIDE DEF v
  <2>2. /\ {"COERCE_INT", "SEQ_STR"} \subseteq Mapping /\ NoName \in Names
        /\ "sqrt" \in Names
    BY OpNamesTyped DEF Mapping, Names, UnaryFuncs
  <2>3. CASE i.arg = "sqrt"
    <3>1. EmitCallRuntime(x, i) = EmitUnary(x, Opcode("CALL_FUNC", "sqrt", 1), v, n)
      BY <2>3 DEF EmitCallRuntime, UnaryFuncs, HostFsFuncs, v
    <3> QED
      BY <1>2, <2>1, <2>2, <3>1, UnaryFuncClean
  <2>4. CASE i.arg = "coerce.int"
    <3>1. EmitCallRuntime(x, i) = EmitUnary(x, Opcode("COERCE_INT", NoName, 0), v, n)
      BY <2>4 DEF EmitCallRuntime, UnaryFuncs, HostFsFuncs, v
    <3> QED
      BY <1>2, <2>1, <2>2, <3>1, UnaryClean
  <2>5. CASE i.arg = "str.seq"
    <3>1. EmitCallRuntime(x, i) = EmitUnary(x, Opcode("SEQ_STR", NoName, 0), v, n)
      BY <2>5 DEF EmitCallRuntime, UnaryFuncs, HostFsFuncs, v
    <3> QED
      BY <1>2, <2>1, <2>2, <3>1, UnaryClean
  <2>6. CASE i.arg = "str.fromByte"
    <3>1. EmitCallRuntime(x, i)
            = Top(Put(Put(Put(Put(x, LoadTemp(v)), PushInt(1)),
                          Opcode("ADD", NoName, 0)),
                      Opcode("LOAD_ARR", "__apollo$chr", 0)), n)
      BY <1>1, <2>6 DEF EmitCallRuntime, UnaryFuncs, HostFsFuncs, v
    <3> QED
      BY <1>2, <2>1, <3>1, FromByteClean
  <2> QED
    BY <1>4, <2>3, <2>4, <2>5, <2>6
<1>5. CASE i.arg \in {"hostfs.read", "str.concat"} /\ m = 2
  <2>1. i.args[1] \in 0..n - 1 /\ i.args[2] \in 0..n - 1
    BY <1>5
  <2>2. CASE i.arg = "hostfs.read"
    <3>1. Members(i.args) \subseteq x.spilled
      BY <1>1, MembersType
    <3>2. EmitCallRuntime(x, i)
            = Top(Put(LoadArgs(x, i.args),
                      Opcode("CALL_FUNC", "hostfs.read", Len(i.args))), n)
      BY <1>1, <2>2, <3>1 DEF EmitCallRuntime, UnaryFuncs, HostFsFuncs
    <3>3. "hostfs.read" \in Names
      BY DEF Names, HostFsFuncs
    <3> QED
      BY <1>2, <3>2, <3>3, HostFsClean
  <2>3. CASE i.arg = "str.concat"
    <3>1. EmitCallRuntime(x, i)
            = Top(Put(Put(Put(x, LoadTemp(i.args[1])), LoadTemp(i.args[2])),
                      Opcode("CONCAT", NoName, 0)), n)
      BY <1>1, <2>3 DEF EmitCallRuntime, UnaryFuncs, HostFsFuncs
    <3> QED
      BY <1>2, <2>1, <3>1, ConcatClean
  <2> QED
    BY <1>5, <2>2, <2>3
<1> QED
  BY <1>3, <1>4, <1>5

(* emitInstr on a user call, with array arguments and with or without a     *)
(* result.                                                                  *)
LEMMA CallInstr ==
    ASSUME NEW x, NEW n \in Nat, Clean(x, n), NEW i, i.op = "Call",
           i.arg \in Names, i.res \in {n, NoValue},
           NEW m \in Nat, i.args \in [1..m -> 0..n - 1],
           NEW j \in Nat, i.mats \in [1..j -> Bindings]
    PROVE  Clean(EmitInstr(x, i), IF i.res = n THEN n + 1 ELSE n)
<1>1. ~x.failed
  BY CleanFields
<1>2. EmitInstr(x, i) = EmitUserCall(x, i)
  BY <1>1, Operands DEF EmitInstr
<1> QED
  BY <1>2, UserCallClean

---------------------------------------------------------------------------
(* The inductive invariant: what is true of the context in each phase.  The *)
(* properties below need it because each says only what is wrong after a    *)
(* bad step, while the emitter's next step relies on top, spilled, depth    *)
(* and stored agreeing.                                                     *)
IInv ==
    /\ next \in Nat
    /\ phase \in Phases
    /\ phase = "entry" => Clean(c, 0) /\ next = 0
    /\ phase = "body" => Clean(c, next)
    /\ phase \in {"boundary", "done"} => Ended(c, next)

(* Emission starts in the invariant.                                        *)
LEMMA InitIInv == Init => IInv
<1> SUFFICES ASSUME Init PROVE IInv
  OBVIOUS
<1> PICK f \in FnNames : c = Context(f, 0)
  BY DEF Init
<1>1. Clean(c, 0)
  <2>1. 0..0 - 1 = {} /\ <<>> \in Seq(GoodOpcodes)
    OBVIOUS
  <2>2. Context(f, 0) \in GoodContexts
    BY <2>1, NoValueType DEF Context, GoodContexts
  <2> QED
    BY <2>1, <2>2 DEF Context, Clean, Stage
<1> QED
  BY <1>1 DEF Init, IInv, Phases

(* An instruction that defines a value keeps the invariant if emitInstr     *)
(* keeps the context clean.                                                 *)
LEMMA DefineIInv ==
    ASSUME IInv, NEW i, Define(i),
           phase = "body" => Clean(EmitInstr(c, [i EXCEPT !.res = next]), next + 1)
    PROVE  IInv'
<1>1. phase' = "body" /\ next' \in Nat /\ Clean(c', next')
  BY DEF Define, IInv
<1> QED
  BY <1>1 DEF IInv, Phases

(* The same for an instruction that defines none.                           *)
LEMMA EffectIInv ==
    ASSUME IInv, NEW i, Effect(i), phase = "body" => Clean(EmitInstr(c, i), next)
    PROVE  IInv'
<1>1. phase' = "body" /\ next' \in Nat /\ Clean(c', next')
  BY DEF Effect, IInv
<1> QED
  BY <1>1 DEF IInv, Phases

(* The actions that define a value keep the invariant.                      *)
LEMMA ValueInstructions ==
    ASSUME IInv, Const \/ LoadLocal \/ LoadIndex \/ Binary \/ Unary
    PROVE  IInv'
<1>0. phase = "body" => Clean(c, next) /\ next \in Nat
  BY DEF IInv
<1>1. CASE Const
  <2> PICK op \in DOMAIN ConstOpcode, n \in Literals :
             Define([NoInstr EXCEPT !.op = op, !.n = n])
    BY <1>1 DEF Const
  <2> DEFINE i == [NoInstr EXCEPT !.op = op, !.n = n]
             ii == [i EXCEPT !.res = next]
  <2>1. ii.op \in DOMAIN ConstOpcode /\ ii.n = n /\ ii.res = next
    BY DEF NoInstr
  <2> HIDE DEF ii
  <2>3. phase = "body" => Clean(EmitInstr(c, ii), next + 1)
    BY <1>0, <2>1, SimpleInstr
  <2> QED
    BY <2>3, DefineIInv DEF ii
<1>2. CASE LoadLocal
  <2> PICK slot \in Slots :
             Define([NoInstr EXCEPT !.op = "LoadLocal", !.arg = slot])
    BY <1>2 DEF LoadLocal
  <2> DEFINE i == [NoInstr EXCEPT !.op = "LoadLocal", !.arg = slot]
             ii == [i EXCEPT !.res = next]
  <2>1. ii.op = "LoadLocal" /\ ii.arg \in Names /\ ii.res = next
    BY NamesUsed DEF NoInstr
  <2> HIDE DEF ii
  <2>2. phase = "body" => Clean(EmitInstr(c, ii), next + 1)
    BY <1>0, <2>1, SimpleInstr
  <2> QED
    BY <2>2, DefineIInv DEF ii
<1>3. CASE LoadIndex
  <2> PICK slot \in Slots, low \in Lows, v \in Values :
             Define([NoInstr EXCEPT !.op = "LoadIndex", !.arg = slot, !.b = v,
                                    !.n = low])
    BY <1>3 DEF LoadIndex
  <2> DEFINE i == [NoInstr EXCEPT !.op = "LoadIndex", !.arg = slot, !.b = v,
                                  !.n = low]
             ii == [i EXCEPT !.res = next]
  <2>1. /\ ii.op = "LoadIndex" /\ ii.arg \in Names /\ ii.b \in 0..next - 1
        /\ ii.n = low /\ ii.res = next
    BY NamesUsed DEF NoInstr, Values
  <2>2. low \in Readable
    BY EmitAssumption DEF Readable
  <2> HIDE DEF ii
  <2>3. phase = "body" => Clean(EmitInstr(c, ii), next + 1)
    BY <1>0, <2>1, <2>2, SimpleInstr
  <2> QED
    BY <2>3, DefineIInv DEF ii
<1>4. CASE Binary
  <2> PICK op \in {"Add", "Mul", "Mod", "CmpLe", "And", "Or"},
           l \in Values, r \in Values :
             Define([NoInstr EXCEPT !.op = op, !.a = l, !.b = r])
    BY <1>4 DEF Binary
  <2> DEFINE i == [NoInstr EXCEPT !.op = op, !.a = l, !.b = r]
             ii == [i EXCEPT !.res = next]
  <2>1. /\ ii.op = op /\ ii.a \in 0..next - 1 /\ ii.b \in 0..next - 1
        /\ ii.res = next
    BY DEF NoInstr, Values
  <2>2. op \in DOMAIN BinaryOpcode \cup {"Or"}
    BY Operands
  <2> HIDE DEF ii
  <2>3. phase = "body" => Clean(EmitInstr(c, ii), next + 1)
    BY <1>0, <2>1, <2>2, BinaryInstr
  <2> QED
    BY <2>3, DefineIInv DEF ii
<1>5. CASE Unary
  <2> PICK op \in {"Neg", "Not", "ConvertF64", "Abs", "Copy"}, v \in Values :
             Define([NoInstr EXCEPT !.op = op, !.a = v])
    BY <1>5 DEF Unary
  <2> DEFINE i == [NoInstr EXCEPT !.op = op, !.a = v]
             ii == [i EXCEPT !.res = next]
  <2>1. ii.op = op /\ ii.a \in 0..next - 1 /\ ii.res = next
    BY DEF NoInstr, Values
  <2>2. op \in DOMAIN UnaryOpcode \cup {"Neg", "Not", "Copy"}
    BY Operands
  <2> HIDE DEF ii
  <2>3. phase = "body" => Clean(EmitInstr(c, ii), next + 1)
    BY <1>0, <2>1, <2>2, UnaryInstr
  <2> QED
    BY <2>3, DefineIInv DEF ii
<1> QED
  BY <1>1, <1>2, <1>3, <1>4, <1>5

(* The actions that define none keep the invariant.                         *)
LEMMA EffectInstructions ==
    ASSUME IInv, StoreLocal \/ DimArray \/ ArrayCopy \/ StoreIndex
    PROVE  IInv'
<1>0. phase = "body" => Clean(c, next) /\ next \in Nat
  BY DEF IInv
<1>1. CASE StoreLocal
  <2> PICK slot \in Slots, v \in Values :
             Effect([NoInstr EXCEPT !.op = "StoreLocal", !.arg = slot, !.b = v])
    BY <1>1 DEF StoreLocal
  <2> DEFINE i == [NoInstr EXCEPT !.op = "StoreLocal", !.arg = slot, !.b = v]
  <2>1. i.op = "StoreLocal" /\ i.arg \in Names /\ i.b \in 0..next - 1
    BY NamesUsed DEF NoInstr, Values
  <2> HIDE DEF i
  <2>2. phase = "body" => Clean(EmitInstr(c, i), next)
    BY <1>0, <2>1, EffectInstr
  <2> QED
    BY <2>2, EffectIInv DEF i
<1>2. CASE DimArray
  <2> PICK slot \in Slots, type \in {"I32", "F64", "StringRef"}, size \in Sizes :
             Effect([NoInstr EXCEPT !.op = "DimArray", !.arg = slot,
                                    !.type = type, !.n = size])
    BY <1>2 DEF DimArray
  <2> DEFINE i == [NoInstr EXCEPT !.op = "DimArray", !.arg = slot,
                                  !.type = type, !.n = size]
  <2>1. i.op = "DimArray" /\ i.arg \in Names /\ i.n \in 1..MaxInt
    BY NamesUsed, EmitAssumption DEF NoInstr
  <2> HIDE DEF i
  <2>2. phase = "body" => Clean(EmitInstr(c, i), next)
    BY <1>0, <2>1, EffectInstr
  <2> QED
    BY <2>2, EffectIInv DEF i
<1>3. CASE ArrayCopy
  <2> PICK dst \in Slots, src \in Slots :
             Effect([NoInstr EXCEPT !.op = "ArrayCopy", !.arg = dst, !.src = src])
    BY <1>3 DEF ArrayCopy
  <2> DEFINE i == [NoInstr EXCEPT !.op = "ArrayCopy", !.arg = dst, !.src = src]
  <2>1. i.op = "ArrayCopy" /\ i.arg \in Names /\ i.src \in Names
    BY NamesUsed DEF NoInstr
  <2> HIDE DEF i
  <2>2. phase = "body" => Clean(EmitInstr(c, i), next)
    BY <1>0, <2>1, EffectInstr
  <2> QED
    BY <2>2, EffectIInv DEF i
<1>4. CASE StoreIndex
  <2> PICK slot \in Slots, low \in Lows, index \in Values, v \in Values :
             Effect([NoInstr EXCEPT !.op = "StoreIndex", !.arg = slot, !.b = v,
                                    !.args = <<index>>, !.n = low])
    BY <1>4 DEF StoreIndex
  <2> DEFINE i == [NoInstr EXCEPT !.op = "StoreIndex", !.arg = slot, !.b = v,
                                  !.args = <<index>>, !.n = low]
  <2>1. /\ i.op = "StoreIndex" /\ i.arg \in Names /\ i.b \in 0..next - 1
        /\ i.args[1] \in 0..next - 1 /\ i.n = low
    BY NamesUsed DEF NoInstr, Values
  <2>2. low \in Readable
    BY EmitAssumption DEF Readable
  <2> HIDE DEF i
  <2>3. phase = "body" => Clean(EmitInstr(c, i), next)
    BY <1>0, <2>1, <2>2, EffectInstr
  <2> QED
    BY <2>3, EffectIInv DEF i
<1> QED
  BY <1>1, <1>2, <1>3, <1>4

(* An argument list is a function from some 1..m to the values.             *)
LEMMA ArgListsLengths ==
    ASSUME NEW args \in ArgLists
    PROVE  \E m \in Nat : args \in [1..m -> 0..next - 1]
BY EmitAssumption DEF ArgLists, Values

(* The runtime and user calls keep the invariant.                           *)
LEMMA CallInstructions ==
    ASSUME IInv, Write \/ Read \/ RuntimeUnary \/ RuntimeBinary \/ UserCall
    PROVE  IInv'
<1>0. phase = "body" => Clean(c, next) /\ next \in Nat
  BY DEF IInv
<1>1. CASE Write
  <2> PICK name \in {"write", "writeln"}, args \in ArgLists :
             \E types \in [DOMAIN args -> {"I32", "Char"}] :
                 Effect([NoInstr EXCEPT !.op = "CallRuntime", !.arg = name,
                                        !.args = args, !.types = types])
    BY <1>1 DEF Write
  <2> PICK types \in [DOMAIN args -> {"I32", "Char"}] :
             Effect([NoInstr EXCEPT !.op = "CallRuntime", !.arg = name,
                                    !.args = args, !.types = types])
    OBVIOUS
  <2> PICK m \in Nat : args \in [1..m -> 0..next - 1]
    BY ArgListsLengths
  <2> DEFINE i == [NoInstr EXCEPT !.op = "CallRuntime", !.arg = name,
                                  !.args = args, !.types = types]
  <2>1. /\ i.op = "CallRuntime" /\ i.arg = name /\ i.args = args
        /\ i.res = NoValue
    BY DEF NoInstr
  <2> HIDE DEF i
  <2>2. phase = "body" => Clean(EmitInstr(c, i), next)
    BY <1>0, <2>1, WriteInstr
  <2> QED
    BY <2>2, EffectIInv DEF i
<1>2. CASE Read
  <2> PICK type \in {"I32", "F64", "Char"} :
             Define([NoInstr EXCEPT !.op = "CallRuntime", !.arg = "read",
                                    !.type = type])
    BY <1>2 DEF Read
  <2> DEFINE i == [NoInstr EXCEPT !.op = "CallRuntime", !.arg = "read",
                                  !.type = type]
             ii == [i EXCEPT !.res = next]
  <2>1. /\ ii.op = "CallRuntime" /\ ii.arg = "read" /\ ii.res = next
        /\ ii.args = <<>> /\ ii.type \in DOMAIN InputOpcode
    BY Operands DEF NoInstr
  <2>2. <<>> \in [1..0 -> 0..next - 1] /\ 0 \in Nat
    OBVIOUS
  <2> HIDE DEF ii
  <2>3. phase = "body" => Clean(EmitInstr(c, ii), next + 1)
    BY <1>0, <2>1, <2>2, RuntimeInstr
  <2> QED
    BY <2>3, DefineIInv DEF ii
<1>3. CASE RuntimeUnary
  <2> PICK name \in {"sqrt", "coerce.int", "str.seq", "str.fromByte"},
           v \in Values :
             Define([NoInstr EXCEPT !.op = "CallRuntime", !.arg = name,
                                    !.args = <<v>>])
    BY <1>3 DEF RuntimeUnary
  <2> DEFINE i == [NoInstr EXCEPT !.op = "CallRuntime", !.arg = name,
                                  !.args = <<v>>]
             ii == [i EXCEPT !.res = next]
  <2>1. /\ ii.op = "CallRuntime" /\ ii.arg = name /\ ii.res = next
        /\ ii.args = <<v>>
    BY DEF NoInstr
  <2>2. <<v>> \in [1..1 -> 0..next - 1] /\ 1 \in Nat
    BY DEF Values
  <2> HIDE DEF ii
  <2>3. phase = "body" => Clean(EmitInstr(c, ii), next + 1)
    BY <1>0, <2>1, <2>2, RuntimeInstr
  <2> QED
    BY <2>3, DefineIInv DEF ii
<1>4. CASE RuntimeBinary
  <2> PICK name \in {"hostfs.read", "str.concat"}, l \in Values, r \in Values :
             Define([NoInstr EXCEPT !.op = "CallRuntime", !.arg = name,
                                    !.args = <<l, r>>])
    BY <1>4 DEF RuntimeBinary
  <2> DEFINE i == [NoInstr EXCEPT !.op = "CallRuntime", !.arg = name,
                                  !.args = <<l, r>>]
             ii == [i EXCEPT !.res = next]
  <2>1. /\ ii.op = "CallRuntime" /\ ii.arg = name /\ ii.res = next
        /\ ii.args = <<l, r>>
    BY DEF NoInstr
  <2>2. <<l, r>> \in [1..2 -> 0..next - 1] /\ 2 \in Nat
    BY DEF Values
  <2> HIDE DEF ii
  <2>3. phase = "body" => Clean(EmitInstr(c, ii), next + 1)
    BY <1>0, <2>1, <2>2, RuntimeInstr
  <2> QED
    BY <2>3, DefineIInv DEF ii
<1>5. CASE UserCall
  <2> PICK callee \in Callees, args \in ArgLists, dst \in Slots, src \in Slots,
           size \in Sizes, copies \in 0..1 :
        LET i == [NoInstr EXCEPT !.op = "Call", !.arg = callee, !.args = args,
                      !.mats = [k \in 1..copies |->
                                   [dst |-> dst, src |-> src, size |-> size]]]
        IN  Define(i) \/ Effect(i)
    BY <1>5 DEF UserCall
  <2> PICK m \in Nat : args \in [1..m -> 0..next - 1]
    BY ArgListsLengths
  <2> DEFINE mats == [k \in 1..copies |->
                         [dst |-> dst, src |-> src, size |-> size]]
  <2>1. mats \in [1..copies -> Bindings] /\ copies \in Nat
    BY NamesUsed, EmitAssumption DEF Bindings
  <2> HIDE DEF mats
  <2> DEFINE i == [NoInstr EXCEPT !.op = "Call", !.arg = callee, !.args = args,
                                  !.mats = mats]
             ii == [i EXCEPT !.res = next]
  <2>2. Define(i) \/ Effect(i)
    BY DEF mats
  <2>3. /\ i.op = "Call" /\ i.arg \in Names /\ i.res = NoValue
        /\ i.args = args /\ i.mats = mats
    BY NamesUsed DEF NoInstr
  <2>4. /\ ii.op = "Call" /\ ii.arg \in Names /\ ii.res = next
        /\ ii.args = args /\ ii.mats = mats
    BY NamesUsed DEF NoInstr
  <2>5. CASE Effect(i)
    <3> HIDE DEF i
    <3>1. next \in Nat => NoValue # next
      BY DEF NoValue
    <3>2. phase = "body" => Clean(EmitInstr(c, i), next)
      BY <1>0, <2>1, <2>3, <3>1, CallInstr
    <3> QED
      BY <2>5, <3>2, EffectIInv
  <2>6. CASE Define(i)
    <3> HIDE DEF ii
    <3>1. phase = "body" => Clean(EmitInstr(c, ii), next + 1)
      BY <1>0, <2>1, <2>4, CallInstr
    <3> QED
      BY <2>6, <3>1, DefineIInv DEF ii
  <2> QED
    BY <2>2, <2>5, <2>6
<1> QED
  BY <1>1, <1>2, <1>3, <1>4, <1>5

(* Entering and leaving blocks keeps the invariant.                         *)
LEMMA BlockActions ==
    ASSUME IInv, EnterFunction \/ EnterBlock \/ Leave
    PROVE  IInv'
<1>0. next \in Nat
  BY DEF IInv
<1>1. CASE EnterFunction
  <2> PICK n \in 0..MaxArgs, slot \in Slots :
             c' = EmitParamPrologue(BeginBlock(c, c.fn, n), [k \in 1..n |-> slot])
    BY <1>1 DEF EnterFunction
  <2>1. /\ Stage(c, 0, 0, NoValue) /\ next = 0
        /\ phase' = "body" /\ next' = next
    BY <1>1 DEF EnterFunction, IInv, Clean
  <2>2. c.fn \in Names /\ slot \in Names /\ n \in Nat
    BY <2>1, NamesUsed, EmitAssumption DEF Stage, GoodContexts
  <2> DEFINE y == BeginBlock(c, c.fn, n)
  <2>3. Stage(y, 0, n, NoValue)
    BY <2>1, <2>2, BeginBlockStage
  <2> HIDE DEF y
  <2>4. Clean(EmitParamPrologue(y, [k \in 1..n |-> slot]), 0)
    BY <2>2, <2>3, PrologueClean
  <2>5. Clean(c', next')
    BY <2>1, <2>4 DEF y
  <2> QED
    BY <1>0, <2>1, <2>5 DEF IInv, Phases
<1>2. CASE EnterBlock
  <2>1. /\ Ended(c, next) /\ c' = BeginBlock(c, "block", 0)
        /\ phase' = "body" /\ next' = next
    BY <1>2 DEF EnterBlock, IInv
  <2>2. Stage(c, next, 0, NoValue) \/ Stage(c, next, 1, NoValue)
    BY <2>1 DEF Ended, Clean
  <2>3. Stage(BeginBlock(c, "block", 0), next, 0, NoValue)
    BY <1>0, <2>2, NamesUsed, BeginBlockStage
  <2>4. Clean(c', next')
    BY <2>1, <2>3 DEF Clean
  <2> QED
    BY <1>0, <2>1, <2>4 DEF IInv, Phases
<1>3. CASE Leave
  BY <1>3 DEF Leave, IInv, Phases
<1> QED
  BY <1>1, <1>2, <1>3

(* The terminators keep the invariant.                                      *)
LEMMA TerminatorActions ==
    ASSUME IInv, Branch \/ BranchIf \/ ReturnVoid \/ ReturnValue
    PROVE  IInv'
<1>1. \E kind \in {"Branch", "BranchIf", "Return"},
         v \in (0..next - 1) \cup {NoValue} :
           Terminate(kind, v) /\ (kind = "BranchIf" => v # NoValue)
  <2>1. \A v \in Values : v \in 0..next - 1 /\ v # NoValue
    BY DEF Values, NoValue, IInv
  <2> QED
    BY <2>1 DEF Branch, BranchIf, ReturnVoid, ReturnValue
<1> PICK kind \in {"Branch", "BranchIf", "Return"},
         v \in (0..next - 1) \cup {NoValue} :
           Terminate(kind, v) /\ (kind = "BranchIf" => v # NoValue)
  BY <1>1
<1> DEFINE term == [kind |-> kind, value |-> v, target |-> "block",
                    falseTarget |-> "block"]
<1>2. /\ phase = "body" /\ c' = EmitTerminator(c, term)
      /\ phase' = "boundary" /\ next' = next
  BY DEF Terminate
<1>3. /\ term.kind = kind /\ term.value = v /\ term.target \in Names
      /\ term.falseTarget \in Names
  BY NamesUsed
<1>4. Clean(c, next) /\ next \in Nat
  BY <1>2 DEF IInv
<1> HIDE DEF term
<1>5. Ended(c', next')
  BY <1>2, <1>3, <1>4, TerminatorEnded
<1> QED
  BY <1>2, <1>4, <1>5 DEF IInv, Phases

(* The invariant holds initially and every step keeps it.                   *)
THEOREM InductiveInvariant == Spec => []IInv
<1>1. Init => IInv
  BY InitIInv
<1>2. IInv /\ [Next]_vars => IInv'
  <2> SUFFICES ASSUME IInv, [Next]_vars PROVE IInv'
    OBVIOUS
  <2>1. CASE Next
    BY <2>1, ValueInstructions, EffectInstructions, CallInstructions,
       BlockActions, TerminatorActions DEF Next, Instruction
  <2>2. CASE UNCHANGED vars
    BY <2>2 DEF vars, IInv, Clean, Ended, Stage
  <2> QED
    BY <2>1, <2>2
<1> QED
  BY <1>1, <1>2, PTL DEF Spec

(* Whatever the phase, the context is at a stage with at most one cell.     *)
LEMMA IInvStage ==
    ASSUME IInv
    PROVE  \E d \in {0, 1} : Stage(c, next, d, NoValue)
BY DEF IInv, Ended, Clean, Phases

(* The invariant implies type correctness.                                  *)
LEMMA IInvTypeOK == IInv => TypeOK
<1> SUFFICES ASSUME IInv PROVE TypeOK
  OBVIOUS
<1> PICK d \in {0, 1} : Stage(c, next, d, NoValue)
  BY IInvStage
<1>1. Seq(GoodOpcodes) \subseteq Seq(Opcodes)
  <2>1. GoodOpcodes \subseteq Opcodes
    BY DEF GoodOpcodes
  <2> QED
    BY <2>1
<1>2. c \in Contexts
  BY <1>1 DEF Stage, GoodContexts, Contexts
<1> QED
  BY <1>2 DEF TypeOK, IInv, Stage, Values

(* The invariant implies every safety property.                             *)
LEMMA IInvSafety ==
    IInv => /\ EmitNeverFails /\ CodeIsSafe /\ StackDiscipline
            /\ SpilledAreStored /\ LiteralsFit
<1> SUFFICES ASSUME IInv
             PROVE  /\ EmitNeverFails /\ CodeIsSafe /\ StackDiscipline
                    /\ SpilledAreStored /\ LiteralsFit
  OBVIOUS
<1> PICK d \in {0, 1} : Stage(c, next, d, NoValue)
  BY IInvStage
<1>1. EmitNeverFails /\ CodeIsSafe /\ SpilledAreStored
  BY DEF Stage, EmitNeverFails, CodeIsSafe, SpilledAreStored, Values
<1>2. LiteralsFit
  <2>1. c.code \in Seq(GoodOpcodes)
    BY DEF Stage, GoodContexts
  <2>2. \A k \in DOMAIN c.code : c.code[k] \in GoodOpcodes
    BY <2>1
  <2> QED
    BY <2>2 DEF LiteralsFit, GoodOpcodes
<1>3. StackDiscipline
  <2>1. c.top = NoValue
    BY DEF Stage
  <2>2. CASE phase = "body"
    BY <2>1, <2>2 DEF IInv, Clean, Stage, StackDiscipline
  <2>3. CASE phase \in {"boundary", "done"}
    BY <2>1, <2>3 DEF IInv, Ended, Clean, Stage, StackDiscipline
  <2>4. CASE phase = "entry"
    BY <2>4 DEF StackDiscipline
  <2> QED
    BY <2>2, <2>3, <2>4 DEF IInv, Phases
<1> QED
  BY <1>1, <1>2, <1>3

(* The emission context is well formed in every reachable state.            *)
THEOREM TypeCorrect == Spec => []TypeOK
BY InductiveInvariant, IInvTypeOK, PTL

(* No codegen diagnostic is ever reported for IR whose operands are defined *)
(* earlier in layout order.                                                 *)
THEOREM NeverFails == Spec => []EmitNeverFails
<1>1. IInv => EmitNeverFails
  BY IInvSafety
<1> QED
  BY <1>1, InductiveInvariant, PTL

(* No emitted opcode underflows the operand stack or loads a temporary that *)
(* nothing before it stores.                                                *)
THEOREM SafeCode == Spec => []CodeIsSafe
<1>1. IInv => CodeIsSafe
  BY IInvSafety
<1> QED
  BY <1>1, InductiveInvariant, PTL

(* The operand stack is empty between instructions and holds at most a      *)
(* function's result at the end of a block.                                 *)
THEOREM Disciplined == Spec => []StackDiscipline
<1>1. IInv => StackDiscipline
  BY IInvSafety
<1> QED
  BY <1>1, InductiveInvariant, PTL

(* Every value defined so far is stored, and the emitter knows exactly      *)
(* which ones are.                                                          *)
THEOREM Retrievable == Spec => []SpilledAreStored
<1>1. IInv => SpilledAreStored
  BY IInvSafety
<1> QED
  BY <1>1, InductiveInvariant, PTL

(* The emitter adds no literal that the VM cannot read, whatever the bounds *)
(* and sizes of the arrays: a pushed integer out of range is a constant     *)
(* of the IR, passed on as it is.                                           *)
THEOREM Representable == Spec => []LiteralsFit
<1>1. IInv => LiteralsFit
  BY IInvSafety
<1> QED
  BY <1>1, InductiveInvariant, PTL
=============================================================================
