---------------------------- MODULE MachineProofs ----------------------------
(***************************************************************************)
(* What a verifier accepts runs as the verifier says, for every program    *)
(* and every input: the operand stack has the height it is known to have,  *)
(* a return goes back with what its call expects, and a temporary that is  *)
(* loaded is the one its own activation stored.                            *)
(***************************************************************************)
EXTENDS Compile, LoopLemmas, SequenceTheorems, TLAPS

---------------------------------------------------------------------------
(* Values.                                                                  *)

LEMMA QuotientIsInt == ASSUME NEW a \in Int, NEW b \in Int, b # 0 PROVE Quotient(a, b) \in Int
<1>1. Magnitude(a) \in Nat /\ Magnitude(b) \in Nat /\ Magnitude(b) > 0
  BY DEF Magnitude
<1>2. Magnitude(a) \div Magnitude(b) \in Int
  BY <1>1
<1> QED
  BY <1>2 DEF Quotient

LEMMA RootIsInt == ASSUME NEW a \in Int PROVE SquareRoot(a) \in Int
<1> DEFINE square == 4 * Magnitude(a)
           T == {r \in Nat : square < (r + 1) * (r + 1)}
           IsRoot(r) == r * r <= square /\ square < (r + 1) * (r + 1)
<1>1. square \in Nat
  BY DEF Magnitude
<1>2. square \in T
  <2>1. (square + 1) * (square + 1) >= square + 1
    <3> HIDE DEF square
    <3> QED BY <1>1
  <2> QED BY <1>1, <2>1
<1>3. PICK r \in T : \A j \in T : r <= j
  <2>1. T \in SUBSET Nat /\ T # {}
    BY <1>2
  <2> HIDE DEF T
  <2> QED BY <2>1, LeastExists
<1>4. r * r <= square
  <2>1. CASE r = 0
    BY <1>1, <2>1
  <2>2. CASE r > 0
    <3>1. r - 1 \in Nat /\ r - 1 \notin T
      BY <1>3, <2>2
    <3>2. ~(square < (r - 1 + 1) * (r - 1 + 1))
      BY <3>1
    <3>3. r - 1 + 1 = r
      BY <3>1
    <3>4. r * r \in Int
      BY <1>3
    <3> HIDE DEF square
    <3> QED BY <1>1, <3>2, <3>3, <3>4
  <2> QED BY <1>3, <2>1, <2>2
<1>5. r \in 0..square /\ IsRoot(r)
  BY <1>2, <1>3, <1>4
<1>6. (CHOOSE x \in 0..square : IsRoot(x)) \in 0..square
  <2> HIDE DEF square, IsRoot
  <2> QED BY <1>5
<1> QED
  BY <1>6 DEF SquareRoot

LEMMA QuartersAreInt == ASSUME NEW v \in Cell PROVE Quarters(v) \in Int /\ (v.n # 0 => Quarters(v) # 0)
  BY DEF Quarters, Cell

LEMMA ArithmeticIsCell ==
    ASSUME NEW op \in ArithmeticOps, NEW l \in Cell, NEW r \in Cell,
           op \in {"DIV", "MOD"} => r.n # 0
    PROVE  Arithmetic(op, l, r) \in Cell
<1> DEFINE a == Quarters(l)
           b == Quarters(r)
<1>1. a \in Int /\ b \in Int /\ l.n \in Int /\ r.n \in Int /\ (r.n # 0 => b # 0)
  BY QuartersAreInt DEF Cell
<1>2. CASE op \in {"ADD", "SUB", "MUL"}
  <2>1. a * b \in Int /\ l.n * r.n \in Int
    BY <1>1
  <2>2. Product(a, b) \in Int
    BY <2>1, QuotientIsInt DEF Product
  <2> QED BY <1>1, <1>2, <2>1, <2>2 DEF Arithmetic, Whole, Real, Cell
<1>3. CASE op = "DIV"
  <2>1. Ratio(a, b) \in Int /\ Quotient(l.n, r.n) \in Int
    BY <1>1, <1>3, QuotientIsInt DEF Ratio
  <2> QED BY <1>3, <2>1 DEF Arithmetic, Whole, Real, Cell
<1>4. CASE op = "MOD"
  <2>1. Quotient(l.n, r.n) \in Int
    BY <1>1, <1>4, QuotientIsInt
  <2>2. r.n * Quotient(l.n, r.n) \in Int
    BY <1>1, <2>1
  <2>3. Remainder(l.n, r.n) \in Int
    BY <1>1, <2>2 DEF Remainder
  <2> QED BY <1>4, <2>3 DEF Arithmetic, Whole, Cell
<1> QED
  BY <1>2, <1>3, <1>4 DEF ArithmeticOps

LEMMA ComparisonIsCell ==
    ASSUME NEW op, NEW l, NEW r PROVE Comparison(op, l, r) \in Cell
  BY DEF Comparison, Truth, Whole, Cell

LEMMA ConvertedIsCell ==
    ASSUME NEW op \in {"COERCE_INT", "COERCE_FLT", "ABS_INT", "CALL_FUNC"}, NEW v \in Cell
    PROVE  Converted(op, v) \in Cell
<1>1. Quarters(v) \in Int /\ v.n \in Int
  BY QuartersAreInt DEF Cell
<1>2. Quotient(Quarters(v), 4) \in Int /\ SquareRoot(Quarters(v)) \in Int /\ Magnitude(v.n) \in Int
  BY <1>1, QuotientIsInt, RootIsInt DEF Magnitude
<1>3. [v EXCEPT !.n = Magnitude(v.n)] \in Cell
  BY <1>2 DEF Cell
<1> QED
  BY <1>1, <1>2, <1>3 DEF Converted, Whole, Real, Widen, Cell

---------------------------------------------------------------------------
(* Opcodes.                                                                 *)

LEMMA Effects ==
    ASSUME NEW o
    PROVE  /\ o.op \in {"PUSH", "PUSH_FLT", "PUSH_STR", "LOAD_VAR", "INPUT_INT", "INPUT_FLT",
                        "INPUT_STR"} => Emission!Pops(o) = 0 /\ Emission!Pushes(o) = 1
           /\ o.op \in {"STORE_VAR", "JZ", "PRINT_VAL", "PRINT_CHAR", "DIM_ARRAY", "MAT_INIT"} =>
                  Emission!Pops(o) = 1 /\ Emission!Pushes(o) = 0
           /\ o.op \in ArithmeticOps \cup CompareOps =>
                  Emission!Pops(o) = 2 /\ Emission!Pushes(o) = 1
           /\ o.op \in {"COERCE_INT", "COERCE_FLT", "ABS_INT", "LOAD_ARR"} =>
                  Emission!Pops(o) = 1 /\ Emission!Pushes(o) = 1
           /\ o.op = "CALL_FUNC" => Emission!Pops(o) = o.n /\ Emission!Pushes(o) = 1
           /\ o.op \in {"LABEL", "JUMP", "PRINT_EOL", "MAT_COPY", "HALT", "RETURN"} =>
                  Emission!Pops(o) = 0 /\ Emission!Pushes(o) = 0
           /\ o.op = "STORE_ARR" => Emission!Pops(o) = 2 /\ Emission!Pushes(o) = 0
           /\ o.op = "CALL" => Emission!Pops(o) = o.n /\ Emission!Pushes(o) = 1
           /\ o.op = "CALLVOID" => Emission!Pops(o) = o.n /\ Emission!Pushes(o) = 0
  BY DEF Emission!Pops, Emission!Pushes, Emission!PopOne, Emission!PopTwo, Emission!PopArgs,
         Emission!PushOne, ArithmeticOps, CompareOps

---------------------------------------------------------------------------
(* The invariant.  The machine is where the verifier has been: every active  *)
(* call stands at an opcode, the cells of its activation are as many as the  *)
(* verifier knows there, and it returns behind the call that made it.        *)

(* The opcode at which activation i is, or goes on when its callee returns.  *)
Place(i) == IF i = Len(frames) THEN pc ELSE frames[i + 1].returnTo

BalancedCode ==
    /\ code \in Seq(Opcodes)
    /\ HeightsAgree(Known) /\ CallsAgree(Known)

Values ==
    /\ stack \in Seq(Cell) /\ input \in Seq(Cell)
    /\ \A name \in DOMAIN memory : memory[name] \in [val : Cell, by : 0..calls]
    /\ \A name \in DOMAIN arrays : \A k \in DOMAIN arrays[name] : arrays[name][k] \in Cell

Activations ==
    /\ calls \in Nat
    /\ frames \in Seq([returnTo : Nat, number : 0..calls, base : Nat])
    /\ Len(frames) >= 1 /\ frames[1].base = 0

CalledFrom(i) ==
    LET call == frames[i].returnTo - 1
    IN  /\ call \in DOMAIN code /\ code[call].op \in Calls
        /\ Known[Place(i)].fn = code[call].arg
        /\ frames[i].base + code[call].n = frames[i - 1].base + Known[call].height

Balanced ==
    /\ \A i \in DOMAIN frames : Place(i) \in DOMAIN code
    /\ \A i \in DOMAIN frames : i > 1 => CalledFrom(i)
    /\ Known[Place(1)].fn = "main"
    /\ Height = Frame.base + Known[pc].height

BalanceInv ==
    /\ status \in {"compiled", "rejected", "running", "halted", "trapped"}
    /\ Values /\ Activations
    /\ status \in {"compiled", "rejected"} => EmptyMachine
    /\ status # "rejected" => BalancedCode
    /\ status \in {"running", "halted", "trapped"} => Balanced

(* And nobody has overwritten the temporaries of an activation: the ones it  *)
(* may still load are its own, because no function is active twice.          *)
SeparateCode == TemporariesAreStored(Known) /\ SlotsAreApart(Known)

Descending ==
    \A i, j \in DOMAIN frames : i < j => Rank(Known[Place(j)].fn) < Rank(Known[Place(i)].fn)

Kept ==
    \A i \in DOMAIN frames : \A name \in Known[Place(i)].temps :
        name \in DOMAIN memory /\ memory[name].by = frames[i].number

FreshInv ==
    /\ status # "rejected" => SeparateCode
    /\ status = "running" => Descending /\ Kept

---------------------------------------------------------------------------
(* The code does not change, nor does what the verifier knows of it.        *)

SameCode == code' = code /\ arity' = arity

LEMMA SameReading ==
    ASSUME SameCode
    PROVE  /\ Known' = Known
           /\ \A k : Successors(k)' = Successors(k)
           /\ \A f : Target(f)' = Target(f) /\ Rank(f)' = Rank(f) /\ Due(f)' = Due(f)
                    /\ (Resolves(f)' <=> Resolves(f))
<1>1. Known' = Known
  BY DEF SameCode, Known
<1>2. \A f : Target(f)' = Target(f)
  BY DEF SameCode, Target
<1>3. \A k : Successors(k)' = Successors(k)
  BY <1>2 DEF SameCode, Successors
<1>4. \A f : Rank(f)' = Rank(f) /\ Due(f)' = Due(f) /\ (Resolves(f)' <=> Resolves(f))
  BY <1>2 DEF SameCode, Rank, Due, Resolves
<1> QED
  BY <1>1, <1>2, <1>3, <1>4

LEMMA BalancedCodeStays == ASSUME SameCode, BalancedCode PROVE BalancedCode'
<1>1. HeightsAgree(Known)'
  BY SameReading DEF SameCode, BalancedCode, HeightsAgree
<1>2. CallsAgree(Known)'
  BY SameReading DEF SameCode, BalancedCode, CallsAgree
<1> QED
  BY <1>1, <1>2 DEF SameCode, BalancedCode

LEMMA SeparateCodeStays == ASSUME SameCode, SeparateCode PROVE SeparateCode'
<1>1. TemporariesAreStored(Known)'
  BY SameReading DEF SameCode, SeparateCode, TemporariesAreStored
<1>2. SlotsAreApart(Known)'
  BY SameReading DEF SameCode, SeparateCode, SlotsAreApart
<1> QED
  BY <1>1, <1>2 DEF SeparateCode

---------------------------------------------------------------------------
(* Where the machine is.                                                    *)

LEMMA Here ==
    ASSUME BalanceInv, status = "running"
    PROVE  /\ BalancedCode /\ Balanced /\ Values /\ Activations
           /\ pc \in DOMAIN code /\ Current \in Opcodes /\ Current = code[pc]
           /\ Len(frames) \in Nat /\ Len(frames) \in DOMAIN frames
           /\ Frame = frames[Len(frames)]
           /\ Frame \in [returnTo : Nat, number : 0..calls, base : Nat]
           /\ Height \in Nat /\ Height = Frame.base + Known[pc].height
           /\ Known[pc].height \in Nat
           /\ Emission!Pops(Current) \in 0..Height
           /\ Emission!Pops(Current) \in 0..Known[pc].height
           /\ pc \in Nat
<1>1. BalancedCode /\ Balanced /\ Values /\ Activations
  BY DEF BalanceInv
<1>2. Len(frames) \in Nat /\ DOMAIN frames = 1..Len(frames) /\ Len(frames) \in DOMAIN frames
  BY <1>1 DEF Activations
<1>3. Frame = frames[Len(frames)] /\ Frame \in [returnTo : Nat, number : 0..calls, base : Nat]
  <2> DEFINE S == [returnTo : Nat, number : 0..calls, base : Nat]
  <2>1. frames \in Seq(S)
    BY <1>1 DEF Activations
  <2> HIDE DEF S
  <2>2. frames[Len(frames)] \in S
    BY <1>2, <2>1
  <2> QED BY <2>2 DEF Frame, S
<1>4. pc \in DOMAIN code
  BY <1>1, <1>2 DEF Balanced, Place
<1>5. Current \in Opcodes /\ Current = code[pc] /\ pc \in Nat
  BY <1>1, <1>4 DEF BalancedCode, Current
<1>6. Known[pc].height \in Nat /\ Emission!Pops(Current) \in 0..Known[pc].height
  BY <1>1, <1>4 DEF BalancedCode, HeightsAgree, Current
<1>7. Height \in Nat /\ Height = Frame.base + Known[pc].height
  BY <1>1 DEF Values, Balanced, Height
<1>8. Emission!Pops(Current) \in 0..Height
  BY <1>3, <1>6, <1>7
<1> QED
  BY <1>1, <1>2, <1>3, <1>4, <1>5, <1>6, <1>7, <1>8

(* The steps inside a function.                                             *)
Advances ==
    /\ status = "running" /\ status' = "running"
    /\ SameCode /\ UNCHANGED <<frames, calls>>
    /\ pc' \in Successors(pc)
    /\ stack' \in Seq(Cell)
    /\ Len(stack') = Height - Emission!Pops(Current) + Emission!Pushes(Current)

LEMMA AdvanceIs ==
    ASSUME BalanceInv, Advances
    PROVE  /\ pc' \in DOMAIN code
           /\ Known[pc'].fn = Known[pc].fn
           /\ Known[pc'].height = After(Known[pc], Current).height
           /\ \A i \in DOMAIN frames :
                  /\ Place(i)' = IF i = Len(frames) THEN pc' ELSE Place(i)
                  /\ Known[Place(i)'].fn = Known[Place(i)].fn
<1>1. /\ pc' \in DOMAIN code
      /\ Known[pc'].fn = Known[pc].fn
      /\ Known[pc'].height = After(Known[pc], Current).height
  BY Here DEF Advances, BalancedCode, HeightsAgree
<1>2. \A i \in DOMAIN frames : Place(i)' = IF i = Len(frames) THEN pc' ELSE Place(i)
  BY DEF Advances, Place
<1>3. \A i \in DOMAIN frames : Known[Place(i)'].fn = Known[Place(i)].fn
  BY <1>1, <1>2 DEF Place
<1> QED
  BY <1>1, <1>2, <1>3

LEMMA AdvanceBalances == ASSUME BalanceInv, Advances PROVE Balanced'
<1>1. frames' = frames /\ code' = code /\ Known' = Known
  BY SameReading DEF Advances, SameCode
<1>2. Balanced /\ Activations /\ DOMAIN frames = 1..Len(frames) /\ Len(frames) \in Nat
  BY Here DEF Advances, Activations
<1>3. \A i \in DOMAIN frames' : Place(i)' \in DOMAIN code'
  BY <1>1, <1>2, AdvanceIs DEF Balanced
<1>4. \A i \in DOMAIN frames' : i > 1 => CalledFrom(i)'
  BY <1>1, <1>2, AdvanceIs DEF Balanced, CalledFrom
<1>5. Known'[Place(1)'].fn = "main"
  BY <1>1, <1>2, AdvanceIs DEF Balanced, Activations
<1>6. Height' = Frame'.base + Known'[pc'].height
  <2>1. Known[pc'].height = Known[pc].height - Emission!Pops(Current) + Emission!Pushes(Current)
    BY AdvanceIs DEF After
  <2>2. Emission!Pushes(Current) \in Nat
    BY DEF Emission!Pushes
  <2>3. Frame' = Frame
    BY <1>1 DEF Frame
  <2>4. Height' = Height - Emission!Pops(Current) + Emission!Pushes(Current)
    BY DEF Height, Advances
  <2>5. /\ Frame.base \in Nat /\ Height \in Nat /\ Height = Frame.base + Known[pc].height
        /\ Known[pc].height \in Nat /\ Emission!Pops(Current) \in 0..Height
    BY Here DEF Advances
  <2> QED BY <1>1, <2>1, <2>2, <2>3, <2>4, <2>5
<1> QED
  BY <1>3, <1>4, <1>5, <1>6 DEF Balanced

(* A step that leaves the variables alone, or stores into one.              *)
Stores ==
    /\ Current.op = "STORE_VAR" /\ Height > 0
    /\ memory' = Updated(memory, Current.arg, [val |-> TopOf(0), by |-> Frame.number])

(* What is known of an activation that waits.                               *)
LEMMA RanksAreNumbers ==
    ASSUME BalanceInv, status = "running", NEW i \in DOMAIN frames
    PROVE  Rank(Known[Place(i)].fn) \in Nat
<1>1. CASE i = 1
  BY <1>1, Here DEF Balanced, Rank, BalancedCode
<1>2. CASE i # 1
  <2>1. i \in 1..Len(frames) /\ i > 1
    BY <1>2, Here DEF Activations
  <2>2. CalledFrom(i)
    BY <2>1, Here DEF Balanced
  <2> DEFINE call == frames[i].returnTo - 1
  <2>3. call \in DOMAIN code /\ code[call].op \in Calls /\ Known[Place(i)].fn = code[call].arg
    BY <2>2 DEF CalledFrom
  <2>4. Resolves(code[call].arg)
    <3> HIDE DEF call
    <3> QED BY <2>3, Here DEF BalancedCode, HeightsAgree
  <2>5. Target(code[call].arg) \in DOMAIN code
    BY <2>4 DEF Resolves, Target
  <2>6. DOMAIN code = 1..Len(code) /\ Len(code) \in Nat
    BY Here DEF BalancedCode
  <2> QED BY <2>3, <2>5, <2>6 DEF Rank
<1> QED
  BY <1>1, <1>2

LEMMA AdvanceKeeps ==
    ASSUME BalanceInv, FreshInv, Advances, Stores \/ (memory' = memory /\ Current.op # "STORE_VAR")
    PROVE  FreshInv'
<1>1. frames' = frames /\ Known' = Known /\ SeparateCode /\ Descending /\ Kept
  BY SameReading DEF Advances, FreshInv
<1>2. SeparateCode'
  BY <1>1, SeparateCodeStays DEF Advances
<1>3. Descending'
  <2>1. \A i \in DOMAIN frames : Rank(Known[Place(i)].fn)' = Rank(Known[Place(i)].fn)
    <3>1. \A i \in DOMAIN frames : (Known[Place(i)].fn)' = Known[Place(i)].fn
      BY <1>1, AdvanceIs
    <3>2. code' = code
      BY DEF Advances, SameCode
    <3> SUFFICES ASSUME NEW i \in DOMAIN frames
                 PROVE  Rank(Known[Place(i)].fn)' = Rank(Known[Place(i)].fn)
      OBVIOUS
    <3> DEFINE f == Known[Place(i)].fn
    <3>3. f' = f
      BY <3>1
    <3> HIDE DEF f
    <3>4. Rank(f)' = Rank(f)
      BY <3>2, <3>3 DEF Rank, Target
    <3> QED BY <3>4 DEF f
  <2> QED BY <1>1, <2>1 DEF Descending
<1>4. Kept'
  <2> SUFFICES ASSUME NEW i \in DOMAIN frames, NEW name \in Known[Place(i)'].temps
               PROVE  name \in DOMAIN memory' /\ memory'[name].by = frames[i].number
    BY <1>1 DEF Kept
  <2>1. pc \in DOMAIN code /\ Current = code[pc] /\ Len(frames) \in Nat
        /\ DOMAIN frames = 1..Len(frames) /\ Frame = frames[Len(frames)]
    BY Here DEF Advances, Activations
  <2>2. name \in Known[Place(i)].temps \/ (i = Len(frames) /\ Stores /\ name = Current.arg)
    <3>1. CASE i = Len(frames)
      <4>1. Place(i)' = pc' /\ Place(i) = pc
        BY <3>1, AdvanceIs DEF Place
      <4>2. name \in After(Known[pc], Current).temps
        BY <1>1, <2>1, <4>1 DEF SeparateCode, TemporariesAreStored, Advances
      <4> QED BY <3>1, <4>1, <4>2 DEF After
    <3>2. CASE i # Len(frames)
      BY <3>2, AdvanceIs
    <3> QED BY <3>1, <3>2
  <2>3. CASE memory' = memory /\ Current.op # "STORE_VAR"
    BY <1>1, <2>2, <2>3 DEF Kept, Stores
  <2>4. CASE Stores
    <3> DEFINE v == [val |-> TopOf(0), by |-> Frame.number]
    <3>3. /\ DOMAIN memory' = DOMAIN memory \cup {Current.arg}
          /\ memory'[Current.arg] = v
          /\ \A x \in DOMAIN memory : x # Current.arg => memory'[x] = memory[x]
      <4>1. memory' = Updated(memory, Current.arg, v)
        BY <2>4 DEF Stores
      <4> HIDE DEF v
      <4> QED BY <4>1 DEF Updated
    <3>1. CASE name = Current.arg
      <4>1. i = Len(frames)
        <5> SUFFICES ASSUME i # Len(frames) PROVE FALSE
          OBVIOUS
        <5>1. name \in Known[Place(i)].temps /\ Place(i) \in DOMAIN code
          BY <2>2, Here DEF Balanced, Advances
        <5>2. Known[Place(i)].fn = Known[pc].fn
          <6> DEFINE owners ==
                  UNION {{<<x, Known[k].fn>> : x \in Known[k].temps} : k \in DOMAIN code}
          <6>1. <<name, Known[Place(i)].fn>> \in owners
            BY <5>1
          <6>2. Current.op = "STORE_VAR" =>
                    \A owner \in owners : owner[1] = Current.arg => owner[2] = Known[pc].fn
            BY <1>1, <2>1 DEF SeparateCode, SlotsAreApart
          <6> HIDE DEF owners
          <6> QED BY <2>4, <3>1, <6>1, <6>2 DEF Stores
        <5>3. i < Len(frames) /\ Place(Len(frames)) = pc
          BY <2>1 DEF Place
        <5>4. Rank(Known[pc].fn) < Rank(Known[Place(i)].fn)
          BY <1>1, <2>1, <5>3, Here DEF Descending, Advances
        <5>5. Rank(Known[pc].fn) \in Nat
          BY <2>1, <5>3, Here, RanksAreNumbers DEF Advances
        <5> QED BY <5>2, <5>4, <5>5
      <4> QED BY <2>1, <3>1, <3>3, <4>1
    <3>2. CASE name # Current.arg
      BY <1>1, <2>2, <3>2, <3>3 DEF Kept
    <3> QED BY <3>1, <3>2
  <2> QED BY <2>3, <2>4
<1> QED
  BY <1>2, <1>3, <1>4 DEF FreshInv

---------------------------------------------------------------------------
(* One lemma for each opcode that goes on inside its function.              *)

LEMMA StackIs ==
    ASSUME Values, NEW k \in 0..Height
    PROVE  /\ Dropped(k) \in Seq(Cell) /\ Len(Dropped(k)) = Height - k
           /\ k < Height => TopOf(k) \in Cell
           /\ \A v \in Cell : /\ Append(stack, v) \in Seq(Cell)
                              /\ Len(Append(stack, v)) = Height + 1
                              /\ Replacing(k, v) \in Seq(Cell)
                              /\ Len(Replacing(k, v)) = Height - k + 1
<1>1. stack \in Seq(Cell) /\ Height = Len(stack) /\ Height \in Nat
  BY DEF Values, Height
<1>2. Dropped(k) \in Seq(Cell) /\ Len(Dropped(k)) = Height - k
  <2>1. Height - k \in 0..Height
    BY <1>1
  <2> HIDE DEF Cell
  <2> QED BY <1>1, <2>1, SubSeqProperties DEF Dropped
<1>3. k < Height => TopOf(k) \in Cell
  <2> HIDE DEF Cell
  <2> QED BY <1>1 DEF TopOf
<1>4. \A v \in Cell : /\ Append(stack, v) \in Seq(Cell) /\ Len(Append(stack, v)) = Height + 1
                      /\ Replacing(k, v) \in Seq(Cell)
                      /\ Len(Replacing(k, v)) = Height - k + 1
  <2> HIDE DEF Cell
  <2> QED BY <1>1, <1>2, AppendProperties DEF Replacing
<1> QED
  BY <1>2, <1>3, <1>4

LEMMA GoesOn ==
    ASSUME Current.op \notin {"JUMP", "JZ", "RETURN", "HALT"}
    PROVE  Successors(pc) = {pc + 1}
  BY DEF Successors, Current

Moves ==
    /\ Advances /\ Values'
    /\ Stores \/ (memory' = memory /\ Current.op # "STORE_VAR")

(* A step that does nothing but to the stack, whose change is a sequence of  *)
(* cells as high as its opcode has it.                                      *)
LEMMA OnlyStackMoves ==
    ASSUME BalanceInv, status = "running", arity' = arity, OnlyStack,
           code' = code, status' = status, Current.op # "STORE_VAR",
           pc' \in Successors(pc), stack' \in Seq(Cell),
           Len(stack') = Height - Emission!Pops(Current) + Emission!Pushes(Current)
    PROVE  Moves
<1>1. Advances
  BY DEF Advances, SameCode, OnlyStack
<1>2. Values'
  BY Here DEF OnlyStack, Values
<1> QED
  BY <1>1, <1>2 DEF Moves, OnlyStack

LEMMA PushMoves == ASSUME BalanceInv, Push, arity' = arity PROVE Moves
<1> DEFINE v == CASE Current.op = "PUSH" -> Whole(Current.n)
                  [] Current.op = "PUSH_FLT" -> Real(Current.n)
                  [] Current.op = "PUSH_STR" -> Text(Current.n)
<1>1. /\ status = "running" /\ Current.op \in {"PUSH", "PUSH_FLT", "PUSH_STR"}
      /\ stack' = Append(stack, v)
      /\ pc' = pc + 1 /\ code' = code /\ status' = status /\ OnlyStack
  BY DEF Push, Running, Continue
<1>2. v \in Cell
  BY <1>1, Here DEF Opcodes, Whole, Real, Text, Cell
<1>3. stack' \in Seq(Cell) /\ Len(stack') = Height + 1 /\ Height \in Nat
  <2> HIDE DEF v
  <2> QED BY <1>1, <1>2, Here, StackIs
<1>4. Emission!Pops(Current) = 0 /\ Emission!Pushes(Current) = 1
  BY <1>1, Effects
<1>5. Current.op \notin {"JUMP", "JZ", "RETURN", "HALT", "STORE_VAR"}
  BY <1>1
<1> HIDE DEF v
<1> QED
  BY <1>1, <1>3, <1>4, <1>5, GoesOn, OnlyStackMoves

LEMMA LoadVarMoves == ASSUME BalanceInv, LoadVar, arity' = arity PROVE Moves
<1> DEFINE v == memory[Current.arg].val
<1>1. /\ status = "running" /\ Current.op = "LOAD_VAR" /\ ~Traps
      /\ stack' = Append(stack, v)
      /\ pc' = pc + 1 /\ code' = code /\ status' = status /\ OnlyStack
  BY DEF LoadVar, Running, Continue
<1>2. v \in Cell
  BY <1>1, Here DEF Traps, Values
<1>3. stack' \in Seq(Cell) /\ Len(stack') = Height + 1 /\ Height \in Nat
  <2> HIDE DEF v
  <2> QED BY <1>1, <1>2, Here, StackIs
<1>4. Emission!Pops(Current) = 0 /\ Emission!Pushes(Current) = 1
  BY <1>1, Effects
<1> HIDE DEF v
<1> QED
  BY <1>1, <1>3, <1>4, GoesOn, OnlyStackMoves

LEMMA BinaryOpMoves == ASSUME BalanceInv, BinaryOp, arity' = arity PROVE Moves
<1> DEFINE v == IF Current.op \in CompareOps
                THEN Comparison(Current.op, TopOf(1), TopOf(0))
                ELSE Arithmetic(Current.op, TopOf(1), TopOf(0))
<1>1. /\ status = "running" /\ Current.op \in ArithmeticOps \cup CompareOps /\ ~Traps
      /\ stack' = Replacing(2, v)
      /\ pc' = pc + 1 /\ code' = code /\ status' = status /\ OnlyStack
  BY DEF BinaryOp, Running, Continue
<1>2. Emission!Pops(Current) = 2 /\ Emission!Pushes(Current) = 1
  BY <1>1, Effects
<1>3. 2 \in 0..Height /\ Height \in Nat
  BY <1>1, <1>2, Here
<1>4. TopOf(0) \in Cell /\ TopOf(1) \in Cell
  <2>1. 0 \in 0..Height /\ 1 \in 0..Height /\ 0 < Height /\ 1 < Height
    BY <1>3
  <2> QED BY <1>1, <2>1, Here, StackIs
<1>5. v \in Cell
  BY <1>1, <1>4, ComparisonIsCell, ArithmeticIsCell DEF Traps
<1>6. stack' \in Seq(Cell) /\ Len(stack') = Height - 2 + 1
  <2> HIDE DEF v
  <2> QED BY <1>1, <1>3, <1>5, Here, StackIs
<1>7. Current.op \notin {"JUMP", "JZ", "RETURN", "HALT", "STORE_VAR"}
  BY <1>1 DEF ArithmeticOps, CompareOps
<1> HIDE DEF v
<1> QED
  BY <1>1, <1>2, <1>6, <1>7, GoesOn, OnlyStackMoves

LEMMA UnaryOpMoves == ASSUME BalanceInv, UnaryOp, arity' = arity PROVE Moves
<1> DEFINE v == Converted(Current.op, TopOf(0))
           ops == {"COERCE_INT", "COERCE_FLT", "ABS_INT", "CALL_FUNC"}
<1>1. /\ status = "running" /\ Current.op \in ops
      /\ stack' = Replacing(1, v)
      /\ pc' = pc + 1 /\ code' = code /\ status' = status /\ OnlyStack
  BY DEF UnaryOp, Running, Continue
<1>2. Emission!Pops(Current) = 1 /\ Emission!Pushes(Current) = 1
  <2>1. Current.op = "CALL_FUNC" => Current.n = 1
    BY <1>1, Here DEF BalancedCode, HeightsAgree
  <2> QED BY <1>1, <2>1, Effects
<1>3. 1 \in 0..Height /\ 0 \in 0..Height /\ 0 < Height /\ Height \in Nat
  BY <1>1, <1>2, Here
<1>4. v \in Cell
  <2>1. TopOf(0) \in Cell
    BY <1>1, <1>3, Here, StackIs
  <2> QED BY <1>1, <2>1, ConvertedIsCell
<1>5. stack' \in Seq(Cell) /\ Len(stack') = Height - 1 + 1
  <2> HIDE DEF v
  <2> QED BY <1>1, <1>3, <1>4, Here, StackIs
<1>6. Current.op \notin {"JUMP", "JZ", "RETURN", "HALT", "STORE_VAR"}
  BY <1>1
<1> HIDE DEF v
<1> QED
  BY <1>1, <1>2, <1>5, <1>6, GoesOn, OnlyStackMoves

LEMMA PassLabelMoves == ASSUME BalanceInv, PassLabel, arity' = arity PROVE Moves
<1>1. /\ status = "running" /\ Current.op = "LABEL" /\ stack' = stack
      /\ pc' = pc + 1 /\ code' = code /\ status' = status /\ OnlyStack
  BY DEF PassLabel, Running, Continue
<1>2. stack' \in Seq(Cell) /\ Len(stack') = Height /\ Height \in Nat
  BY <1>1, Here DEF Values, Height
<1>3. Emission!Pops(Current) = 0 /\ Emission!Pushes(Current) = 0
  BY <1>1, Effects
<1> QED
  BY <1>1, <1>2, <1>3, GoesOn, OnlyStackMoves

LEMMA JumpMoves == ASSUME BalanceInv, Jump, arity' = arity PROVE Moves
<1>1. /\ status = "running" /\ Current.op = "JUMP" /\ stack' = stack
      /\ pc' = Target(Current.arg) /\ code' = code /\ status' = status /\ OnlyStack
  BY DEF Jump, Running
<1>2. stack' \in Seq(Cell) /\ Len(stack') = Height /\ Height \in Nat
  BY <1>1, Here DEF Values, Height
<1>3. Emission!Pops(Current) = 0 /\ Emission!Pushes(Current) = 0
  BY <1>1, Effects
<1>4. pc' \in Successors(pc)
  BY <1>1 DEF Successors, Current
<1> QED
  BY <1>1, <1>2, <1>3, <1>4, OnlyStackMoves

LEMMA JumpIfZeroMoves == ASSUME BalanceInv, JumpIfZero, arity' = arity PROVE Moves
<1>1. /\ status = "running" /\ Current.op = "JZ" /\ stack' = Dropped(1)
      /\ pc' \in {pc + 1, Target(Current.arg)} /\ code' = code /\ status' = status /\ OnlyStack
  BY DEF JumpIfZero, Running
<1>2. Emission!Pops(Current) = 1 /\ Emission!Pushes(Current) = 0
  BY <1>1, Effects
<1>3. 1 \in 0..Height /\ Height \in Nat
  BY <1>1, <1>2, Here
<1>4. stack' \in Seq(Cell) /\ Len(stack') = Height - 1 + 0
  <2>1. Dropped(1) \in Seq(Cell) /\ Len(Dropped(1)) = Height - 1
    BY <1>1, <1>3, Here, StackIs
  <2>2. Height - 1 + 0 = Height - 1
    BY <1>3
  <2> QED BY <1>1, <2>1, <2>2
<1>5. pc' \in Successors(pc)
  BY <1>1 DEF Successors, Current
<1> QED
  BY <1>1, <1>2, <1>4, <1>5, OnlyStackMoves

LEMMA StoreVarMoves == ASSUME BalanceInv, StoreVar, arity' = arity PROVE Moves
<1> DEFINE v == [val |-> TopOf(0), by |-> Frame.number]
<1>1. /\ status = "running" /\ Current.op = "STORE_VAR" /\ stack' = Dropped(1)
      /\ memory' = Updated(memory, Current.arg, v)
      /\ pc' = pc + 1 /\ code' = code /\ status' = status
      /\ UNCHANGED <<frames, calls, arrays, input, output>>
  BY DEF StoreVar, Running, Continue
<1>2. Emission!Pops(Current) = 1 /\ Emission!Pushes(Current) = 0
  BY <1>1, Effects
<1>3. 1 \in 0..Height /\ 0 \in 0..Height /\ 0 < Height /\ Height \in Nat
  BY <1>1, <1>2, Here
<1>4. stack' \in Seq(Cell) /\ Len(stack') = Height - 1 + 0
  <2>1. Dropped(1) \in Seq(Cell) /\ Len(Dropped(1)) = Height - 1
    BY <1>1, <1>3, Here, StackIs
  <2>2. Height - 1 + 0 = Height - 1
    BY <1>3
  <2> QED BY <1>1, <2>1, <2>2
<1>5. v \in [val : Cell, by : 0..calls]
  <2>1. TopOf(0) \in Cell
    BY <1>1, <1>3, Here, StackIs
  <2>2. Frame.number \in 0..calls
    BY <1>1, Here
  <2> QED BY <2>1, <2>2
<1>6. Values'
  <2>1. \A name \in DOMAIN memory' : memory'[name] \in [val : Cell, by : 0..calls]
    <3> HIDE DEF v
    <3> QED BY <1>1, <1>5, Here DEF Values, Updated
  <2> QED BY <1>1, <1>4, <2>1, Here DEF Values
<1>7. Advances
  BY <1>1, <1>2, <1>4, GoesOn DEF Advances, SameCode
<1> QED
  BY <1>1, <1>3, <1>6, <1>7 DEF Moves, Stores

LEMMA PrintTopMoves == ASSUME BalanceInv, PrintTop, arity' = arity PROVE Moves
<1>1. /\ status = "running" /\ Current.op \in {"PRINT_VAL", "PRINT_CHAR", "PRINT_EOL"}
      /\ stack' = IF Current.op = "PRINT_EOL" THEN stack ELSE Dropped(1)
      /\ pc' = pc + 1 /\ code' = code /\ status' = status
      /\ UNCHANGED <<frames, calls, memory, arrays, input>>
  BY DEF PrintTop, Running, Continue
<1>2. /\ stack' \in Seq(Cell)
      /\ Len(stack') = Height - Emission!Pops(Current) + Emission!Pushes(Current)
  <2>1. CASE Current.op = "PRINT_EOL"
    <3>1. Emission!Pops(Current) = 0 /\ Emission!Pushes(Current) = 0
      BY <2>1, Effects
    <3>2. stack \in Seq(Cell) /\ Height \in Nat /\ Len(stack) = Height
      BY <1>1, Here DEF Values, Height
    <3> QED BY <1>1, <2>1, <3>1, <3>2
  <2>2. CASE Current.op # "PRINT_EOL"
    <3>1. Emission!Pops(Current) = 1 /\ Emission!Pushes(Current) = 0
      BY <1>1, <2>2, Effects
    <3>2. 1 \in 0..Height /\ Height \in Nat
      BY <1>1, <3>1, Here
    <3>3. Dropped(1) \in Seq(Cell) /\ Len(Dropped(1)) = Height - 1
      BY <1>1, <3>2, Here, StackIs
    <3> QED BY <1>1, <2>2, <3>1, <3>2, <3>3
  <2> QED BY <2>1, <2>2
<1>3. Current.op \notin {"JUMP", "JZ", "RETURN", "HALT", "STORE_VAR"}
  BY <1>1
<1>4. Advances
  BY <1>1, <1>2, <1>3, GoesOn DEF Advances, SameCode
<1>5. Values'
  BY <1>1, <1>2, Here DEF Values
<1> QED
  BY <1>1, <1>3, <1>4, <1>5 DEF Moves

LEMMA InputMoves == ASSUME BalanceInv, Input, arity' = arity PROVE Moves
<1> DEFINE v == CASE Current.op = "INPUT_INT" -> Head(input)
                  [] Current.op = "INPUT_FLT" -> Widen(Head(input))
                  [] Current.op = "INPUT_STR" -> Text(Head(input).n)
<1>1. /\ status = "running" /\ Current.op \in {"INPUT_INT", "INPUT_FLT", "INPUT_STR"}
      /\ input # <<>> /\ input' = Tail(input)
      /\ stack' = Append(stack, v)
      /\ pc' = pc + 1 /\ code' = code /\ status' = status
      /\ UNCHANGED <<frames, calls, memory, arrays, output>>
  BY DEF Input, Running, Continue
<1>2. Head(input) \in Cell /\ input' \in Seq(Cell)
  <2>1. input \in Seq(Cell)
    BY <1>1, Here DEF Values
  <2> HIDE DEF v
  <2> QED BY <1>1, <2>1, HeadTailProperties
<1>3. v \in Cell
  <2>1. Quarters(Head(input)) \in Int /\ Head(input).n \in Int
    BY <1>2, QuartersAreInt DEF Cell
  <2> QED BY <1>1, <1>2, <2>1 DEF Widen, Real, Text, Cell
<1>4. stack' \in Seq(Cell) /\ Len(stack') = Height + 1 /\ Height \in Nat
  <2> HIDE DEF v
  <2> QED BY <1>1, <1>3, Here, StackIs
<1>5. Emission!Pops(Current) = 0 /\ Emission!Pushes(Current) = 1
  BY <1>1, Effects
<1>6. Current.op \notin {"JUMP", "JZ", "RETURN", "HALT", "STORE_VAR"}
  BY <1>1
<1> HIDE DEF v
<1>7. Advances
  BY <1>1, <1>4, <1>5, <1>6, GoesOn DEF Advances, SameCode
<1>8. Values'
  BY <1>1, <1>2, <1>4, Here DEF Values
<1> QED
  BY <1>1, <1>6, <1>7, <1>8 DEF Moves

LEMMA SetArrayMoves == ASSUME BalanceInv, SetArray, arity' = arity PROVE Moves
<1> DEFINE v == CASE Current.op = "DIM_ARRAY" -> [k \in 1..TopOf(0).n |-> EmptyString]
                  [] Current.op = "MAT_INIT" -> [k \in DOMAIN arrays[Current.arg] |-> TopOf(0)]
                  [] Current.op = "MAT_COPY" -> arrays[Current.src]
<1>1. /\ status = "running" /\ Current.op \in {"DIM_ARRAY", "MAT_INIT", "MAT_COPY"} /\ ~Traps
      /\ arrays' = Updated(arrays, Current.arg, v)
      /\ stack' = IF Current.op = "MAT_COPY" THEN stack ELSE Dropped(1)
      /\ pc' = pc + 1 /\ code' = code /\ status' = status
      /\ UNCHANGED <<frames, calls, memory, input, output>>
  BY DEF SetArray, Running, Continue
<1>2. /\ stack' \in Seq(Cell)
      /\ Len(stack') = Height - Emission!Pops(Current) + Emission!Pushes(Current)
      /\ Current.op # "MAT_COPY" => TopOf(0) \in Cell
  <2>1. CASE Current.op = "MAT_COPY"
    <3>1. Emission!Pops(Current) = 0 /\ Emission!Pushes(Current) = 0
      BY <2>1, Effects
    <3>2. stack \in Seq(Cell) /\ Height \in Nat /\ Len(stack) = Height
      BY <1>1, Here DEF Values, Height
    <3> HIDE DEF v
    <3> QED BY <1>1, <2>1, <3>1, <3>2
  <2>2. CASE Current.op # "MAT_COPY"
    <3>1. Emission!Pops(Current) = 1 /\ Emission!Pushes(Current) = 0
      BY <1>1, <2>2, Effects
    <3>2. 1 \in 0..Height /\ 0 \in 0..Height /\ 0 < Height /\ Height \in Nat
      BY <1>1, <3>1, Here
    <3>3. Dropped(1) \in Seq(Cell) /\ Len(Dropped(1)) = Height - 1 /\ TopOf(0) \in Cell
      BY <1>1, <3>2, Here, StackIs
    <3> HIDE DEF v
    <3> QED BY <1>1, <2>2, <3>1, <3>2, <3>3
  <2> QED BY <2>1, <2>2
<1>3. \A k \in DOMAIN v : v[k] \in Cell
  <2>1. CASE Current.op = "DIM_ARRAY"
    BY <2>1 DEF EmptyString, Text, Cell
  <2>2. CASE Current.op = "MAT_INIT"
    BY <1>2, <2>2
  <2>3. CASE Current.op = "MAT_COPY"
    BY <1>1, <2>3, Here DEF Traps, Values
  <2> QED BY <1>1, <2>1, <2>2, <2>3
<1>4. Current.op \notin {"JUMP", "JZ", "RETURN", "HALT", "STORE_VAR"}
  BY <1>1
<1> HIDE DEF v
<1>5. Advances
  BY <1>1, <1>2, <1>4, GoesOn DEF Advances, SameCode
<1>6. Values'
  <2>1. \A name \in DOMAIN arrays' : \A k \in DOMAIN arrays'[name] : arrays'[name][k] \in Cell
    BY <1>1, <1>3, Here DEF Values, Updated
  <2> QED BY <1>1, <1>2, <2>1, Here DEF Values
<1> QED
  BY <1>1, <1>4, <1>5, <1>6 DEF Moves

LEMMA LoadArrMoves == ASSUME BalanceInv, LoadArr, arity' = arity PROVE Moves
<1> DEFINE v == arrays[Current.arg][TopOf(0).n]
<1>1. /\ status = "running" /\ Current.op = "LOAD_ARR" /\ ~Traps
      /\ stack' = Replacing(1, v)
      /\ pc' = pc + 1 /\ code' = code /\ status' = status /\ OnlyStack
  BY DEF LoadArr, Running, Continue
<1>2. Emission!Pops(Current) = 1 /\ Emission!Pushes(Current) = 1
  BY <1>1, Effects
<1>3. 1 \in 0..Height /\ Height \in Nat
  BY <1>1, <1>2, Here
<1>4. v \in Cell
  BY <1>1, Here DEF Traps, Values
<1>5. stack' \in Seq(Cell) /\ Len(stack') = Height - 1 + 1
  <2> HIDE DEF v
  <2> QED BY <1>1, <1>3, <1>4, Here, StackIs
<1> HIDE DEF v
<1> QED
  BY <1>1, <1>2, <1>5, GoesOn, OnlyStackMoves

LEMMA StoreArrMoves == ASSUME BalanceInv, StoreArr, arity' = arity PROVE Moves
<1>1. /\ status = "running" /\ Current.op = "STORE_ARR" /\ ~Traps
      /\ arrays' = [arrays EXCEPT ![Current.arg][TopOf(0).n] = TopOf(1)]
      /\ stack' = Dropped(2)
      /\ pc' = pc + 1 /\ code' = code /\ status' = status
      /\ UNCHANGED <<frames, calls, memory, input, output>>
  BY DEF StoreArr, Running, Continue
<1>2. Emission!Pops(Current) = 2 /\ Emission!Pushes(Current) = 0
  BY <1>1, Effects
<1>3. 2 \in 0..Height /\ 1 \in 0..Height /\ 1 < Height /\ Height \in Nat
  BY <1>1, <1>2, Here
<1>4. stack' \in Seq(Cell) /\ Len(stack') = Height - 2 + 0 /\ TopOf(1) \in Cell
  <2>1. Dropped(2) \in Seq(Cell) /\ Len(Dropped(2)) = Height - 2 /\ TopOf(1) \in Cell
    BY <1>1, <1>3, Here, StackIs
  <2>2. Height - 2 + 0 = Height - 2
    BY <1>3
  <2> QED BY <1>1, <2>1, <2>2
<1>5. Values'
  <2>1. \A name \in DOMAIN arrays' : \A k \in DOMAIN arrays'[name] : arrays'[name][k] \in Cell
    BY <1>1, <1>4, Here DEF Values
  <2> QED BY <1>1, <1>4, <2>1, Here DEF Values
<1>6. Advances
  BY <1>1, <1>2, <1>4, GoesOn DEF Advances, SameCode
<1> QED
  BY <1>1, <1>5, <1>6 DEF Moves

---------------------------------------------------------------------------
(* Calls and returns.                                                       *)

(* What a call makes of the frames.                                         *)
LEMMA CallIs ==
    ASSUME BalanceInv, CallLabel, arity' = arity
    PROVE  /\ SameCode /\ status' = status /\ stack' = stack /\ Height' = Height
           /\ calls' = calls + 1 /\ calls \in Nat
           /\ UNCHANGED <<memory, arrays, input, output>>
           /\ pc' = Target(Current.arg) /\ pc' \in DOMAIN code
           /\ Known[pc'].fn = Current.arg /\ Known[pc'].height = Current.n
           /\ Current.n \in 0..Height /\ code[pc].op \in Calls /\ Current = code[pc]
           /\ pc + 1 \in Successors(pc)
           /\ pc + 1 \in DOMAIN code /\ Known[pc + 1].fn = Known[pc].fn
           /\ Len(frames) \in Nat /\ Len(frames) >= 1 /\ Len(frames') = Len(frames) + 1
           /\ DOMAIN frames = 1..Len(frames) /\ DOMAIN frames' = 1..Len(frames) + 1
           /\ \A i \in 1..Len(frames) : frames'[i] = frames[i]
           /\ frames'[Len(frames) + 1] = [returnTo |-> pc + 1, number |-> calls + 1,
                                           base |-> Height - Current.n]
           /\ \A i \in 1..Len(frames) :
                  /\ Place(i)' = IF i = Len(frames) THEN pc + 1 ELSE Place(i)
                  /\ Known[Place(i)'].fn = Known[Place(i)].fn
           /\ \A i : i = Len(frames) + 1 => Place(i)' = pc'
<1> DEFINE r == [returnTo |-> pc + 1, number |-> calls + 1, base |-> Height - Current.n]
<1>1. /\ status = "running" /\ Current.op \in Calls
      /\ calls' = calls + 1 /\ frames' = Append(frames, r) /\ pc' = Target(Current.arg)
      /\ code' = code /\ UNCHANGED <<status, stack, memory, arrays, input, output>>
  BY DEF CallLabel, Running, Calls
<1>2. SameCode /\ Height' = Height
  BY <1>1 DEF SameCode, Height
<1>3. Current = code[pc] /\ pc \in DOMAIN code /\ BalancedCode /\ Activations
  BY <1>1, Here
<1>4. Resolves(Current.arg) /\ pc' \in DOMAIN code
  <2>1. Resolves(Current.arg)
    BY <1>1, <1>3 DEF BalancedCode, HeightsAgree
  <2> QED BY <1>1, <2>1 DEF Resolves, Target
<1>5. Known[pc'].fn = Current.arg /\ Known[pc'].height = Current.n
  BY <1>1, <1>3 DEF BalancedCode, CallsAgree
<1>6. Current.n \in 0..Height
  <2>1. Emission!Pops(Current) = Current.n
    BY <1>1, Effects DEF Calls
  <2> QED BY <1>1, <2>1, Here
<1>7. pc + 1 \in Successors(pc) /\ pc + 1 \in DOMAIN code /\ Known[pc + 1].fn = Known[pc].fn
  <2>1. Successors(pc) = {pc + 1}
    BY <1>1, GoesOn DEF Calls
  <2> QED BY <1>3, <2>1 DEF BalancedCode, HeightsAgree
<1>8. /\ calls \in Nat
      /\ Len(frames) \in Nat /\ Len(frames) >= 1 /\ Len(frames') = Len(frames) + 1
      /\ DOMAIN frames = 1..Len(frames) /\ DOMAIN frames' = 1..Len(frames) + 1
      /\ \A i \in 1..Len(frames) : frames'[i] = frames[i]
      /\ frames'[Len(frames) + 1] = r
  <2>1. frames \in Seq([returnTo : Nat, number : 0..calls, base : Nat])
        /\ calls \in Nat /\ Len(frames) >= 1
    BY <1>3 DEF Activations
  <2> HIDE DEF r
  <2> QED BY <1>1, <2>1
<1>9. \A i \in 1..Len(frames) : Place(i)' = IF i = Len(frames) THEN pc + 1 ELSE Place(i)
  <2> SUFFICES ASSUME NEW i \in 1..Len(frames)
               PROVE  Place(i)' = IF i = Len(frames) THEN pc + 1 ELSE Place(i)
    OBVIOUS
  <2>1. Place(i)' = frames'[i + 1].returnTo
    BY <1>8 DEF Place
  <2>2. CASE i = Len(frames)
    BY <1>8, <2>1, <2>2
  <2>3. CASE i # Len(frames)
    <3>1. i + 1 \in 1..Len(frames)
      <4>1. Len(frames) \in Nat
        BY <1>8
      <4> QED BY <2>3, <4>1
    <3>2. frames'[i + 1] = frames[i + 1]
      BY <1>8, <3>1
    <3> QED BY <2>1, <2>3, <3>2 DEF Place
  <2> QED BY <2>2, <2>3
<1>10. \A i : i = Len(frames) + 1 => Place(i)' = pc'
  <2>1. Len(frames') = Len(frames) + 1
    BY <1>8
  <2> QED BY <2>1 DEF Place
<1>11. \A i \in 1..Len(frames) : Known[Place(i)'].fn = Known[Place(i)].fn
  BY <1>7, <1>9 DEF Place
<1> QED
  BY <1>1, <1>2, <1>3, <1>4, <1>5, <1>6, <1>7, <1>8, <1>9, <1>10, <1>11

LEMMA CallBalances ==
    ASSUME BalanceInv, CallLabel, arity' = arity
    PROVE  Values' /\ Activations' /\ Balanced'
<1>9. PICK n \in Nat : n = Len(frames)
  BY CallIs
<1>1. status = "running"
  BY DEF CallLabel, Running
<1>10. /\ n \in Nat /\ n >= 1 /\ Len(frames') = n + 1
       /\ DOMAIN frames = 1..n /\ DOMAIN frames' = 1..n + 1
       /\ \A i \in 1..n : frames'[i] = frames[i]
       /\ frames'[n + 1] = [returnTo |-> pc + 1, number |-> calls + 1,
                             base |-> Height - Current.n]
  BY <1>9, CallIs
<1>11. /\ \A i \in 1..n : /\ Place(i)' = IF i = n THEN pc + 1 ELSE Place(i)
                          /\ Known[Place(i)'].fn = Known[Place(i)].fn
       /\ Place(n + 1)' = pc'
  BY <1>9, CallIs
<1>12. /\ pc' \in DOMAIN code /\ pc + 1 \in DOMAIN code
       /\ Known[pc'].fn = Current.arg /\ Known[pc'].height = Current.n
       /\ Current.n \in 0..Height /\ code[pc].op \in Calls /\ Current = code[pc]
       /\ Height' = Height
  BY CallIs
<1>13. Balanced /\ Height \in Nat /\ pc \in Nat
  BY <1>1, Here
<1>2. Known' = Known /\ code' = code
  BY CallIs, SameReading DEF SameCode
<1>3. Values'
  <2>1. stack' = stack /\ memory' = memory /\ arrays' = arrays /\ input' = input
        /\ calls' = calls + 1 /\ calls \in Nat
    BY CallIs
  <2> QED BY <1>1, <2>1, Here DEF Values
<1>4. Activations'
  <2> DEFINE S == [returnTo : Nat, number : 0..calls, base : Nat]
             T == [returnTo : Nat, number : 0..calls + 1, base : Nat]
             r == [returnTo |-> pc + 1, number |-> calls + 1, base |-> Height - Current.n]
  <2>1. frames \in Seq(S) /\ calls \in Nat /\ Len(frames) >= 1 /\ frames[1].base = 0
    BY <1>1, Here DEF Activations
  <2>2. S \subseteq T
    BY <2>1
  <2>3. r \in T
    <3>1. Height - Current.n \in Nat /\ calls + 1 \in 0..calls + 1 /\ pc + 1 \in Nat
      BY <1>12, <1>13, <2>1
    <3> QED BY <3>1
  <2>4. frames' = Append(frames, r)
    BY DEF CallLabel
  <2>5. frames' \in Seq(T)
    <3> HIDE DEF S, T, r
    <3>1. frames \in Seq(T)
      BY <2>1, <2>2, SeqMonotonic
    <3> QED BY <2>3, <2>4, <3>1
  <2>6. frames'[1].base = 0 /\ Len(frames') >= 1
    BY <1>10, <2>1
  <2>7. calls' = calls + 1 /\ calls' \in Nat
    <3>1. calls' = calls + 1
      BY CallIs
    <3> QED BY <2>1, <3>1
  <2> QED BY <2>5, <2>6, <2>7 DEF Activations
<1>5. \A i \in DOMAIN frames' : Place(i)' \in DOMAIN code'
  <2> SUFFICES ASSUME NEW i \in 1..n + 1 PROVE Place(i)' \in DOMAIN code
    BY <1>2, <1>10
  <2>1. CASE i \in 1..n
    BY <1>10, <1>11, <1>12, <1>13, <2>1 DEF Balanced
  <2>2. CASE i = n + 1
    BY <1>11, <1>12, <2>2
  <2> QED BY <1>10, <2>1, <2>2
<1>6. \A i \in DOMAIN frames' : i > 1 => CalledFrom(i)'
  <2> SUFFICES ASSUME NEW i \in 1..n + 1, i > 1 PROVE CalledFrom(i)'
    BY <1>10
  <2>1. CASE i \in 1..n
    <3>1. CalledFrom(i)
      BY <1>10, <1>13, <2>1 DEF Balanced
    <3>2. frames'[i] = frames[i] /\ frames'[i - 1] = frames[i - 1]
          /\ Known[Place(i)'].fn = Known[Place(i)].fn
      <4>1. i - 1 \in 1..n
        BY <1>10, <2>1
      <4> QED BY <1>10, <1>11, <2>1, <4>1
    <3> QED BY <1>2, <3>1, <3>2 DEF CalledFrom
  <2>2. CASE i = n + 1
    <3>1. frames'[i].returnTo - 1 = pc /\ frames'[i].base = Height - Current.n
          /\ frames'[i - 1] = Frame
      <4>1. Frame = frames[n]
        BY <1>9 DEF Frame
      <4>2. n \in 1..n /\ i - 1 = n
        BY <1>10, <2>2
      <4> QED BY <1>10, <1>13, <2>2, <4>1, <4>2
    <3>2. Frame.base \in Nat /\ Known[pc].height \in Nat /\ Height = Frame.base + Known[pc].height
          /\ Height \in Nat /\ pc \in DOMAIN code
      BY <1>1, Here
    <3>3. Known[Place(i)'].fn = code[pc].arg /\ code[pc].op \in Calls /\ Current = code[pc]
      BY <1>11, <1>12, <2>2
    <3>4. frames'[i].base + code[pc].n = frames'[i - 1].base + Known[pc].height
      <4>1. Current.n \in 0..Height /\ Current = code[pc]
        BY <1>12
      <4>2. frames'[i].base + code[pc].n = Height
        BY <3>1, <3>2, <4>1
      <4> QED BY <3>1, <3>2, <4>2
    <3> QED BY <1>2, <3>1, <3>2, <3>3, <3>4 DEF CalledFrom
  <2> QED BY <1>10, <2>1, <2>2
<1>7. (Known[Place(1)].fn)' = "main"
  <2>1. Known[Place(1)'].fn = Known[Place(1)].fn
    BY <1>10, <1>11
  <2> QED BY <1>2, <1>13, <2>1 DEF Balanced
<1>8. (Height = Frame.base + Known[pc].height)'
  <2>1. Frame'.base = Height - Current.n
    BY <1>10 DEF Frame
  <2>2. Known[pc'].height = Current.n /\ Height' = Height /\ Current.n \in 0..Height
    BY <1>12
  <2>3. Height \in Nat
    BY <1>1, Here
  <2> QED BY <1>2, <2>1, <2>2, <2>3
<1> QED
  BY <1>3, <1>4, <1>5, <1>6, <1>7, <1>8 DEF Balanced

LEMMA CallKeeps ==
    ASSUME BalanceInv, FreshInv, CallLabel, arity' = arity
    PROVE  FreshInv'
<1>9. PICK n \in Nat : n = Len(frames)
  BY CallIs
<1>10. /\ n \in Nat /\ n >= 1
       /\ DOMAIN frames = 1..n /\ DOMAIN frames' = 1..n + 1
       /\ \A i \in 1..n : frames'[i] = frames[i]
  BY <1>9, CallIs
<1>11. /\ \A i \in 1..n : /\ Place(i)' = IF i = n THEN pc + 1 ELSE Place(i)
                          /\ Known[Place(i)'].fn = Known[Place(i)].fn
       /\ Place(n + 1)' = pc' /\ Place(n) = pc
  BY <1>9, CallIs DEF Place
<1>12. /\ pc' = Target(Current.arg) /\ Known[pc'].fn = Current.arg
       /\ code[pc].op \in Calls /\ Current = code[pc]
       /\ memory' = memory /\ pc + 1 \in Successors(pc)
  BY CallIs
<1>13. pc \in DOMAIN code
  BY Here DEF CallLabel, Running
<1>1. status = "running" /\ SeparateCode /\ Descending /\ Kept
  BY DEF CallLabel, Running, FreshInv, BalanceInv
<1>2. Known' = Known /\ code' = code /\ SeparateCode'
  BY <1>1, CallIs, SameReading, SeparateCodeStays DEF SameCode
<1>3. Descending'
  <2>1. \A i \in 1..n : Rank(Known[Place(i)].fn)' = Rank(Known[Place(i)].fn)
    <3> SUFFICES ASSUME NEW i \in 1..n
                 PROVE  Rank(Known[Place(i)].fn)' = Rank(Known[Place(i)].fn)
      OBVIOUS
    <3> DEFINE f == Known[Place(i)].fn
    <3>1. f' = f
      BY <1>2, <1>11
    <3> HIDE DEF f
    <3>2. Rank(f)' = Rank(f)
      BY <1>2, <3>1 DEF Rank, Target
    <3> QED BY <3>2 DEF f
  <2>2. Rank(Known[Place(n + 1)].fn)' < Rank(Known[pc].fn)
    <3> DEFINE f == Known[Place(n + 1)].fn
    <3>1. f' = Current.arg
      BY <1>2, <1>11, <1>12
    <3>2. Rank(Current.arg) < Rank(Known[pc].fn)
      BY <1>1, <1>12, <1>13 DEF SeparateCode, SlotsAreApart
    <3> HIDE DEF f
    <3>3. Rank(f)' = Rank(Current.arg)
      BY <1>2, <3>1 DEF Rank, Target
    <3>4. Rank(f)' < Rank(Known[pc].fn)
      BY <3>2, <3>3
    <3> QED BY <3>4 DEF f
  <2>3. Rank(Known[Place(n + 1)].fn)' \in Int
    <3> DEFINE f == Known[Place(n + 1)].fn
    <3>1. f' = Current.arg
      BY <1>2, <1>11, <1>12
    <3>2. Rank(Current.arg) \in Int
      <4>1. Target(Current.arg) \in DOMAIN code
        BY CallIs
      <4>2. code \in Seq(Opcodes)
        BY <1>1, Here DEF BalancedCode
      <4> QED BY <4>1, <4>2 DEF Rank
    <3> HIDE DEF f
    <3>3. Rank(f)' = Rank(Current.arg)
      BY <1>2, <3>1 DEF Rank, Target
    <3>4. Rank(f)' \in Int
      BY <3>2, <3>3
    <3> QED BY <3>4 DEF f
  <2> SUFFICES ASSUME NEW i \in 1..n + 1, NEW j \in 1..n + 1, i < j
               PROVE  Rank(Known[Place(j)].fn)' < Rank(Known[Place(i)].fn)'
    BY <1>10 DEF Descending
  <2>4. CASE j \in 1..n
    <3>1. i \in 1..n
      BY <1>10, <2>4
    <3>2. Rank(Known[Place(j)].fn) < Rank(Known[Place(i)].fn)
      BY <1>1, <1>10, <2>4, <3>1 DEF Descending
    <3> QED BY <2>1, <2>4, <3>1, <3>2
  <2>5. CASE j = n + 1
    <3>1. i \in 1..n /\ n \in 1..n /\ Place(n) = pc /\ n \in Nat
      BY <1>10, <1>11, <2>5
    <3>2. Rank(Known[Place(i)].fn) \in Nat /\ Rank(Known[pc].fn) \in Nat
      <4>1. \A k \in 1..n : Rank(Known[Place(k)].fn) \in Nat
        BY <1>1, <1>10, RanksAreNumbers
      <4> QED BY <3>1, <4>1
    <3>3. i = n \/ Rank(Known[pc].fn) < Rank(Known[Place(i)].fn)
      <4>1. CASE i # n
        <5>1. i < n
          BY <3>1, <4>1
        <5> QED BY <1>1, <1>10, <3>1, <5>1 DEF Descending
      <4> QED BY <4>1
    <3>4. Rank(Known[Place(i)].fn)' = Rank(Known[Place(i)].fn)
      BY <2>1, <3>1
    <3>5. Rank(Known[Place(n + 1)].fn)' < Rank(Known[Place(i)].fn)
      BY <2>2, <2>3, <3>1, <3>2, <3>3
    <3> QED BY <2>5, <3>4, <3>5
  <2> QED BY <1>10, <2>4, <2>5
<1>4. Kept'
  <2> SUFFICES ASSUME NEW i \in 1..n + 1, NEW name \in Known[Place(i)'].temps
               PROVE  name \in DOMAIN memory /\ memory[name].by = frames'[i].number
    BY <1>2, <1>10, <1>12 DEF Kept
  <2>1. CASE i \in 1..n
    <3>1. name \in Known[Place(i)].temps
      <4>1. CASE i = n
        <5>1. name \in Known[pc + 1].temps /\ Place(i) = pc
          BY <1>11, <2>1, <4>1
        <5>2. name \in After(Known[pc], Current).temps
          BY <1>1, <1>12, <1>13, <5>1 DEF SeparateCode, TemporariesAreStored
        <5>3. Current.op # "STORE_VAR"
          BY DEF CallLabel, Running
        <5> QED BY <5>1, <5>2, <5>3 DEF After
      <4>2. CASE i # n
        BY <1>11, <2>1, <4>2
      <4> QED BY <4>1, <4>2
    <3> QED BY <1>1, <1>10, <2>1, <3>1 DEF Kept
  <2>2. CASE i = n + 1
    <3>1. Known[pc'].temps = {}
      BY <1>1, <1>12, <1>13 DEF SeparateCode, TemporariesAreStored
    <3> QED BY <1>11, <2>2, <3>1
  <2> QED BY <1>10, <2>1, <2>2
<1> QED
  BY <1>2, <1>3, <1>4 DEF FreshInv

(* What a return makes of them.                                             *)
LEMMA ReturnIs ==
    ASSUME BalanceInv, ReturnFromCall, arity' = arity, NEW n \in Nat, n = Len(frames)
    PROVE  /\ status = "running" /\ SameCode /\ Height' = Height
           /\ UNCHANGED <<status, stack, calls, memory, arrays, input>>
           /\ n > 1 /\ DOMAIN frames = 1..n /\ DOMAIN frames' = 1..n - 1
           /\ Len(frames') = n - 1
           /\ frames' = SubSeq(frames, 1, n - 1)
           /\ \A i \in 1..n - 1 : frames'[i] = frames[i]
           /\ \A i \in 1..n - 1 : Place(i)' = Place(i)
           /\ CalledFrom(n) /\ pc' = frames[n].returnTo /\ Place(n) = pc /\ Place(n - 1) = pc'
           /\ Known[pc].height = Emission!Pushes(code[pc' - 1])
<1>1. /\ status = "running" /\ Current.op = "RETURN" /\ pc' = Frame.returnTo
      /\ frames' = SubSeq(frames, 1, n - 1)
      /\ UNCHANGED <<code, status, stack, calls, memory, arrays, input>>
  BY DEF ReturnFromCall, Running
<1>2. SameCode /\ Height' = Height
  BY <1>1 DEF SameCode, Height
<1>3. /\ BalancedCode /\ Balanced /\ Activations /\ pc \in DOMAIN code /\ Current = code[pc]
      /\ Frame = frames[n]
  BY <1>1, Here
<1>4. DOMAIN frames = 1..n /\ n >= 1 /\ Place(n) = pc
  BY <1>3 DEF Activations, Place
<1>5. n > 1
  <2>1. Known[pc].fn # "main"
    BY <1>1, <1>3 DEF BalancedCode, CallsAgree
  <2> QED BY <1>3, <1>4, <2>1 DEF Balanced
<1>6. CalledFrom(n)
  BY <1>3, <1>4, <1>5 DEF Balanced
<1>7. /\ DOMAIN frames' = 1..n - 1 /\ Len(frames') = n - 1
      /\ \A i \in 1..n - 1 : frames'[i] = frames[i]
  <2> DEFINE S == [returnTo : Nat, number : 0..calls, base : Nat]
  <2>1. frames \in Seq(S)
    BY <1>3 DEF Activations
  <2> HIDE DEF S
  <2> QED BY <1>1, <1>5, <2>1, SubSeqProperties
<1>8. \A i \in 1..n - 1 : Place(i)' = Place(i)
  <2> SUFFICES ASSUME NEW i \in 1..n - 1 PROVE Place(i)' = Place(i)
    OBVIOUS
  <2>1. CASE i = n - 1
    BY <1>1, <1>3, <1>7, <2>1 DEF Place
  <2>2. CASE i # n - 1
    <3>1. i + 1 \in 1..n - 1
      BY <2>2
    <3> QED BY <1>7, <2>2, <3>1 DEF Place
  <2> QED BY <2>1, <2>2
<1>9. Place(n - 1) = pc'
  BY <1>1, <1>3 DEF Place
<1>10. Known[pc].height = Emission!Pushes(code[pc' - 1])
  <2> DEFINE call == frames[n].returnTo - 1
  <2>1. call \in DOMAIN code /\ code[call].op \in Calls /\ Known[pc].fn = code[call].arg
    BY <1>4, <1>6 DEF CalledFrom
  <2>2. Known[pc].height = Emission!Pushes(code[call])
    <3> HIDE DEF call
    <3> QED BY <1>1, <1>3, <2>1 DEF BalancedCode, CallsAgree
  <2> QED BY <1>1, <1>3, <2>2
<1> QED
  BY <1>1, <1>2, <1>3, <1>4, <1>5, <1>6, <1>7, <1>8, <1>9, <1>10

LEMMA ReturnBalances ==
    ASSUME BalanceInv, ReturnFromCall, arity' = arity
    PROVE  Values' /\ Activations' /\ Balanced'
<1>1. PICK n \in Nat : n = Len(frames)
  BY Here DEF ReturnFromCall, Running
<1>2. status = "running" /\ Known' = Known /\ code' = code
  BY <1>1, ReturnIs, SameReading DEF SameCode
<1>3. Values /\ Activations /\ Balanced /\ BalancedCode
  BY <1>2, Here
<1>4. /\ n > 1 /\ DOMAIN frames = 1..n /\ DOMAIN frames' = 1..n - 1 /\ Len(frames') = n - 1
      /\ \A i \in 1..n - 1 : frames'[i] = frames[i]
      /\ \A i \in 1..n - 1 : Place(i)' = Place(i)
      /\ CalledFrom(n) /\ pc' = frames[n].returnTo /\ Place(n) = pc /\ Place(n - 1) = pc'
      /\ Known[pc].height = Emission!Pushes(code[pc' - 1])
      /\ Height' = Height /\ calls' = calls
  BY <1>1, ReturnIs
<1>5. Values'
  <2>1. UNCHANGED <<stack, calls, memory, arrays, input>>
    BY <1>1, ReturnIs
  <2> QED BY <1>3, <2>1 DEF Values
<1>6. Activations'
  <2> DEFINE S == [returnTo : Nat, number : 0..calls, base : Nat]
  <2>1. frames \in Seq(S) /\ frames[1].base = 0 /\ calls \in Nat
    BY <1>3 DEF Activations
  <2>2. frames' \in Seq(S)
    <3>1. frames' = SubSeq(frames, 1, n - 1)
      BY <1>1, ReturnIs
    <3> HIDE DEF S
    <3> QED BY <1>1, <1>4, <2>1, <3>1, SubSeqProperties
  <2>3. frames'[1] = frames[1] /\ Len(frames') >= 1
    BY <1>4
  <2> QED BY <1>4, <2>1, <2>2, <2>3 DEF Activations
<1>7. \A i \in DOMAIN frames' : Place(i)' \in DOMAIN code'
  BY <1>2, <1>3, <1>4 DEF Balanced
<1>8. \A i \in DOMAIN frames' : i > 1 => CalledFrom(i)'
  <2> SUFFICES ASSUME NEW i \in 1..n - 1, i > 1 PROVE CalledFrom(i)'
    BY <1>4
  <2>1. CalledFrom(i) /\ i - 1 \in 1..n - 1
    BY <1>3, <1>4 DEF Balanced
  <2>2. frames'[i] = frames[i] /\ frames'[i - 1] = frames[i - 1] /\ Place(i)' = Place(i)
    BY <1>4, <2>1
  <2> QED BY <1>2, <2>1, <2>2 DEF CalledFrom
<1>9. (Known[Place(1)].fn)' = "main"
  BY <1>2, <1>3, <1>4 DEF Balanced
<1>10. (Height = Frame.base + Known[pc].height)'
  <2> DEFINE call == pc' - 1
  <2>1. /\ call \in DOMAIN code /\ code[call].op \in Calls
        /\ frames[n].base + code[call].n = frames[n - 1].base + Known[call].height
    BY <1>4 DEF CalledFrom
  <2>2. pc' \in Nat /\ call + 1 = pc'
    <3>1. frames[n].returnTo \in Nat
      <4> DEFINE S == [returnTo : Nat, number : 0..calls, base : Nat]
      <4>1. frames \in Seq(S)
        BY <1>3 DEF Activations
      <4>2. frames[n] \in S
        <5> HIDE DEF S
        <5> QED BY <1>4, <4>1
      <4> QED BY <4>2
    <3> QED BY <1>4, <3>1
  <2>3. Successors(call) = {pc'}
    <3> HIDE DEF call
    <3> QED BY <2>1, <2>2 DEF Successors, Calls
  <2>4. Known[pc'].height = After(Known[call], code[call]).height
        /\ Known[call].height \in Nat /\ Emission!Pops(code[call]) \in 0..Known[call].height
    <3> HIDE DEF call
    <3> QED BY <1>3, <2>1, <2>3 DEF BalancedCode, HeightsAgree
  <2>5. Emission!Pops(code[call]) = code[call].n
    <3> HIDE DEF call
    <3> QED BY <2>1, Effects DEF Calls
  <2>6. Known[pc'].height = Known[call].height - code[call].n + Emission!Pushes(code[call])
    BY <2>4, <2>5 DEF After
  <2>7. Height = frames[n].base + Known[pc].height
    BY <1>1, <1>3 DEF Balanced, Frame
  <2>8. Emission!Pushes(code[call]) \in Nat
    BY DEF Emission!Pushes
  <2>9. frames[n].base \in Nat /\ frames[n - 1].base \in Nat
    <3> DEFINE S == [returnTo : Nat, number : 0..calls, base : Nat]
    <3>1. frames \in Seq(S)
      BY <1>3 DEF Activations
    <3>2. frames[n] \in S /\ frames[n - 1] \in S
      <4> HIDE DEF S
      <4> QED BY <1>4, <3>1
    <3> QED BY <3>2
  <2>10. Frame' = frames[n - 1]
    BY <1>4 DEF Frame
  <2>11. Known[pc].height = Emission!Pushes(code[call])
    BY <1>4
  <2>12. code[call].n \in Nat /\ Known[call].height \in Nat
    BY <2>4, <2>5
  <2> HIDE DEF call
  <2>13. Height = frames[n - 1].base + Known[pc'].height
    BY <2>1, <2>6, <2>7, <2>8, <2>9, <2>11, <2>12
  <2> QED BY <1>2, <1>4, <2>10, <2>13
<1> QED
  BY <1>5, <1>6, <1>7, <1>8, <1>9, <1>10 DEF Balanced

LEMMA ReturnKeeps ==
    ASSUME BalanceInv, FreshInv, ReturnFromCall, arity' = arity
    PROVE  FreshInv'
<1>1. PICK n \in Nat : n = Len(frames)
  BY Here DEF ReturnFromCall, Running
<1>2. status = "running" /\ Known' = Known /\ code' = code /\ memory' = memory
  BY <1>1, ReturnIs, SameReading DEF SameCode
<1>3. SeparateCode /\ Descending /\ Kept
  BY <1>2 DEF FreshInv
<1>4. SeparateCode'
  BY <1>1, <1>3, ReturnIs, SeparateCodeStays
<1>5. /\ DOMAIN frames = 1..n /\ DOMAIN frames' = 1..n - 1
      /\ \A i \in 1..n - 1 : frames'[i] = frames[i]
      /\ \A i \in 1..n - 1 : Place(i)' = Place(i)
  BY <1>1, ReturnIs
<1>6. Descending'
  <2>1. \A i \in 1..n - 1 : Rank(Known[Place(i)].fn)' = Rank(Known[Place(i)].fn)
    <3> SUFFICES ASSUME NEW i \in 1..n - 1
                 PROVE  Rank(Known[Place(i)].fn)' = Rank(Known[Place(i)].fn)
      OBVIOUS
    <3> DEFINE f == Known[Place(i)].fn
    <3>1. f' = f
      BY <1>2, <1>5
    <3> HIDE DEF f
    <3>2. Rank(f)' = Rank(f)
      BY <1>2, <3>1 DEF Rank, Target
    <3> QED BY <3>2 DEF f
  <2> QED BY <1>3, <1>5, <2>1 DEF Descending
<1>7. Kept'
  BY <1>2, <1>3, <1>5 DEF Kept
<1> QED
  BY <1>4, <1>6, <1>7 DEF FreshInv

---------------------------------------------------------------------------
(* The invariant holds.                                                     *)

CodeBalances == status = "compiled" => BalancedCode

LEMMA InitBalances == Init /\ CodeBalances => BalanceInv
<1> SUFFICES ASSUME Init, CodeBalances PROVE BalanceInv
  OBVIOUS
<1>1. status \in {"compiled", "rejected"} /\ EmptyMachine
  BY DEF Init
<1>2. input \in Seq(Cell)
  BY InputsAreCells DEF Init
<1>3. Values
  <2>1. stack = <<>> /\ DOMAIN memory = {} /\ DOMAIN arrays = {}
    BY <1>1 DEF EmptyMachine
  <2> QED BY <1>2, <2>1 DEF Values
<1>4. Activations
  BY <1>1 DEF EmptyMachine, Activations
<1> QED
  BY <1>1, <1>3, <1>4 DEF BalanceInv, CodeBalances

LEMMA LoadBalances == ASSUME BalanceInv, Load PROVE BalanceInv'
<1>1. /\ status = "compiled" /\ status' = "running" /\ pc' = 1 /\ SameCode
      /\ UNCHANGED <<stack, frames, calls, memory, arrays, input>>
  BY DEF Load, SameCode
<1>2. BalancedCode /\ Values /\ Activations /\ EmptyMachine
  BY <1>1 DEF BalanceInv
<1>3. Known' = Known /\ code' = code /\ BalancedCode'
  BY <1>1, <1>2, SameReading, BalancedCodeStays DEF SameCode
<1>4. Values' /\ Activations'
  BY <1>1, <1>2 DEF Values, Activations
<1>5. frames' = <<[returnTo |-> 0, number |-> 0, base |-> 0]>> /\ stack' = <<>>
  BY <1>1, <1>2 DEF EmptyMachine
<1>6. Balanced'
  <2>1. DOMAIN frames' = {1} /\ Len(frames') = 1 /\ frames'[1].base = 0 /\ Place(1)' = 1
    BY <1>1, <1>5 DEF Place
  <2>2. 1 \in DOMAIN code /\ Known[1].fn = "main" /\ Known[1].height = 0
    BY <1>2 DEF BalancedCode, HeightsAgree
  <2> QED BY <1>1, <1>3, <1>5, <2>1, <2>2 DEF Balanced, Height, Frame
<1> QED
  BY <1>1, <1>3, <1>4, <1>6 DEF BalanceInv

LEMMA LoadKeeps == ASSUME BalanceInv, FreshInv, Load PROVE FreshInv'
<1>1. /\ status = "compiled" /\ status' = "running" /\ pc' = 1 /\ SameCode
      /\ frames' = frames /\ SeparateCode /\ EmptyMachine
  BY DEF Load, SameCode, FreshInv, BalanceInv
<1>2. Known' = Known /\ SeparateCode'
  BY <1>1, SameReading, SeparateCodeStays
<1>3. DOMAIN frames' = {1} /\ Place(1)' = 1
  BY <1>1 DEF EmptyMachine, Place
<1>4. Known[1].temps = {}
  BY <1>1 DEF SeparateCode, TemporariesAreStored
<1>5. Descending'
  BY <1>3 DEF Descending
<1>6. Kept'
  BY <1>2, <1>3, <1>4 DEF Kept
<1> QED
  BY <1>2, <1>5, <1>6 DEF FreshInv

(* The machine stops where it is.                                           *)
Stops ==
    /\ status = "running" /\ status' \in {"halted", "trapped"}
    /\ UNCHANGED <<code, pc, stack, frames, calls, memory, arrays, input, arity>>

LEMMA StopBalances == ASSUME BalanceInv, Stops PROVE BalanceInv'
<1>1. BalancedCode /\ Balanced /\ Values /\ Activations
  BY Here DEF Stops
<1>2. SameCode /\ Known' = Known
  BY SameReading DEF Stops, SameCode
<1>3. BalancedCode'
  BY <1>1, <1>2, BalancedCodeStays
<1>4. Values' /\ Activations'
  BY <1>1 DEF Stops, Values, Activations
<1>5. \A i : Place(i)' = Place(i)
  BY DEF Stops, Place
<1>6. Balanced'
  BY <1>1, <1>2, <1>5 DEF Stops, Balanced, CalledFrom, Height, Frame
<1> QED
  BY <1>3, <1>4, <1>6 DEF BalanceInv, Stops

LEMMA StopKeeps == ASSUME FreshInv, Stops PROVE FreshInv'
<1>1. SeparateCode'
  BY SeparateCodeStays DEF Stops, SameCode, FreshInv
<1> QED
  BY <1>1 DEF Stops, FreshInv

(* A step is of one of five kinds.                                          *)
LEMMA ExecuteIs ==
    ASSUME BalanceInv, Execute
    PROVE  Moves \/ CallLabel \/ ReturnFromCall \/ Stops
<1>1. arity' = arity /\ Step
  BY DEF Execute
<1>2. Halt \/ Trap => Stops
  BY <1>1 DEF Halt, Trap, Running, Stops
<1> QED
  BY <1>1, <1>2, PushMoves, LoadVarMoves, StoreVarMoves, BinaryOpMoves, UnaryOpMoves,
     PassLabelMoves, JumpMoves, JumpIfZeroMoves, PrintTopMoves, InputMoves, SetArrayMoves,
     LoadArrMoves, StoreArrMoves
  DEF Step

LEMMA NextBalances == BalanceInv /\ [Next]_vars => BalanceInv'
<1> SUFFICES ASSUME BalanceInv, [Next]_vars PROVE BalanceInv'
  OBVIOUS
<1>1. CASE Load
  BY <1>1, LoadBalances
<1>2. CASE Execute
  <2>1. arity' = arity
    BY <1>2 DEF Execute
  <2>2. CASE Moves
    <3>1. Advances /\ Values'
      BY <2>2 DEF Moves
    <3>2. Balanced'
      BY <3>1, AdvanceBalances
    <3>3. BalancedCode'
      BY <3>1, Here, BalancedCodeStays DEF Advances
    <3>4. Activations'
      BY <3>1, Here DEF Advances, Activations
    <3> QED BY <3>1, <3>2, <3>3, <3>4 DEF BalanceInv, Advances
  <2>3. CASE CallLabel
    <3>1. status = "running" /\ status' = "running" /\ SameCode
      BY <2>1, <2>3 DEF CallLabel, Running, SameCode
    <3>2. BalancedCode'
      BY <3>1, Here, BalancedCodeStays
    <3> QED BY <2>1, <2>3, <3>1, <3>2, CallBalances DEF BalanceInv
  <2>4. CASE ReturnFromCall
    <3>1. status = "running" /\ status' = "running" /\ SameCode
      BY <2>1, <2>4 DEF ReturnFromCall, Running, SameCode
    <3>2. BalancedCode'
      BY <3>1, Here, BalancedCodeStays
    <3> QED BY <2>1, <2>4, <3>1, <3>2, ReturnBalances DEF BalanceInv
  <2>5. CASE Stops
    BY <2>5, StopBalances
  <2> QED BY <1>2, <2>2, <2>3, <2>4, <2>5, ExecuteIs
<1>3. CASE UNCHANGED vars
  <2>1. UNCHANGED <<code, pc, stack, frames, calls, memory, arrays, input, output, status, arity>>
    BY <1>3 DEF vars, machine
  <2>2. SameCode /\ Known' = Known
    BY <2>1, SameReading DEF SameCode
  <2>3. status # "rejected" => BalancedCode'
    BY <2>2, BalancedCodeStays DEF BalanceInv
  <2>4. Values' /\ Activations' /\ (EmptyMachine => EmptyMachine')
    BY <2>1 DEF BalanceInv, Values, Activations, EmptyMachine
  <2>5. Balanced => Balanced'
    <3>1. \A i : Place(i)' = Place(i)
      BY <2>1 DEF Place
    <3> QED BY <2>1, <2>2, <3>1 DEF Balanced, CalledFrom, Height, Frame
  <2> QED BY <2>1, <2>3, <2>4, <2>5 DEF BalanceInv
<1> QED
  BY <1>1, <1>2, <1>3 DEF Next

LEMMA NextKeeps == BalanceInv /\ FreshInv /\ [Next]_vars => FreshInv'
<1> SUFFICES ASSUME BalanceInv, FreshInv, [Next]_vars PROVE FreshInv'
  OBVIOUS
<1>1. CASE Load
  BY <1>1, LoadKeeps
<1>2. CASE Execute
  <2>1. arity' = arity
    BY <1>2 DEF Execute
  <2>2. CASE Moves
    BY <2>2, AdvanceKeeps DEF Moves
  <2> QED BY <1>2, <2>1, <2>2, ExecuteIs, CallKeeps, ReturnKeeps, StopKeeps
<1>3. CASE UNCHANGED vars
  <2>1. UNCHANGED <<code, pc, frames, memory, status, arity>>
    BY <1>3 DEF vars, machine
  <2>2. SameCode /\ Known' = Known
    BY <2>1, SameReading DEF SameCode
  <2>3. status # "rejected" => SeparateCode'
    BY <2>2, SeparateCodeStays DEF FreshInv
  <2>4. \A i : Place(i)' = Place(i)
    BY <2>1 DEF Place
  <2>5. Kept => Kept'
    BY <2>1, <2>2, <2>4 DEF Kept
  <2>6. Descending => Descending'
    <3> SUFFICES ASSUME Descending,
                        NEW i \in DOMAIN frames, NEW j \in DOMAIN frames, i < j
                 PROVE  Rank(Known[Place(j)].fn)' < Rank(Known[Place(i)].fn)'
      BY <2>1 DEF Descending
    <3> DEFINE f == Known[Place(i)].fn
               g == Known[Place(j)].fn
    <3>1. Rank(g) < Rank(f)
      BY DEF Descending
    <3>2. f' = f /\ g' = g
      BY <2>2, <2>4
    <3> HIDE DEF f, g
    <3>3. Rank(g)' < Rank(f)'
      BY <2>1, <3>1, <3>2 DEF Rank, Target
    <3> QED BY <3>3 DEF f, g
  <2> QED BY <2>1, <2>3, <2>5, <2>6 DEF FreshInv
<1> QED
  BY <1>1, <1>2, <1>3 DEF Next

(* Whatever code a verifier finds balanced runs balanced, recursive or not.  *)
LEMMA BalanceInvariant == Spec /\ CodeBalances => []BalanceInv
  BY InitBalances, NextBalances, PTL DEF Spec

LEMMA VerifiedBalances == CodeVerifies => CodeBalances
  BY DEF CodeVerifies, CodeBalances, BalancedCode

LEMMA MachineInvariant == Spec /\ CodeVerifies => [](BalanceInv /\ FreshInv)
<1>1. Init /\ CodeVerifies => BalanceInv /\ FreshInv
  <2> SUFFICES ASSUME Init, CodeVerifies PROVE BalanceInv /\ FreshInv
    OBVIOUS
  <2>1. BalanceInv
    BY InitBalances, VerifiedBalances
  <2>2. status \in {"compiled", "rejected"}
    BY DEF Init
  <2>3. FreshInv
    BY <2>2 DEF FreshInv, CodeVerifies, SeparateCode
  <2> QED BY <2>1, <2>3
<1>2. BalanceInv /\ FreshInv /\ [Next]_vars => (BalanceInv /\ FreshInv)'
  BY NextBalances, NextKeeps
<1> QED
  BY <1>1, <1>2, PTL DEF Spec

(* The machine's registers stay what they are: no opcode finds the stack too *)
(* low, no jump, call or return leaves the program, and a value is a value   *)
(* (every opcode of Emit.cpp, run by the VM).                                *)
THEOREM MachineTypes == Spec /\ CodeVerifies => []TypeOK
<1>1. BalanceInv => TypeOK
  <2> SUFFICES ASSUME BalanceInv PROVE TypeOK
    OBVIOUS
  <2>1. Values /\ status \in {"compiled", "rejected", "running", "halted", "trapped"}
    BY DEF BalanceInv
  <2>2. status = "running" => pc \in DOMAIN code
    BY Here
  <2>3. Frame.base \in 0..Height
    <3>1. CASE status \in {"compiled", "rejected"}
      <4>1. EmptyMachine
        BY <3>1 DEF BalanceInv
      <4> QED BY <4>1 DEF EmptyMachine, Frame, Height
    <3>2. CASE status \in {"running", "halted", "trapped"}
      <4> DEFINE S == [returnTo : Nat, number : 0..calls, base : Nat]
      <4>1. Balanced /\ BalancedCode /\ Activations
        BY <3>2 DEF BalanceInv
      <4>2. frames \in Seq(S) /\ Len(frames) >= 1
        BY <4>1 DEF Activations
      <4>3. Len(frames) \in DOMAIN frames /\ frames[Len(frames)] \in S
        <5> HIDE DEF S
        <5> QED BY <4>2
      <4>4. pc \in DOMAIN code
        BY <4>1, <4>3 DEF Balanced, Place
      <4>5. Known[pc].height \in Nat
        BY <4>1, <4>4 DEF BalancedCode, HeightsAgree
      <4>6. Frame.base \in Nat /\ Height = Frame.base + Known[pc].height
        BY <4>1, <4>3 DEF Frame, Balanced
      <4> QED BY <4>5, <4>6
    <3> QED BY <2>1, <3>1, <3>2
  <2> QED BY <2>1, <2>2, <2>3 DEF Values, TypeOK
<1> QED
  BY <1>1, MachineInvariant, PTL

(* Whatever a program computes, at every label the stack holds what the code *)
(* behind it is written for, and a return leaves the result alone.           *)
THEOREM StackIsBalanced == Spec /\ CodeVerifies => []StackBalanced
<1>1. BalanceInv => StackBalanced
  <2> SUFFICES ASSUME BalanceInv, Active PROVE StackBalanced
    BY DEF StackBalanced
  <2>1. status = "running"
    BY DEF Active
  <2>2. /\ BalancedCode /\ Balanced /\ Activations /\ pc \in DOMAIN code /\ Current = code[pc]
        /\ Frame = frames[Len(frames)] /\ Frame.base \in Nat /\ Known[pc].height \in Nat
        /\ Height = Frame.base + Known[pc].height
    BY <2>1, Here
  <2>3. Height - Frame.base = Known[pc].height
    BY <2>2
  <2>4. Len(frames) \in Nat /\ DOMAIN frames = 1..Len(frames) /\ Len(frames) >= 1
        /\ Place(Len(frames)) = pc
    BY <2>2 DEF Activations, Place
  <2>5. Len(frames) > 1 =>
            /\ CalledFrom(Len(frames))
            /\ Known[pc].fn # "main"
    <3> SUFFICES ASSUME Len(frames) > 1
                 PROVE  CalledFrom(Len(frames)) /\ Known[pc].fn # "main"
      OBVIOUS
    <3>1. CalledFrom(Len(frames))
      BY <2>2, <2>4 DEF Balanced
    <3> DEFINE call == Frame.returnTo - 1
    <3>2. call \in DOMAIN code /\ code[call].op \in Calls /\ Known[pc].fn = code[call].arg
      BY <2>2, <2>4, <3>1 DEF CalledFrom
    <3> HIDE DEF call
    <3>3. code[call].arg # "main"
      BY <2>2, <3>2 DEF BalancedCode, CallsAgree
    <3> QED BY <3>1, <3>2, <3>3
  <2>6. Current.op = "LABEL" => Height - Frame.base = Due(Current.arg)
    BY <2>2, <2>3 DEF BalancedCode, HeightsAgree
  <2>7. Current.op = "RETURN" =>
            Height - Frame.base = IF code[Frame.returnTo - 1].op = "CALL" THEN 1 ELSE 0
    <3> SUFFICES ASSUME Current.op = "RETURN"
                 PROVE  Known[pc].height = IF code[Frame.returnTo - 1].op = "CALL" THEN 1 ELSE 0
      BY <2>3
    <3>1. Known[pc].fn # "main"
      BY <2>2 DEF BalancedCode, CallsAgree
    <3>2. Len(frames) > 1
      BY <2>2, <2>4, <3>1 DEF Balanced
    <3> DEFINE call == Frame.returnTo - 1
    <3>3. call \in DOMAIN code /\ code[call].op \in Calls /\ Known[pc].fn = code[call].arg
      BY <2>2, <2>4, <2>5, <3>2 DEF CalledFrom
    <3> HIDE DEF call
    <3>4. Known[pc].height = Emission!Pushes(code[call])
      BY <2>2, <3>3 DEF BalancedCode, CallsAgree
    <3>5. Emission!Pushes(code[call]) = IF code[call].op = "CALL" THEN 1 ELSE 0
      BY <3>3, Effects DEF Calls
    <3> QED BY <3>4, <3>5 DEF call
  <2>8. Current.op = "HALT" => Height = 0
    <3> SUFFICES ASSUME Current.op = "HALT" PROVE Height = 0
      OBVIOUS
    <3>1. Known[pc].fn = "main" /\ Known[pc].height = 0
      BY <2>2 DEF BalancedCode, HeightsAgree
    <3>2. Frame.base = 0
      BY <2>2, <2>4, <2>5, <3>1 DEF Activations
    <3> QED BY <2>2, <3>1, <3>2
  <2> QED BY <2>6, <2>7, <2>8 DEF StackBalanced
<1> QED
  BY <1>1, MachineInvariant, PTL

(* A temporary that is loaded is the one that its own activation stored, in  *)
(* every run: no other function's code and no other call writes it between.  *)
THEOREM TemporariesFresh == Spec /\ CodeVerifies => []TemporariesAreFresh
<1>1. BalanceInv /\ FreshInv => TemporariesAreFresh
  <2> SUFFICES ASSUME BalanceInv, FreshInv, Active, Current.op = "LOAD_VAR",
                      Current.temp # IR!NoValue
               PROVE  /\ Current.arg \in DOMAIN memory
                      /\ memory[Current.arg].by = Frame.number
    BY DEF TemporariesAreFresh
  <2>1. /\ status = "running" /\ pc \in DOMAIN code /\ Current = code[pc] /\ SeparateCode /\ Kept
        /\ Len(frames) \in DOMAIN frames /\ Frame = frames[Len(frames)]
    BY Here DEF Active, FreshInv
  <2>2. Current.arg \in Known[Place(Len(frames))].temps
    BY <2>1 DEF SeparateCode, TemporariesAreStored, Place
  <2> QED BY <2>1, <2>2 DEF Kept
<1> QED
  BY <1>1, MachineInvariant, PTL
=============================================================================
