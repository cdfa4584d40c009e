------------------------------- MODULE Compile -------------------------------
(***************************************************************************)
(* The compiler's back half and the program it makes: a source program is  *)
(* lowered to IR, the IR is emitted as opcodes, and the VM executes them.  *)
(***************************************************************************)
EXTENDS GeminiVM, Sequencing, FiniteSets

CONSTANTS Compilations, \* programs and inputs, and what the compiler makes of them
          MinInt      \* the least integer PUSH_INT reads

VARIABLES arity,      \* the scalar parameters of each subprogram
          meaning,    \* what the program means for the input (Pascal.tla)
          ir          \* its IR, until the VM takes over

vars == <<machine, arity, meaning, ir>>

(* What a user types is a sequence of numbers.                              *)
ASSUME InputsAreCells == \A c \in Compilations : c.input \in Seq(Cell)

IR == INSTANCE Ir
Emission == INSTANCE EmitOps

(* The compiler has run: `ir` is what it handed its back end, `code` what it *)
(* wrote, nothing if it reported an error.                                  *)
Init ==
    /\ \E c \in Compilations :
           /\ input = c.input /\ meaning = c.meaning
           /\ arity = c.arity /\ ir = c.ir /\ code = c.code
    /\ status = IF code = <<>> THEN "rejected" ELSE "compiled"
    /\ EmptyMachine

(* The VM loads the .tbc file and starts it; the compiler is gone.          *)
Load ==
    /\ status = "compiled"
    /\ status' = "running"
    /\ pc' = 1
    /\ ir' = <<>>
    /\ UNCHANGED <<code, stack, frames, calls, memory, arrays, input, output,
                   arity, meaning>>

Execute == Step /\ UNCHANGED <<arity, meaning, ir>>

Next == Load \/ Execute

Spec == Init /\ [][Next]_vars

(* Compiler and VM are sequential programs that go on while they can.       *)
FairSpec == Spec /\ WF_vars(Next)

---------------------------------------------------------------------------
(* The IR as a verifier reads it: the instructions of a function in layout  *)
(* order, and what a run-time verifier knows of the operand stack.          *)

Places(f) ==
    UNION {{b} \X DOMAIN f.blocks[b].body : b \in DOMAIN f.blocks}
Instruction(f, at) == f.blocks[at[1]].body[at[2]]
DefinedBefore(f, block, k) ==
    {Instruction(f, at).res : at \in {x \in Places(f) :
        x[1] < block \/ (x[1] = block /\ x[2] < k)}} \ {IR!NoValue}

(* The code as a verifier reads it, without running it, once from the first  *)
(* opcode to the last.  Before an opcode it knows the function it is in, the *)
(* height of the stack above the cells the function was called with, and the *)
(* temporaries that are stored on every way there.                           *)

Opcodes == [op : STRING, arg : STRING, src : STRING, n : Int, temp : Int]
Jumps == {"JUMP", "JZ"}
Calls == {"CALL", "CALLVOID"}
Ends == {"JUMP", "RETURN", "HALT"}

Due(label) == IF label \in DOMAIN arity THEN arity[label] ELSE 0

After(known, o) ==
    [fn |-> known.fn,
     height |-> known.height - Emission!Pops(o) + Emission!Pushes(o),
     temps |-> IF o.op = "STORE_VAR" /\ o.temp # IR!NoValue
               THEN known.temps \cup {o.arg} ELSE known.temps]

(* It goes through the opcodes from one label to the next; a label with      *)
(* several ways to it knows what all of those know that come from before it. *)
KnownOf(c, scalars) ==
    LET labels == SelectSeq([k \in DOMAIN c |-> k], LAMBDA k : c[k].op = "LABEL")
        entry(k) == k = 1 \/ c[k].arg \in DOMAIN scalars
        ways(k) == {j \in 1..k - 1 :
                       \/ j = k - 1 /\ c[j].op \notin Ends
                       \/ c[j].op \in Jumps /\ c[k].arg = c[j].arg}
        stored(known, k) ==
            LET before == {After(known[j], c[j]).temps : j \in ways(k)}
            IN  {name \in UNION before : \A temps \in before : name \in temps}
        at(known, k) ==
            IF c[k].op # "LABEL" THEN After(known[k - 1], c[k - 1])
            ELSE IF entry(k)
            THEN [fn |-> c[k].arg, height |-> IF k = 1 THEN 0 ELSE scalars[c[k].arg],
                  temps |-> {}]
            ELSE [fn |-> known[k - 1].fn, height |-> 0, temps |-> stored(known, k)]
        extended(known, first, last) ==
            LET upto[k \in first - 1..last] ==
                    IF k < first THEN known
                    ELSE Then(upto[k - 1], LAMBDA before : Append(before, at(before, k)))
            IN  upto[last]
        through[b \in 0..Len(labels)] ==
            IF b = 0 THEN <<>>
            ELSE Then(through[b - 1], LAMBDA known :
                     extended(known, Len(known) + 1,
                              IF b < Len(labels) THEN labels[b + 1] - 1 ELSE Len(c)))
    IN  through[Len(labels)]
Known == KnownOf(code, arity)

Resolves(label) == \E k \in DOMAIN code : code[k].op = "LABEL" /\ code[k].arg = label
Successors(k) ==
    CASE code[k].op = "JUMP" -> {Target(code[k].arg)}
      [] code[k].op = "JZ" -> {k + 1, Target(code[k].arg)}
      [] code[k].op \in {"RETURN", "HALT"} -> {}
      [] OTHER -> {k + 1}

(* What it knows is true of every way through a function: nothing pops what  *)
(* is not there, and the ways that meet meet at one height.                  *)
HeightsAgree(known) ==
    /\ 1 \in DOMAIN code
    /\ known[1].fn = "main" /\ known[1].height = 0
    /\ \A k \in DOMAIN code :
           LET o == code[k]
           IN  /\ o.op \in Jumps \cup Calls => Resolves(o.arg)
               /\ known[k].height \in Nat /\ Emission!Pops(o) \in 0..known[k].height
               /\ \A next \in Successors(k) :
                      /\ next \in DOMAIN code
                      /\ known[next].fn = known[k].fn
                      /\ known[next].height = After(known[k], o).height
               /\ o.op = "LABEL" => known[k].height = Due(o.arg)
               /\ o.op = "CALL_FUNC" => o.n = 1
               /\ o.op = "HALT" => known[k].fn = "main" /\ known[k].height = 0

(* A callee starts with its arguments on the stack, and every return of it   *)
(* leaves there what the call goes on with.                                  *)
CallsAgree(known) ==
    \A k \in DOMAIN code :
        /\ code[k].op \in Calls =>
               LET entry == Target(code[k].arg)
               IN  /\ code[k].arg # "main"
                   /\ known[entry].fn = code[k].arg /\ known[entry].height = code[k].n
                   /\ \A r \in DOMAIN code :
                          code[r].op = "RETURN" /\ known[r].fn = code[k].arg =>
                              known[r].height = Emission!Pushes(code[k])
        /\ code[k].op = "RETURN" => known[k].fn # "main"

(* A temporary is loaded only where every way there has stored it.           *)
TemporariesAreStored(known) ==
    /\ known[1].temps = {}
    /\ \A k \in DOMAIN code :
           /\ code[k].op = "LOAD_VAR" /\ code[k].temp # IR!NoValue =>
                  code[k].arg \in known[k].temps
           /\ \A next \in Successors(k) :
                  known[next].temps \subseteq After(known[k], code[k]).temps
           /\ code[k].op \in Calls => known[Target(code[k].arg)].temps = {}

(* Nothing else overwrites it: no other function stores in it, and no        *)
(* function is called again while it is active, since each calls only those  *)
(* laid out before it (the program itself, laid out first, calls them all).  *)
Rank(f) == IF f = "main" THEN Len(code) + 1 ELSE Target(f)
SlotsAreApart(known) ==
    LET owners == UNION {{<<name, known[k].fn>> : name \in known[k].temps} : k \in DOMAIN code}
    IN  \A k \in DOMAIN code :
            /\ code[k].op = "STORE_VAR" =>
                   \A owner \in owners : owner[1] = code[k].arg => owner[2] = known[k].fn
            /\ code[k].op \in Calls => Rank(code[k].arg) < Rank(known[k].fn)

(* A label is laid out once, so that a jump has one place to go to.          *)
LabelsAreApart ==
    LET labels == {k \in DOMAIN code : code[k].op = "LABEL"}
    IN  Cardinality({code[k].arg : k \in labels}) = Cardinality(labels)

Active == status = "running"

(* A verifier accepts what the compiler writes: whatever way is taken        *)
(* through the code, a jump or a call has exactly one label to go to, the    *)
(* stack has one height at each opcode, calls and returns agree about it,    *)
(* and a temporary is stored before it is loaded and not overwritten in      *)
(* between (emitTbc, mangleBlockLabel, newLabel, and the order in which Lower*)
(* lays out blocks and values).                                              *)
CodeVerifies ==
    status = "compiled" =>
        \E known \in {Known} :
            /\ code \in Seq(Opcodes) /\ LabelsAreApart
            /\ HeightsAgree(known) /\ CallsAgree(known)
            /\ TemporariesAreStored(known) /\ SlotsAreApart(known)

(* The compiler and the machine go through their states in order, and the   *)
(* machine's registers stay what they are: Emit.cpp's emitTbc and the VM.   *)
TypeOK ==
    /\ status \in {"compiled", "rejected", "running", "halted", "trapped"}
    /\ status = "running" => pc \in DOMAIN code
    /\ stack \in Seq(Cell) /\ input \in Seq(Cell)
    /\ Frame.base \in 0..Height
    /\ \A name \in DOMAIN memory : memory[name] \in [val : Cell, by : 0..calls]
    /\ \A name \in DOMAIN arrays : \A k \in DOMAIN arrays[name] : arrays[name][k] \in Cell

(* What Emit assumes of the IR and Lower has to provide, whatever blocks an *)
(* expression opens while its operands wait (lowerRound, lowerAbsReal): in  *)
(* layout order, a value is defined once, and before any instruction or     *)
(* terminator that uses it.                                                 *)
OperandsDefinedFirst ==
    status = "compiled" =>
        \A k \in DOMAIN ir :
            LET f == ir[k]
            IN  /\ \A at \in Places(f) :
                     LET i == Instruction(f, at)
                         before == DefinedBefore(f, at[1], at[2])
                     IN  /\ IR!UsedValues(i) \subseteq before
                         /\ i.res \notin before
                /\ \A b \in DOMAIN f.blocks :
                     f.blocks[b].term.value \in
                         DefinedBefore(f, b + 1, 0) \cup {IR!NoValue}

(* A program that analyse has accepted is compiled: neither lowering nor    *)
(* emission finds anything in it that it cannot do (irFile and emitFile in  *)
(* apolloc.cpp stop at the first phase that reports an error).              *)
NeverRejected == status # "rejected"

(* The operand stack is empty above the caller's cells at every label but a *)
(* callee's, where it holds the scalar arguments; a return leaves the       *)
(* result of a function and nothing else, and so does a statement that      *)
(* calls a function for its effect (emitUserCall, emitParamPrologue).       *)
StackBalanced ==
    Active =>
        /\ Current.op = "LABEL" =>
               Height - Frame.base = Due(Current.arg)
        /\ Current.op = "RETURN" =>
               Height - Frame.base = IF code[Frame.returnTo - 1].op = "CALL"
                                     THEN 1 ELSE 0
        /\ Current.op = "HALT" => Height = 0

(* Every temporary is loaded by the activation that stored it, on the path  *)
(* that was taken: the slots are static and shared by all activations and   *)
(* all branches of a function, and nothing but the order of the code keeps  *)
(* a load from finding what another branch or an earlier call left there.   *)
TemporariesAreFresh ==
    Active /\ Current.op = "LOAD_VAR" /\ Current.temp # IR!NoValue =>
        /\ Current.arg \in DOMAIN memory
        /\ memory[Current.arg].by = Frame.number

(* A compiled program prints what its source means, item by item, and ends  *)
(* as its source does: at its end, or at the error it makes.                *)
OutputMatchesSource ==
    /\ Len(output) <= Len(meaning.output)
    /\ output = SubSeq(meaning.output, 1, Len(output))
    /\ status \in {"halted", "trapped"} =>
           /\ output = meaning.output
           /\ meaning.ok = (status = "halted")

(* Compiler and VM together implement the promise to the user: the program  *)
(* prints its meaning, runs to its end or stops at the error its source     *)
(* makes, and does one or the other.                                        *)
Promise == INSTANCE Observable WITH
    printed <- output,
    ended <- CASE status = "halted" -> "ok"
               [] status = "trapped" -> "error"
               [] OTHER -> "no"
ImplementsSource == Promise!Spec
=============================================================================
