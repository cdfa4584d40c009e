# Apollo in TLA+

Apollo is a sequential compiler, written in C++, from a Pascal dialect to `.tbc`, the assembly of
the Gemini VM (`docs/overview.md`). This directory holds TLA+ models of every phase - scanner,
parser, semantic analysis, lowering, code generator - and of what the generated code does with
files, the TLC configurations that check them, and proofs that TLAPS checks about the code
generator, the execution of compiled code, the scanner and the lines of a source file, the parser,
the symbol table and the walk of the analyser that uses it, and the files.

    tlc -config Emit.cfg MCEmit              # the code generator, on arbitrary IR
    tlc -config Compile.cfg MCCompile        # source program -> IR -> opcodes -> execution
    tlc -config WrongOutput.cfg MCCompile    # and NamedConsts
    tlc -config Scanner.cfg MCScanner        # texts and include files -> tokens
    tlc -config Parser.cfg MCParser          # tokens -> syntax errors, expression trees
    tlc -config Records.cfg MCParser         # and FieldIndex
    tlc -config Analyse.cfg MCAnalyse        # trees -> diagnostics, types on the tree
    tlc -config Unreported.cfg MCAnalyse     # and ConstCycle
    tlc -config Files.cfg MCFiles            # a file variable of a compiled program
    tlapm EmitProofs.tla                     # and MachineProofs, ScannerProofs, ParserProofs,
                                             # WalkProofs, FileProofs, SequentialProofs

There is no concurrency in a compiler. What is hard here is of two other kinds. First, a translation
is correct only if facts computed at one time are still true at another: what the emitter *believes*
about the operand stack and the temporaries must be what the opcodes do when they run, on every path
and in every activation. Second, a program is a long sequence of legal steps: statement forms
interact (an expression that opens blocks while another operand waits, a label counter shared by
nested statements, static variables shared by all activations), and nobody writes a test for each
pairing. The front end has its own share of it: include files make the scanner a stack machine with
four pieces of state to keep in step, a parser that recovers from errors has to make progress
wherever recovery leaves it, and the analyser has dozens of rules that have to say the same of a
phrase wherever it stands. Compiled programs keep files, and there a run may be cut off at any place
and the next one finds what was written.

## The system

| Component | State it keeps | Operations | Correct when | Here |
|---|---|---|---|---|
| Driver, `tools/apolloc.cpp` | one `DiagnosticEngine` per run | the pipeline `scan`, `parse`, `analyse`, `lowerToIr`, `emitTbc`; the first three run whatever was reported, the last two and the output only without an error | nothing is emitted after an error; an accepted program is emitted | `Compile`, `Compiler` |
| Code generator, `codegen/Emit.cpp` | `EmitCtx`: `stackTop`, `spilled`, `failed`, the output | one function per IR operation, terminator, block, function, module | belief and opcodes agree; the stack is balanced; every operand can be reloaded | `EmitOps`, `Emit`, `EmitProofs`, `Tbc` |
| Opcode writer, `codegen/TbcWriter.cpp` | a text buffer | append an opcode or a label | order | `Put` in `EmitOps` |
| IR, `ir/Ir.hpp` | functions of blocks of instructions | `newTemp`, `producesValue` | operands are defined before their use | `Ir` |
| Lowering, `pascal/ir/Lower.cpp` | `LowerCtx`: slots, constants, the open block, label and temporary counters, result value | one function per expression and statement kind | the IR means what the source means | `Lower`, `FrontEnd` |
| Files in the generated code, `pascal/ir/Lower.cpp` | per file variable `$path`, `$h`, `$rd`, `$eof`, `$peek`, `$eoln` | `assign`, `reset`, `rewrite`, `close`, `read`, `write`, `eof`, `eoln` | a file variable is a sequential file; no handle is lost | `FileSlots`, `TextIO`, `TypedIO`, `FilesAreSequential`, `FileProofs`, `SequentialProofs` |
| Syntax tree, `pascal/ast/Ast.hpp` | the tree | - | - | `Ast` |
| Semantic analysis, `pascal/semantic/Analyse.cpp` | `AnalyseCtx`: the current subprogram and its locals; the types on the tree | one function per declaration, denoter, expression and statement kind | a diagnostic where, and only where, a rule is broken; the scopes follow the tree; the types are those lowering needs | `Walk`, `Analyse`, `WalkProofs` |
| Symbol table and types, `semantic/SymbolTable.cpp`, `Type.cpp` | a stack of scopes; symbols | `pushScope`, `popScope`, `declare`, `lookup` | names mean what block structure says | `SymbolTable`, `Types`, `WalkProofs` |
| Parser, `TokenCursor` | a position in the token stream, the active calls | one function per syntactic form; `expect`, `syncStatement`, `syncDeclaration` | every loop makes progress; the first error is where the grammar has one; precedence | `Parser`, `Grammar`, `ParserProofs` |
| Scanner | a stack of open files, the set of active paths, a position, the path of diagnostics | one function per lexical form; `pushFrame`, `popFrame`, `handleInclude` | positions survive an include; no cycle; the depth is bounded; diagnostics name the right file; no text lost | `Scanner`, `ScannerProofs` |
| `SourceFile` | text, line starts | `locationAt`, `lineText` | every offset has the line it is on, however lines end | `SourceLines`, `TokenPlaces`, `ScannerProofs` |
| Diagnostics | a list, the active path | `report`, `setActivePath` | each names its file | in `Scanner` |
| Listings, dumps | - | formatting | - | not modelled |
| Gemini VM | stack, variables, arrays; handles and files of its host | one per opcode | - | external: `GeminiVM`, `MachineProofs`, the host in `FileSlots` |

The components call one another in a fixed order and share nothing but the tree, the symbol table
and the diagnostics. `PROJECT.json` lists every hazard at the line where it bites and the property
that would notice.

## Modules

An operator whose comment begins with "Mutant of" is a plausible bug in the definition that follows
it: nothing uses it, and putting it in the place of that definition makes one of the checked
properties fail (`PROJECT.json` says which). It shows that the property is about the code.

**`Ir`, `EmitOps`** are the emission functions of `Emit.cpp`, one operator each, on a record with
the fields of `EmitCtx` (`top` is `stackTop`, `spilled`, `failed`) and the opcodes written so far
(`code`). `Put` is a call of the writer; it alone also maintains what a verifier of the written
opcodes knows: the height of the operand stack (`depth`), the temporaries stored so far (`stored`)
and whether some opcode popped an empty stack or loaded a temporary nothing had stored (`faulty`).
No emission function reads those three. An opcode carries the IR value of a temporary and not its
mangled name, which `Tbc` adds. A string is a number for its text; comments and number formats are
left out; `PUSH_INT`'s operand is kept, because `emitVmIndex` has a case for the least integer
(`MinInt`).

**`Emit`** is `emitFunction` as a state machine: `phase` says what `emitBasicBlock` does next,
`next` is `Function::nextTemp`, and each action emits one instruction, label or terminator with
operands chosen freely among the values already defined. That is the IR's contract, and the
`compile` run checks that `Lower` keeps it (`OperandsDefinedFirst`).

**`Tbc`** is the rest of `Emit.cpp`: blocks, functions, the module and the name mangling.

**`Ast`** has the nodes of the syntax tree, as the parser leaves them and with the types analysis
adds. **`FrontEnd`** is what lowering reads off an analysed tree: notes of types become IR types,
lists of names single variables, bounds numbers. **`Lower`** is
`Lower.cpp` for them, one operator per function of the source, on a record with the fields of
`LowerCtx`. C++ mutation is threading: each operator takes a context and returns the next, with the
value of an expression in `val`. Errors of lowering set `failed` and lowering goes on, as in the
code.

**`GeminiVM`** executes opcodes, one action per opcode group. The VM is not in this repository; the
actions are what the emitter relies on. Variables and arrays are global, a call keeps only the
place to return to. Activations are numbered so that a variable remembers who wrote it.

**`Pascal`, `Numbers`** are the reference: what a program of the dialect prints for an input,
following `docs/pascal-dialect.md`, by structural recursion over the tree, with no knowledge of IR,
blocks or slots. A real number is a whole number of quarters, which keeps the halves of the checked
programs exact. **`Observable`** is the abstract specification: a program prints the items of its
meaning one after the other and then ends, normally or with an error.

**`Compiler`** is the back half of the driver, `Lower` and `Tbc` one after the other on a program.
**`Compile`** composes it with the VM: its initial states are `Compilations`, each a program's IR,
opcodes and meaning and an input; `Load` starts the VM; `Execute` is a step of it. It implements
`Observable` under the mapping `printed <- output`, `ended <- status`. Lowering and the reference
are recursive over trees and so come in through the constant alone, which leaves a module the
provers can work with. The programs are in **`SamplePrograms`**. `Compile` also reads opcodes as a
verifier would: `Known` is what can be said of the stack and of the temporaries in front of each
opcode without running it, computed in one pass over the opcodes, from label to label.

**`SymbolTable`** is the stack of scopes, as operators on its value and as a specification of its
own (`TableSpec`: any calls in any order). **`Environment`** is the abstract specification: every
open block has the meaning of every name, so nothing is searched for. **`Types`** has the types and
`isAssignable`; an alias keeps its target.

**`Walk`** and **`Analyse`** are `Analyse.cpp`. `Walk` is the walk over the tree: the C++ call stack
over declarations, blocks and statements is explicit in `work`, a list of tasks; each action is one
of them and changes the table, the heap of symbols (a symbol is filled in after it was declared, so
the table maps to addresses), the context and the diagnostics. `Analyse` has the rules: what the
recursion computes over one expression or denoter is a pair of functions of it, the type it leaves
on the tree and the set of faults. They are recursive over the tree, and `Walk` takes them as
operator constants that `Analyse.cfg` binds; so what is proved of the walk holds whatever the rules
say. Diagnostics are kept by place and not by wording. `crashed` is the state of a program that ran
out of its C++ stack.
**`Dialect`** is the reference, written from `docs/pascal-dialect.md` the way a language report
would be: the declaration a name refers to is found by position, operators have signatures, a phrase
is ill-formed when no type can be derived; there is no table, no order and no recovery.
**`MCAnalyse`** has the programs that try the rules one after the other, and puts them together with
the reference and with the sample programs of `Compile`, stripped of their types.

**`FileSlots`, `TextIO`, `TypedIO`** are the code that `Lower.cpp` generates for a file variable,
by what it does: the slots it keeps, and one step per call of the host or round of a loop, named
after the labels in the IR (`tread`, `ti.skip`, `ri32`, ...). `job` is the statement in progress,
`streams` and `disk` the host's side: handles with a direction and a position, and bytes. The host
is what the generated code relies on: `hostfs.read` gives up to `n` bytes and none at the end of the
file, an operation it refuses (no such file, no handle, wrong direction) ends the run, and so may
anything else at any moment (`Restart`): slots are zero again, the bytes are what was written.
`before` and `answer` are history: where a statement began and what it left in the program's
variables. **`Files`** puts the two kinds together. **`PascalFile`** is the abstract specification:
a sequence of elements, characters or components, and a place in it; every statement is one step.
**`FilesAreSequential`** is the refinement: the elements of a file are its bytes decoded
(`Contents`), a file whose bytes end inside a component is cut (`CutFiles`), the place is the host's
position without what was read ahead (`ElementsRead`), and a statement in progress has not happened
(`Place`). It asks of the values that they are what the VM's are (`ValuesAssumption`: an integer has
32 bits, the text of a real has no blanks and fits its field, although the code writes a longer one
as it is, `Lower.cpp:1364`) and that the mark of a missing file is no content (`MissingAssumption`).

**`Sequencing`** has the one operator that writes a step of C++ after another.

**`Scanner`** is `Scanner.cpp` at the level of characters. `stack`, `pos`, `active` and `activePath`
are `stack_`, `pos_`, `activeCanonicalPaths_` and the active path of the diagnostic engine; `files`
is the disk. One action skips a comment, a run of blanks, reads a token, refuses a directive, enters
an include or leaves one. A character-by-character loop of the code is one step, to the first place
it stops (`First`). How names resolve to files (`weakly_canonical`, the operating system) is a pair
of constants. **`SourceLines`** is `SourceFile`: the starts of lines, the line and column of an
offset, the text of a line. **`TokenPlaces`** puts the two together and states what they owe a
reader, against a reference that counts line breaks where they stand, and against the same text with
one line feed for every line end (`UnixText`, `UnixOffset`). **`MCScanner`** has a
reference that does not scan: the lexical classes as sets of strings, the longest recognised prefix
of a text, an include replaced by the meaning of its file.

**`Parser`** is `Parser.cpp` with the C++ call stack made explicit: `work` is what the active calls
have left to do, and an action is one parse function from its beginning, or from a place where a
call it made returns. Kinds of tokens that the parser treats alike are one (`"num"` is every
literal, `"+"` every adding operator). `nodes` is the tree in postfix, for expressions only. `Stay`
is not in the code: it weighs `work` by how many steps the parser may still take at the current
token, and is what progress is measured with.
**`Grammar`** is the reference: the dialect's syntax as context-free productions and, by a
recogniser over sets of positions, the first token of a stream that no program can have there
(`FirstUnviable`).

**`MCEmit`, `MCCompile`, `MCParser`, `MCFiles`** give the constants; `MCCompile` also has the
programs on which code and documentation disagree.

## What the runs check

**`emit`** (1,258,466 states). For every IR of up to three values, with calls of up to two
arguments, code begun below six opcodes and functions named `main` or not:

* `EmitNeverFails` - no codegen diagnostic for an operand that is nowhere to be found;
* `CodeIsSafe` - no underflow, no load of a temporary before a store of it, although `emitOr`,
  `str.concat` and `str.fromByte` load without looking;
* `StackDiscipline` - between instructions nothing is on the operand stack; a block leaves nothing
  but the result that `RETURN` hands over;
* `SpilledAreStored` - `spilled` is what the code stored, and contains every value;
* `LiteralsFit` - no integer that emission adds is out of `std::stoi`'s range, `MinInt..MaxInt`: low
  bounds are folded into literals only where it can read them. The program's own constants
  (`Literals`, of which one here is too large) are pushed as they are: no phase compares them with
  the range (`Analyse.cpp:1190`, `Lower.cpp:54`), and the property lets them pass.

Three values are enough for a binary operation whose operands are not the last value, and for a
call with arguments in either order; six opcodes for an entry label, a prologue, two instructions
and a second block. The proofs below lift the bounds.

**`compile`** (158,805 states). The programs are every pairing of a fragment with a context:
twenty-one fragments cover the statements and expressions (loops of each kind, nested `case` with
ranges, arrays with every sort of low bound, records, array arguments, characters as values, labels,
elements and results, strings as values and elements, reading, nested calls, functions called as
statements, `abs` and `round` of reals, which open blocks, in every operand position), eight
contexts put them at top level, under both branches of an `if`, in each loop, in a `case` arm and in
a procedure called twice. Inputs make `x` negative, zero and positive, and out of the bounds of an
array. So each hazard meets each control structure, which is what the unit tests of the repository,
one construct at a time, do not do.

* `OperandsDefinedFirst`, `NeverRejected` are about what the compiler wrote, and so is
* `CodeVerifies`: a verifier that does not run the code accepts it. Every jump and call has a label,
  laid out once; the stack has one height wherever ways meet; calls and returns agree; a temporary
  is stored on every way to a load of it, no other function stores it, and functions call only those
  laid out before them. The next two follow from it in every run of the code (proved below);
* `StackBalanced`, `TemporariesAreFresh` about the running program: the stack is what the label
  says, and no temporary is read that another activation or the path not taken stored;
* `OutputMatchesSource` and `ImplementsSource` compare with the reference: at every moment the
  output is a prefix of the meaning, and the program ends, as the source does. `ImplementsSource`
  includes the liveness of `Observable`; it needs weak fairness of `Next` alone, which a sequential
  program and machine have: they take a step while one is enabled.

**`wrong_output`, `named_consts`** each compile one program for which the code and the documentation
disagree; TLC finds the difference. The first shows two at once, in what is printed at the end of the
run (`WholeOutputMatches`): 2, 2, 6, 2 where the program means 2, 1, 6, 7.

* A function that assigns its result in two places returns the temporary of the *textually* last
  assignment (`Lower.cpp:1872`), on any path: `f := 1; if n > 1 then f := 2` returns for `n = 1`
  whatever the temporary of the other branch holds: the second item.
* A variable `t1` of `main` and the temporary 1 of `main` are one VM variable (`Emit.cpp:25-31`): the
  last item is the argument of a call and not the 7 that was assigned.
* A program constant used as a `case` label in a procedure is accepted by analysis and rejected by
  lowering, whose constants are those of the function at hand.

For these reasons the functions of the `compile` family assign their result once, no variable is
called `t` and a number, and constants are used in the main block. Parameters are by value: `var`
parameters are not written back, and the dialect page and milestone 05 disagree on whether they
should be. Limits of `for` loops that mention the control variable are left out too: the
documentation does not say when they are evaluated.

**`scanner`** (92,122 states). Two families. The first is one file: every text of up to three
characters over fifteen that begin, break or leave open each lexical form, and longer ones over
small alphabets for numbers (`1..1`, `1.1E-`) and for literals and line ends (`''''`, a line that
ends inside one, CR, LF and CR LF in any order and at the end of the text).
The second is four files, one of them in the working directory and in a subdirectory under the same
name, whose texts are fragments: directives that include another, include the root (a cycle), name a
missing file, nothing, or a file that cannot be resolved, unknown directives, comments and
directives left open at the end of a file. Includes may nest two deep instead of 32, so that the
limit is met, along with a cycle that would be found one step deeper.

* `ActiveAreOpen`, `DepthBounded`, `Attributed`: the stack, the paths that cycle detection looks at
  and the path of diagnostics agree after any sequence of pushes, pops and refusals;
* `ResumesAfterDirective`: a file that waits goes on behind its directive;
* `TokensAreSpliced`: at the end, the tokens and the diagnostics are those of the reference;
* `LocationsAreExact`: each offset has the line and column that counting line ends gives, each line
  the text between two ends;
* `LineEndsAgree`: LF, CR and CR LF give the same places to the same characters, which milestone 01
  asks for (`docs/milestones/01-source-and-scanner-infrastructure.md:111`);
* `TokensLieInTheirLines`: a token is found where its range says, and none runs over a line end;
* `Terminates`: it comes to the end, of cyclic and malformed inputs too.

**`parser`** (651,786 states). Six programs that between them have every declaration, statement and
expression form, with each token left out, replaced by or preceded by each of sixteen others;
records, whole and with an error or two that the field loop survives; and, in the place of an
expression, every sequence of up to four of its tokens, and expressions with two and three operators
of equal and of different levels. One edit reaches every branch of recovery.

* `FirstErrorIsExact`: the first error is reported at the first token that no program can have
  there, and none is reported for a program: no optional part or list accepts too much or too
  little, and recovery never starts on a correct prefix;
* `PrecedenceIsDocumented`: the tree of an accepted expression is that of the precedence table;
* `EveryStepIsNearer`: each step consumes a token or makes `Stay` less, but for those of one loop
  (`StuckInRecord`, see `unfinished_record`);
* `Terminates`: no loop goes round without consuming a token.

The first and the last need weak fairness of `Next`, as above.

**`unfinished_record`, `field_index`** are what the parser run leaves out.

* The loop over the fields of a record (`Parser.cpp:340`) ends at `end` or at the end of the file
  only. If `end` was forgotten it meets `var` or `begin`, where recovery stops too, and reports
  errors for ever. That is why `parser` does not edit the text of a record at every token.
* `x.a[1]` is a syntax error in an expression, although the dialect page lists it: indexes are read
  before fields and not after (`Parser.cpp:200-226`).

**`analyse`** (61,270 states). The sample programs, and some 600 probes: each operator, standard
function, statement and kind of declaration on operands of every type, right and wrong, in the main
block and in a procedure, with names hidden, used before their declaration, declared twice, of the
wrong kind; a `for` in a procedure with every kind of name as its control variable; arrays of arrays.

* `VerdictIsExact`: the declarations and statements with a diagnostic are exactly those `Dialect`
  calls ill-formed: none is missed, none invented, none blamed for what another has done. The probes
  leave out the five statements of `unreported` and others of the same kinds (an array argument with
  other inner bounds, a control variable of the program that has no type);
* `TreeIsTyped`: what `FrontEnd` makes of the notes on the tree is the program `compile` starts
  from, so the runs fit together: what is lowered there is what analysis leaves;
* `ScopesFollowTheTree`: the scopes open are those of the blocks around the place the walk has
  reached, statements are checked in the context of their block, and in the end both are as they
  were, whatever is declared, refused or nested;
* `ImplementsEnvironment`: at every step the table means what block structure says. The run follows
  a few names that the programs declare (`Names`), the proof below any.

`VmIntMax` (127) stands for 2^31-1, `HostMax` (1000) for what `std::stoll` reads and `RealMax`
(2000) for what `std::stod` reads: literals below, at and above each limit are in the probes, and
nothing else depends on the values. The verdicts of the model on the probes were compared with those
of the compiler itself (`apolloc --check`), program by program: they are the same.

**`unreported`** is one program of statements that `Dialect`, which follows the documentation, calls
ill-formed and the analyser accepts, in the code, in the model and with `apolloc --check`. TLC stops
at the end of the walk, with no diagnostic:

* a `for` in a procedure that counts in an integer of the program. The dialect page asks for a
  "local/param" and milestone 07 for a diagnostic at analysis; `checkFor` (`Analyse.cpp:1460`) looks
  the name up in all scopes and does not ask which one it was found in. Lowering rejects the program;
* `grid := wide`, where the rows have other bounds, and `grid[0] := a5`, a row of other bounds:
  bounds are compared for the outermost arrays of a whole assignment only (`Analyse.cpp:84`, `:115`);
* `a := (d)` and `a := grid[0]`: an array field asks for a variable on the right (`Analyse.cpp:1399`),
  an array variable does not, and lowering makes a load and a store of the array's name of it.

**`const_cycle`** is the other thing `analyse` leaves out: a constant that mentions itself (`const k = k`) and is used
as an array bound or a case label is folded for ever (`Analyse.cpp`, `evalConst`), and the compiler
dies of its stack; the milestone says that analysis hands the tree on to the next phase.

**`files`** (304,716 states). A text variable on every file of up to three bytes, and a typed one on
components of an integer, a character, another integer and a real, on files that are missing, hold a
whole component or are cut off inside one; any sequence of statements; runs cut off anywhere. Bytes
have two bits (`Radix` 4; one ends a line, one is blank), so an integer is 8 bits in four bytes and
its least and greatest values, where the codec wraps, are written. Two handles let a leaked one be
noticed, two names let a file be changed while open on another. The real is last, so that a file can
end inside it. `MaxLength` bounds what all files hold: 22 bytes are two components.

* `HandlesAreOwned`: the host has open exactly the handle in `$h`, also after `reset` of an open
  file and after `close` twice;
* `BufferAgrees`: `$peek`, `$eof` and `$eoln` are right about the file and the place in it;
* `MultiplierDefined`: `lowerReadI32LE` computes the weight of the next byte only on the path that
  had a byte, and no byte is ever added with one that was not computed;
* `ImplementsSequentialFile`: what is read is what is there (words, numbers, the rest of a line,
  components as they were written), `eof` and `eoln` are right for the place reached;
* `StatementsEnd`: every statement on a file ends, under weak fairness of the step of the statement
  in progress: generated code is sequential, and a refused operation ends the run.

`PascalFile` follows the code in three places where Standard Pascal differs. `eof` of a typed file
is set by a read that found nothing and not before. A run that ends inside a component leaves part
of one (`WritePart`, `cut`); a read of it sets `eof` if an integer or a character had no byte at all
or not all of them, but a part of a real is delivered as if it were one (`Lower.cpp:1369`), so that
a program need not be told. What a read after a `close` delivers is undefined, since a `close`
leaves `$peek` and `$eof` alone; the next `reset` clears them.

Deadlock is not checked (`CHECK_DEADLOCK FALSE`): a function is emitted, a text is scanned, a stream
is parsed, a tree is analysed, and a program ends; a file variable is used as often as one likes.

## What is proved

`EmitProofs` proves, for every set of slots, callees and function names, every set of constants of
the program, every bound and every `MinInt < 0 < MaxInt`, with no assumption but those of `EmitOps`
and `Emit` (low bounds and sizes of arrays are in the VM's range, which analysis checks at
`Analyse.cpp:278`; sizes are positive, bounds are naturals):

| Theorem | States |
|---|---|
| `InductiveInvariant` | `Spec => []IInv` |
| `TypeCorrect` | `Spec => []TypeOK` |
| `NeverFails` | `Spec => []EmitNeverFails` |
| `SafeCode` | `Spec => []CodeIsSafe` |
| `Disciplined` | `Spec => []StackDiscipline` |
| `Retrievable` | `Spec => []SpilledAreStored` |
| `Representable` | `Spec => []LiteralsFit` |

None of the properties is inductive alone: that an operand is found depends on its having been
spilled, which depends on what the last instruction believed about the top of the stack. `IInv`
states all of it at once: in the body of a block the context is `Clean(c, next)`, that is, nothing
failed, the values `0..next-1` are both believed stored and stored, the stack is empty and believed
empty, and every literal is one of the program's or fits; at a boundary the same but for a result. Inside an instruction the
stack is not empty, so the proof has a second notion, `Stage(x, n, d, t)`: the same facts with `d`
cells on the stack and the value `t` believed on top. One lemma per writer call or helper moves from
one stage to the next (`PutStage`, `LoadStage`, the spill and reload lemmas), one lemma per emission
function composes them into `Clean(c, n)` to `Clean(c', n)` or `Clean(c', n + 1)`, and one lemma per
group of actions carries `IInv` over it. TLC checked the same properties first, in `emit`.

`MachineProofs` proves, for every program of opcodes, whatever it was compiled from, and every
input, from `InputsAreCells` (an input is a list of values):

| Theorem | States |
|---|---|
| `MachineTypes` | `Spec /\ CodeVerifies => []TypeOK` |
| `StackIsBalanced` | `Spec /\ CodeVerifies => []StackBalanced` |
| `TemporariesFresh` | `Spec /\ CodeVerifies => []TemporariesAreFresh` |

`CodeVerifies` is about the initial state alone: the opcodes as they were written. The `compile` run
checks it of every program of its family, and it may be checked of any other without running it; the
theorems add every input and every way through the code. `BalanceInv` says that the verifier's
reading of the code is true of the machine: the stack is as high above the base of the current
activation as `Known` says of the place reached, and the same holds of every activation that waits,
at the place behind its call (`CalledFrom`); so a return finds what its caller goes on with.
`Values` is in it because arithmetic must leave the machine with values, and `Frame.base` must be a
number for heights to be compared. `BalanceInv` holds of recursive code too. `FreshInv` adds, for
each activation, that the temporaries known to be stored at its place carry its number (`Kept`). A
store by another activation of the same function would end that, so it is here that recursion has to
be excluded: along the stack of activations the ranks of functions descend (`Descending`,
`SlotsAreApart`). The proofs never look at how `Known` is computed, only at the verifier's
conditions and that the reading of the same code is the same. Two of the lemmas are about the
machine's arithmetic: division of a value by one that is not zero, and roots, give a value.

`ScannerProofs` proves, for every set of paths, every file system, every way in which names
resolve and every depth, from `ScannerAssumption` (the root exists, canonical paths are their own
canonical paths):

| Theorem | States |
|---|---|
| `StackInvariant` | `Spec => []IInv` |
| `ActivePathsAreOpen` | `Spec => []ActiveAreOpen` |
| `DepthIsBounded` | `Spec => []DepthBounded` |
| `DiagnosticsAreAttributed` | `Spec => []Attributed` |

That an erased path is not open in another frame needs each file to be open once, which holds
because a push checks the resolved path while a pop erases the canonical one, and the two are equal;
that diagnostics return to the right file needs the paths in the frames. `IInv` says all of it and
that frame 0 is the root's. It says nothing of positions: where a scan stops does not matter to the
stack.

The second half of `ScannerProofs` is about positions, again of every text:

| Theorem | States |
|---|---|
| `ReadingInvariant` | `Spec => []RInv` |
| `FilesResumeAfterDirective` | `Spec => []ResumesAfterDirective` |
| `ScannerTypes` | `Spec => []TypeOK` |

`RInv` says that the position is in the text or at its end, that every frame that waits stands
behind the brace that ends a directive of its file, and that each token covers characters of its
file with no line break among them, the malformed and unclosed ones included. What it needs of the
loops is one lemma about `First` (the place where a scan stops exists, is the first of its kind, and
lies at or behind the place it began) and one about the function that scans a quoted literal.

The last part of `ScannerProofs` is about lines, and proves, from nothing about the text:

| Theorem | States |
|---|---|
| `SourceLinesAreExact` | of every text, `LinesAreExact`: lines, columns and line texts are those that counting breaks gives |
| `LocationsExact` | `Spec => []LocationsAreExact` (of `TokenPlaces`) |
| `TokensInTheirLines` | `Spec => []TokensLieInTheirLines` |
| `LineEndsAreEquivalent` | of every text, `LineEndsDoNotMatter`: the text with LF for every CR and CR LF gives its characters the same lines, columns and line texts |
| `LineEndsAgreeAlways` | `Spec => []LineEndsAgree` |

The loop of `buildLineStarts` skips two characters at a CR LF, so what is proved of it goes from the
end of the text to its beginning: from any place that is not between the two, the loop collects in
increasing order exactly the places behind a break. `locationAt` takes the last start at or before
the offset; that the number of starts up to there is the number of breaks before it is a statement
about cardinalities of the set that was enumerated. `RInv` then has what a token needs: no break
inside. That line ends are equivalent is a comparison of two texts: `UnixOffset` moves each
character as many places to the front as there are pairs before it, it keeps the order and reaches
every place of the other text, and it takes each line end here to one there. So it is a bijection
between the breaks before an offset and those before its image, which have then the same number.

`ParserProofs` proves, for every stream of tokens, from `ParserAssumption`:

| Theorem | States |
|---|---|
| `ParserTypes` | `Spec => []TypeOK` |
| `StepsAreNearer` | `Spec => EveryStepIsNearer` |

`TypeOK` includes that the cursor never leaves the stream - the token `eof` is never consumed - and
that `work` is made of forms the parser has, so that no call is left without an action. `Stay` is
the measure of `EveryStepIsNearer`: how many steps the forms that wait may take at this token, up to
the first that is sure to consume it. One lemma says what replacing the first form by others does to
it, another that it grows with what follows, and each action is then a comparison of numbers. The
theorem leaves out one state, `StuckInRecord`, in which the code does go round in place.

`WalkProofs` proves of the symbol table, for every set of names and symbols, from
`NoSymbolIsNoSymbol`:

| Theorem | States |
|---|---|
| `TablesAreTyped` | `TableSpec => []TableTypeOK` |
| `TableIsBlockStructured` | `TableSpec => ImplementsEnvironment` |

`lookup` searches from the innermost scope outwards. The mapping gives every open scope the meaning
of every name, as found by that search from there; the lemmas say what a push, a pop and a
declaration do to the search from each scope (nothing below the top changes), and with them every
call is the abstract step or a stutter.

And it proves of the analyser, for every set of trees and every rule about types and faults, from
`ProgramsAreTrees` (the parts of a block are lists) and `OwnNames` (the names followed are not the
predefined ones, nor the program's):

| Theorem | States |
|---|---|
| `WalkInvariant` | `Spec => []WalkInv` |
| `AnalyserTypes` | `Spec => []TypeOK` |
| `ScopesFollow` | `Spec => []ScopesFollowTheTree` |
| `AnalysisIsBlockStructured` | `Spec /\ []Fits => ImplementsEnvironment` |

What makes the scopes follow the tree is an agreement between tasks, not a fact about the next one:
a pop that is due belongs to a task many places down the list. `WalkInv` gives each task a position
where it begins (`Before`: how many scopes are open, how many subprograms have begun) and one where
it ends (`After`), both read off its place in the tree, and says that each task ends where the next
one begins, that the table is as deep as the first one needs, and that the context is the one of
that many subprograms. A parameter begins between the two, in the scope of a subprogram that has not
begun. Each action replaces the first task by a list that begins and ends where it did, whether the
declaration at hand is accepted or refused. The rest of `WalkInv` is what the heap needs: addresses
in the table are symbols, and parameters go to a symbol that exists or to none.
`AnalysisIsBlockStructured` composes it with the theorems on the table: the table restricted to
`Names` (`Followed`) sees and owns what the whole one does, and each action is a call of the table's
or leaves the followed names alone. `Fits` says that `Symbols`, the addresses `Environment` knows
of, has room for those in use; with `Symbols` the positive numbers it always holds.

`FileProofs` proves, for every set of paths, handles, requests, texts, every component, every
content of the disk and every byte size, from `FileAssumption`, `TextAssumption` and
`TypedAssumption` (a handle is not zero, a byte has an even number of values, line end and blank are
different bytes, no name is the empty one, components have as many values as sorts):

| Theorem | States |
|---|---|
| `FilesInvariant` | `Spec => []FileInv` |
| `FileTypes` | `Spec => []TypeOK` |
| `HandlesAreNeverLost` | `Spec => []HandlesAreOwned` |
| `MultiplierIsDefined` | `Spec => []MultiplierDefined` |
| `BufferFollowsTheFile` | `Spec => []BufferAgrees` |
| `IntegersRoundTrip` | with bytes of eight bits, a 32-bit integer is read as it was written |

`HandlesAreOwned` needs the types of slots and streams, that an open file exists, and that a
statement in progress has something left and belongs to the kind of the file: `FileInv` is the
conjunction, and is inductive. `BufferAgrees` is inductive relative to it: each step either leaves
slots and position alone, fills the buffer from the position, or empties it. `MultiplierDefined` is
not inductive: that a multiplier is computed for the byte at hand depends on the byte before having
been there, and a file does not grow while it is read. `MultiplierInv` says that the multiplier is
the weight of the next byte unless the file is at its end. The round trip is arithmetic: four
quotients that round down, made of ones that cut towards zero, and sums that wrap. `FileTypes` adds
`WorkInv`: a sum so far is in the machine's range, no fifth byte is counted, nothing is read ahead
in a typed file.

`SequentialProofs` proves that the files are sequential, from the same assumptions and the two of
`FilesAreSequential`, whatever a component consists of and however many bytes a file has:

| Theorem | States |
|---|---|
| `StatementsFollowTheFile` | `Spec => []SequenceInv` |
| `FilesImplementSequentialFile` | `Spec => ImplementsSequentialFile` |

`SequenceInv` says how far a statement in progress has come from the place `before` at which it
began. For a text (`TextReadSoFar`): which variables are read, that their values are what
`PascalFile` reads there, that the token so far is the piece of the file between the start of the
current one and the place, and that nothing in it would have ended it. For a component
(`FieldsReadSoFar`): the place, and, if all of the component is there, the fields read, the sum of
the bytes of the current one modulo `Full` and an `eof` left alone; if nothing of it is there, that
`eof` is set from the first byte on. For a write (`WrittenSoFar`): the file is whole components, the
bytes of the fields already handed over and those of part of an integer, and which pieces are left.
Between statements an open typed file is at the beginning of a component or at its end
(`AtAComponent`, `WholeComponents`), without which the number of components read would not be the
position divided by their size. Each step of the code is then shown to be one abstract step, if it
is the last round of its statement, or to change nothing of the mapping. The lemmas on the way are:
that `Offset` and `Places`, which are recursive functions, exist and obey their equations; that a
number of four digits in any even radix, taken apart with divisions that cut towards zero and put
together with sums that wrap, is the number it was; that padding is undone; that bytes behind the
last whole component change none before.

`LoopLemmas` has what the proofs about loops share. Induction over positions is done without the
library's induction theorems: a set of naturals has a least element (`LeastExists`, from
well-foundedness), and there is no first place at which the claim fails; a function defined by
recursion towards the end of a range exists because one on the last positions can always be extended
by the position before (`RecursionExists`), and it then satisfies its equation.

Only model-checked:

* `CodeVerifies`, `OperandsDefinedFirst`, `NeverRejected`, `OutputMatchesSource` and
  `ImplementsSource`, that is, what `Lower` and `Tbc` make of a program and what the program means;
  `TokensAreSpliced`, `FirstErrorIsExact`, `PrecedenceIsDocumented`, `VerdictIsExact`,
  `TreeIsTyped`. The code or the reference they compare it with is written with RECURSIVE operators
  over trees, texts or productions, of which the provers can use neither the equation nor an
  induction. Recursive functions over positions can be reasoned about, as above, and are what the
  proved modules use;
* `Terminates` of scanner and parser, `StatementsEnd` and the liveness of `ImplementsSource`:
  fairness is out of the provers' reach. For the parser, `StepsAreNearer` is the part of termination
  that does not need it.

## Limits of the models

* Recursive subprograms are not in the family: variables are static and milestone 05 documents it
  (`docs/milestones/05-code-generator.md:120`).
* Integers of a compiled program do not wrap, and their constants are taken as written, whatever the
  VM makes of one beyond 32 bits; `MinInt` and `MaxInt` bound what emission adds to them. Integers of
  the file codec wrap. What the VM does is not in this repository: its division is taken to cut towards
  zero (the code corrects for that), its sums to wrap at 32 bits, its variables to be zero at first.
* `CALL` and `CALLVOID` are one opcode of the VM (`CALL label`); the model tells them apart and
  records the number of arguments for the verifier only. `BIND_ARRAY` stands for the five opcodes
  that fill an array argument; `Tbc` expands it.
* The byte table of `main` (`__apollo$chr`) and the calls of the host that take or give strings are
  left out of `Lower` and `GeminiVM`: strings are assigned, stored in arrays, read and printed. A
  `char` is read from the console with the opcode that reads a string (`Lower.cpp:1767`); what the
  VM does with a string where a code is expected is its affair, so no program of the family reads
  one. Files are modelled by what their code does and not as the IR it is made of; that the blocks
  are wired as the steps say is read from the source.
* `Scanner` and `Parser` are models of their own: the parser's streams are not the scanner's, and
  the trees of `Analyse` are not the parser's. `Analyse` and `Compile` are joined by `TreeIsTyped`.
* Diagnostics of the analyser are compared by the declaration or statement they belong to. Their
  wording, and their order within one, are left out.
* In `Scanner` ten letters, two digits and three keywords stand for all. Tokens and diagnostics keep
  offsets, and `SourceLines` says which line and column these are. In `Parser` only expressions
  leave nodes behind.

## Not modelled

`IrDump.cpp`, `AstDump.cpp`, `TokenDump.cpp` and the listings format what other parts computed and
decide nothing. `SourceFile::load` and the resolution of include names are calls of the operating
system: `Scanner` takes their results as constants. The command line of `apolloc.cpp` and the
writing of its output file are pure I/O; that a failed write goes unnoticed (`apolloc.cpp:150`) is
in the list of hazards. Array-valued record fields as whole values (`c := r.m`) are miscompiled
(`Lower.cpp:1930`) and are no part of the `compile` family; analysis accepts them, as the model of
it does.

## Plan

1. Done: code generator, lowering of scalars, arrays, records, calls and control flow, the VM, the
   reference and the comparison; the scanner with its includes; the parser with its recovery;
   semantic analysis with its symbol table; text and typed files; characters and strings; the lines
   of a source file; proofs about the code generator, the execution of verified code, the scanner,
   the lines of a source file, the parser's cursor and progress, the symbol table and the walk that
   uses it, whose refinement of block structure is proved, and the files, whose refinement is too.
2. Recursion as a run of its own, and array-valued record fields; the byte table of `main`.
3. Proofs: that the scanner loses no character between two tokens; that what `EmitOps` writes passes
   the verifier's conditions for the blocks `Emit` makes, which would carry `CodeVerifies` from the
   family of the `compile` run to all IR whose blocks are wired as `Lower` wires them.
