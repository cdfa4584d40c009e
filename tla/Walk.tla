---------------------------------- MODULE Walk ----------------------------------
(***************************************************************************)
(* The walk of semantic analysis over a syntax tree (walkBlock,            *)
(* walkSubprogram and analyse in src/pascal/semantic/Analyse.cpp): it      *)
(* declares names in the symbol table, opens and closes scopes, and asks   *)
(* of every phrase for its type and for what is wrong with it.  What the   *)
(* answers are is a matter of the rules (Analyse.tla) and a parameter here.*)
(*                                                                         *)
(* The walk is a stack of tasks, one for every operation on the table and  *)
(* one for every statement of a block.                                     *)
(*                                                                         *)
(* The table maps a name to the address of its symbol; the symbol itself   *)
(* is a cell of `heap`, because parts of it are set after its declaration: *)
(*   kind    Program, Const, Type, Var, Param, Procedure, Function, Builtin*)
(*   type    its type                                                      *)
(*   value   constExpr, the initialiser of a constant                      *)
(*   params  paramTypes and paramIsVar of a subprogram                     *)
(***************************************************************************)
EXTENDS SymbolTable, Ast

LOCAL INSTANCE Functions

CONSTANTS Programs,       \* the syntax trees analysed, each [name, block]
          ProgramBlocks   \* the blocks of programs and their subprograms

(* The rules.  `env` is what they read (Env).                               *)
CONSTANTS ErrorType, Predefined(_), Alias(_, _), TagOf(_),
          TypeOfDenoter(_, _), FaultsOfDenoter(_, _),
          TypeOfConstant(_), ConstantFaults(_),
          TypedStatement(_, _), StatementFaults(_, _)

VARIABLES program,     \* the tree being analysed
          heap,        \* the symbols, by address
          work,        \* the tasks left, the next one first
          context,     \* AnalyseCtx: current function, locals of the subprogram
          diagnostics, \* what was reported, with the place it belongs to
          notes,       \* the types left on the tree, by place
          crashed      \* the analyser has run out of stack

vars == <<scopes, program, heap, work, context, diagnostics, notes, crashed>>

(* What the parser builds is a tree: the parts of a block are lists, and a  *)
(* subprogram has a block of its own.                                       *)
IsList(items) == Len(items) \in Nat /\ DOMAIN items = 1..Len(items)
IsSubprogram(sub) ==
    /\ IsList(sub.params)
    /\ \A k \in DOMAIN sub.params : IsList(sub.params[k].names)
    /\ sub.block \in ProgramBlocks
IsBlock(block) ==
    /\ IsList(block.consts) /\ IsList(block.types) /\ IsList(block.vars)
    /\ IsList(block.subprograms) /\ IsList(block.statements)
    /\ \A k \in DOMAIN block.vars : IsList(block.vars[k].names)
    /\ \A k \in DOMAIN block.subprograms : IsSubprogram(block.subprograms[k])
ASSUME ProgramsAreTrees ==
    /\ \A p \in Programs : p.block \in ProgramBlocks
    /\ \A block \in ProgramBlocks : IsBlock(block)

Symbol(kind, type) == [kind |-> kind, type |-> type, value |-> NoExpr, params |-> <<>>]

(* The k-th item of a part of the block at `path`, a sequence of positions. *)
Place(path, part, k) == [path |-> path, part |-> part, k |-> k]
Task(step, phrase, at) == [step |-> step, phrase |-> phrase, at |-> at]

(* What the checks of one phrase read: the table, the symbols, the context. *)
Env == [table |-> scopes, heap |-> heap, function |-> context.function,
        inSubprogram |-> context.inSubprogram, locals |-> context.locals]

(* `message` is reported if it is wrong.                                    *)
When(wrong, message) == IF wrong THEN {message} ELSE {}

---------------------------------------------------------------------------
(* The parts of a block in the order walkBlock goes through them.           *)
PartTasks(step, items, path, part) ==
    [k \in DOMAIN items |-> Task(step, items[k], Place(path, part, k))]
BlockTasks(block, path) ==
    PartTasks("Const", block.consts, path, "consts")
    \o PartTasks("Type", block.types, path, "types")
    \o PartTasks("Var", block.vars, path, "vars")
    \o PartTasks("Subprogram", block.subprograms, path, "subprograms")
    \o PartTasks("Statement", block.statements, path, "statements")

SeedTypes ==
    [integer |-> "Integer", real |-> "Real", boolean |-> "Boolean",
     char |-> "Char", string |-> "String", text |-> "Text"]
SeedSymbol(name) ==
    CASE name \in DOMAIN SeedTypes -> Symbol("Type", Predefined(SeedTypes[name]))
      [] name \in {"true", "false"} -> Symbol("Const", Predefined("Boolean"))
      [] OTHER -> Symbol("Builtin", ErrorType)

(* seedPredefinedTypes, seedBooleanConsts and kBuiltins, in one scope.      *)
SeedNames ==
    <<"integer", "real", "boolean", "char", "string", "text", "true", "false",
      "write", "writeln", "read", "readln", "assign", "reset", "rewrite", "close",
      "eof", "eoln", "ord", "chr", "succ", "pred", "odd", "abs", "sqr", "trunc",
      "round", "sqrt", "sin", "cos", "arctan", "ln", "exp">>
SeedHeap == [k \in DOMAIN SeedNames |-> SeedSymbol(SeedNames[k])]
SeedScope == [name \in {SeedNames[k] : k \in DOMAIN SeedNames} |->
                 CHOOSE k \in DOMAIN SeedNames : SeedNames[k] = name]

(* The names that ImplementsEnvironment follows are the program's own: the   *)
(* others are in the outermost scope from the start.                         *)
ASSUME OwnNames ==
    /\ Names \cap DOMAIN SeedScope = {}
    /\ \A p \in Programs : p.name \notin Names

OutsideSubprogram == [function |-> "none", inSubprogram |-> FALSE, locals |-> {}]

Init ==
    /\ program \in Programs
    /\ scopes = Declare(<<SeedScope>>, program.name, Len(SeedHeap) + 1)
    /\ heap = Append(SeedHeap, Symbol("Program", ErrorType))
    /\ work = BlockTasks(program.block, <<>>)
    /\ context = OutsideSubprogram
    /\ diagnostics = {}
    /\ notes = <<>>
    /\ crashed = FALSE

At(step) == work # <<>> /\ ~crashed /\ Head(work).step = step
Continue(tasks) == work' = tasks \o Tail(work)
Phrase == Head(work).phrase
Here == Head(work).at

(* Evaluating a constant that is defined by itself never returns: the       *)
(* evaluators recurse until the stack of the process is used up.            *)
Report(at, faults) ==
    /\ diagnostics' = diagnostics \cup {[at |-> at, what |-> f] : f \in faults}
    /\ crashed' = ("endless" \in faults)
Note(at, note) == notes' = Append(notes, [at |-> at, note |-> note])

(* SymbolTable::declare: a new symbol, or a second one that is refused.     *)
DeclareSymbol(name, symbol, at, faults) ==
    /\ scopes' = Declare(scopes, name, Len(heap) + 1)
    /\ heap' = IF IsFree(scopes, name) THEN Append(heap, symbol) ELSE heap
    /\ Report(at, faults \cup When(~IsFree(scopes, name), "duplicate"))

(* A constant keeps its initialiser, even one that is not a literal.        *)
DeclareConst ==
    /\ At("Const")
    /\ Continue(<<>>)
    /\ DeclareSymbol(Phrase.name,
                     [Symbol("Const", TypeOfConstant(Phrase.value))
                         EXCEPT !.value = Phrase.value],
                     Here, ConstantFaults(Phrase.value))
    /\ UNCHANGED <<program, context, notes>>

DeclareType ==
    /\ At("Type")
    /\ Continue(<<>>)
    /\ DeclareSymbol(Phrase.name,
                     Symbol("Type", Alias(Phrase.name, TypeOfDenoter(Env, Phrase.type))),
                     Here, FaultsOfDenoter(Env, Phrase.type))
    /\ UNCHANGED <<program, context, notes>>

(* The names of a var declaration or a parameter group are declared one     *)
(* after another, with the type resolved once.                              *)
NameTasks(names, kind, type, at) ==
    [k \in DOMAIN names |->
        Task("Name", [name |-> names[k], kind |-> kind, type |-> type], at)]

ResolveVars ==
    /\ At("Var")
    /\ LET type == TypeOfDenoter(Env, Phrase.type)
       IN  /\ Continue(NameTasks(Phrase.names, "Var", type, Here))
           /\ Note(Here, type)
    /\ Report(Here, FaultsOfDenoter(Env, Phrase.type))
    /\ UNCHANGED <<program, scopes, heap, context>>

DeclareName ==
    /\ At("Name")
    /\ Continue(<<>>)
    /\ DeclareSymbol(Phrase.name, Symbol(Phrase.kind, Phrase.type), Here, {})
    /\ UNCHANGED <<program, context, notes>>

(* walkSubprogram, up to its own scope: the result type and the name.  The  *)
(* symbol is declared without parameters; subSym, if the declaration was    *)
(* accepted, is where they are added.                                       *)
DeclareSubprogram ==
    /\ At("Subprogram")
    /\ LET sub == Phrase
           type == IF sub.isFunction THEN TypeOfDenoter(Env, sub.returnType) ELSE ErrorType
           path == Append(Here.path, Here.k)
           subSym == IF IsFree(scopes, sub.name) THEN Len(heap) + 1 ELSE NoSymbol
           Group1(k) == [param |-> sub.params[k], subSym |-> subSym]
       IN  /\ DeclareSymbol(sub.name,
                  Symbol(IF sub.isFunction THEN "Function" ELSE "Procedure", type), Here,
                  IF ~sub.isFunction THEN {}
                  ELSE FaultsOfDenoter(Env, sub.returnType)
                       \cup When(TagOf(type) \in {"Array", "Record"}, "result type"))
           /\ Note(Here, type)
           /\ Continue(<<Task("Enter", sub, Here)>>
                       \o PartTasks("Param", [k \in DOMAIN sub.params |-> Group1(k)],
                                    path, "params")
                       \o <<Task("Body", sub, Place(path, "body", 1))>>)
    /\ UNCHANGED <<program, context>>

EnterSubprogram ==
    /\ At("Enter")
    /\ Continue(<<>>)
    /\ scopes' = PushScope(scopes)
    /\ UNCHANGED <<program, heap, context, diagnostics, notes, crashed>>

AddParams(cells, subSym, params) ==
    IF subSym = NoSymbol THEN cells
    ELSE [cells EXCEPT ![subSym].params = @ \o params]

ResolveParams ==
    /\ At("Param")
    /\ LET param == Phrase.param
           type == TypeOfDenoter(Env, param.type)
           tag == TagOf(type)
       IN  /\ heap' = AddParams(heap, Phrase.subSym,
                          [k \in DOMAIN param.names |->
                              [type |-> type, isVar |-> param.isVar]])
           /\ Continue(NameTasks(param.names, "Param", type, Here))
           /\ Note(Here, type)
           /\ Report(Here, FaultsOfDenoter(Env, param.type)
                           \cup When(param.isVar /\ tag = "Array", "var array")
                           \cup When(tag = "Record", "record parameter"))
    /\ UNCHANGED <<program, scopes, context>>

(* Everything the subprogram declares itself, whatever its kind of place.   *)
AllNames(decls) == UNION {Range(decls[k].names) : k \in DOMAIN decls}

(* The context of the body; walkSubprogram's own variables keep the old one.*)
EnterBody ==
    /\ At("Body")
    /\ LET sub == Phrase
       IN  /\ context' = [function |-> IF sub.isFunction THEN sub.name
                                       ELSE context.function,
                          inSubprogram |-> TRUE,
                          locals |-> AllNames(sub.params) \cup AllNames(sub.block.vars)]
           /\ Continue(BlockTasks(sub.block, Here.path) \o <<Task("Leave", context, Here)>>)
           /\ Report(Here, When(sub.block.subprograms # <<>>, "nested subprogram"))
    /\ UNCHANGED <<program, scopes, heap, notes>>

(* Mutant of LeaveSubprogram: the scope of the subprogram stays open.       *)
LeaveScopeOpen ==
    /\ At("Leave")
    /\ Continue(<<>>)
    /\ context' = Phrase
    /\ UNCHANGED <<program, scopes, heap, diagnostics, notes, crashed>>
LeaveSubprogram ==
    /\ At("Leave")
    /\ Continue(<<>>)
    /\ context' = Phrase
    /\ scopes' = PopScope(scopes)
    /\ UNCHANGED <<program, heap, diagnostics, notes, crashed>>

CheckStatement ==
    /\ At("Statement")
    /\ Continue(<<>>)
    /\ \E s \in {TypedStatement(Env, Phrase)} :
           /\ Note(Here, s)
           /\ Report(Here, StatementFaults(Env, s))
    /\ UNCHANGED <<program, scopes, heap, context>>

Next ==
    \/ DeclareConst \/ DeclareType \/ ResolveVars \/ DeclareName
    \/ DeclareSubprogram \/ EnterSubprogram \/ ResolveParams
    \/ EnterBody \/ LeaveSubprogram \/ CheckStatement

Spec == Init /\ [][Next]_vars

(* A sequential program runs as long as it has something to do.             *)
FairSpec == Spec /\ WF_vars(Next)

Done == work = <<>> /\ ~crashed

---------------------------------------------------------------------------
(* The table is never left without the scope of the program, every name in  *)
(* it leads to a symbol, and a symbol whose parameters are still to come    *)
(* exists (SymbolTable, subSym in walkSubprogram).                          *)
Kinds == {"Program", "Const", "Type", "Var", "Param", "Procedure", "Function", "Builtin"}
Steps == {"Const", "Type", "Var", "Name", "Subprogram", "Enter", "Param", "Body",
          "Leave", "Statement"}
TypeOK ==
    /\ scopes # <<>>
    /\ \A k \in DOMAIN scopes : \A name \in DOMAIN scopes[k] :
           scopes[k][name] \in DOMAIN heap
    /\ \A address \in DOMAIN heap : heap[address].kind \in Kinds
    /\ \A j \in DOMAIN work :
           /\ work[j].step \in Steps
           /\ work[j].step = "Param" =>
                  work[j].phrase.subSym \in DOMAIN heap \cup {NoSymbol}
    /\ crashed \in BOOLEAN

(* Wherever the walk is, the scopes open are those of the blocks around that *)
(* place and no others, a statement is checked in the context of its block,  *)
(* and at the end both are as they were in the beginning, however many       *)
(* subprograms there are, nested, refused or with parameters of no type      *)
(* (pushScope, popScope and the context walkSubprogram saves and restores).  *)
ScopesFollowTheTree ==
    /\ work # <<>> => Len(scopes) = Len(Here.path) + 1
    /\ work # <<>> /\ Head(work).step = "Statement" =>
           IF Here.path = <<>> THEN context = OutsideSubprogram
           ELSE context.inSubprogram
    /\ work = <<>> => Len(scopes) = 1 /\ context = OutsideSubprogram

(* Whatever the program, analysis comes to the end of it and hands the      *)
(* later phases a tree and its diagnostics (analyse).                       *)
AnalysisEnds == <>Done
================================================================================
