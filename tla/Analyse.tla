-------------------------------- MODULE Analyse --------------------------------
(***************************************************************************)
(* Semantic analysis (src/pascal/semantic/Analyse.cpp): the walk over the  *)
(* syntax tree, and the rules it applies to one phrase.  What the recursion*)
(* over a phrase computes is written as two functions of it: the types it  *)
(* leaves on the tree, and the set of things it diagnoses.                 *)
(***************************************************************************)
EXTENDS Walk, Types, Sequencing, TLC

LOCAL INSTANCE SequencesExt

CONSTANTS VmIntMax,  \* INT32_MAX, scaled down
          HostMax,   \* the greatest integer std::stoll reads, scaled down
          RealMax    \* the greatest real std::stod reads, in quarters

Undeclared == Symbol("None", MakeError)

Find(env, name) ==
    LET address == Lookup(env.table, name)
    IN  IF address = NoSymbol THEN Undeclared ELSE env.heap[address]
IsVariable(symbol) == symbol.kind \in {"Var", "Param"}

(* Compile-time constants (evalConstInt, evalCaseOrdinal, tryEvalConst...): *)
(* literals, a minus before an integer, and constants, whose initialiser is *)
(* evaluated in turn.  A constant met again is met for ever.                *)
Value(n) == [outcome |-> "value", n |-> n]
Without(outcome) == [outcome |-> outcome, n |-> 0]
RECURSIVE EvalOrdinal(_, _, _, _)
EvalOrdinal(env, e, expected, met) ==
    CASE e.kind = "Group" -> EvalOrdinal(env, e.left, expected, met)
      [] e.kind = "Unary" /\ expected = "Integer" ->
           IF e.unaryOp # "Minus" THEN Without("not constant")
           ELSE LET inner == EvalOrdinal(env, e.left, expected, met)
                IN  [inner EXCEPT !.n = -@]
      [] e.kind = "IntegerLiteral" /\ expected = "Integer" ->
           IF e.n > HostMax THEN Without("invalid literal") ELSE Value(e.n)
      [] e.kind = "CharLiteral" /\ expected = "Char" -> Value(e.n)
      [] e.kind = "Identifier" ->
           IF expected = "Boolean" /\ e.text \in {"true", "false"}
           THEN Value(IF e.text = "true" THEN 1 ELSE 0)
           ELSE LET found == Find(env, e.text)
                IN  IF found.kind # "Const" \/ found.value = NoExpr
                    THEN Without("not constant")
                    ELSE IF e.text \in met THEN Without("endless")
                    ELSE EvalOrdinal(env, found.value, expected, met \cup {e.text})
      [] OTHER -> Without("not constant")
Ordinal(env, e, expected) == EvalOrdinal(env, e, expected, {})
IsValue(constant) == constant.outcome = "value"
OrdinalFaults(constant) == When(~IsValue(constant), constant.outcome)

---------------------------------------------------------------------------
(* Type denoters: the type one resolves to, and what is wrong with it.      *)

(* Mutant of FitsVm: the number of elements is not looked at.               *)
FitsVmEnds(low, high) == low >= -VmIntMax - 1 /\ high <= VmIntMax
(* Gemini keeps indices and array sizes in a 32-bit integer.                *)
FitsVm(low, high) ==
    /\ low >= -VmIntMax - 1
    /\ high <= VmIntMax
    /\ high - low + 1 <= VmIntMax

BoundFaults(env, denoter) ==
    LET low == Ordinal(env, denoter.indexLow, "Integer")
        high == Ordinal(env, denoter.indexHigh, "Integer")
    IN  IF IsValue(low) /\ IsValue(high)
        THEN IF low.n > high.n THEN {"bounds reversed"}
             ELSE When(~FitsVm(low.n, high.n), "bounds exceed the VM")
        ELSE OrdinalFaults(low) \cup OrdinalFaults(high)

(* The fields of a record, the first of a name, none of them a record.      *)
RECURSIVE Resolve(_, _)
ResolveField(env, denoter) ==
    LET type == Resolve(env, denoter)
    IN  IF CanonicalTag(type) = "Record" THEN MakeError ELSE type
AllFields(env, decls) ==
    FlattenSeq([k \in DOMAIN decls |->
        [j \in DOMAIN decls[k].names |->
            [name |-> decls[k].names[j],
             type |-> ResolveField(env, decls[k].type)]]])
IsRepeated(fields, k) == \E j \in 1..k - 1 : fields[j].name = fields[k].name
Distinct(fields) ==
    FlattenSeq([k \in DOMAIN fields |->
                   IF IsRepeated(fields, k) THEN <<>> ELSE <<fields[k]>>])

Resolve(env, denoter) ==
    CASE denoter.kind = "Record" -> MakeRecord(Distinct(AllFields(env, denoter.fields)))
      [] denoter.kind = "Array" ->
           IF BoundFaults(env, denoter) # {} THEN MakeError
           ELSE MakeArray(Resolve(env, denoter.element),
                          Ordinal(env, denoter.indexLow, "Integer").n,
                          Ordinal(env, denoter.indexHigh, "Integer").n)
      [] denoter.kind = "File" ->
           IF denoter.element = NoDenoter THEN MakeError
           ELSE LET element == Resolve(env, denoter.element)
                IN  IF IsComponent(element) THEN MakeFile(element) ELSE MakeError
      [] denoter.kind = "Named" ->
           LET found == Find(env, denoter.name)
           IN  IF found.kind = "Type" THEN found.type ELSE MakeError

RECURSIVE DenoterFaults(_, _)
RecordFaults(env, decls) ==
    LET fields == AllFields(env, decls)
    IN  UNION {DenoterFaults(env, decls[k].type) : k \in DOMAIN decls}
        \cup When(\E k \in DOMAIN decls :
                      CanonicalTag(Resolve(env, decls[k].type)) = "Record",
                  "nested record")
        \cup When(\E k \in DOMAIN fields : IsRepeated(fields, k), "duplicate field")
DenoterFaults(env, denoter) ==
    CASE denoter.kind = "Record" -> RecordFaults(env, denoter.fields)
      [] denoter.kind = "Array" ->
           LET wrong == BoundFaults(env, denoter)
           IN  IF wrong # {} THEN wrong ELSE DenoterFaults(env, denoter.element)
      [] denoter.kind = "File" ->
           IF denoter.element = NoDenoter THEN {"file of nothing"}
           ELSE LET element == Resolve(env, denoter.element)
                IN  DenoterFaults(env, denoter.element)
                    \cup When(~IsError(element) /\ ~IsComponent(element),
                              "unsupported component")
      [] denoter.kind = "Named" ->
           When(Find(env, denoter.name).kind # "Type", "unknown type")

---------------------------------------------------------------------------
(* The type of an expression whose operands have theirs.                    *)

LiteralTag ==
    [IntegerLiteral |-> "Integer", RealLiteral |-> "Real",
     CharLiteral |-> "Char", StringLiteral |-> "String"]

(* Error operands make an error, which is not diagnosed again.              *)
TypeBinary(op, l, r) ==
    MakePredefined(IF IsError(l) \/ IsError(r) THEN "Error"
                   ELSE BinaryTag(op, CanonicalTag(l), CanonicalTag(r)))
TypeUnary(op, operand) == MakePredefined(UnaryTag(op, CanonicalTag(operand)))

TypeOfName(env, name) ==
    LET found == Find(env, name)
    IN  IF found.kind \in {"Const", "Var", "Param", "Function"}
        THEN found.type ELSE MakeError

StdFuncType(name, args) ==
    IF Len(args) = 1 /\ CanonicalTag(args[1].type) \in StdArgument(name)
    THEN StdResult(name, args[1].type) ELSE MakeError

CallType(env, name, args) ==
    LET found == Find(env, name)
    IN  CASE found.kind = "Function" -> found.type
          [] found.kind = "Builtin" /\ name \in {"eof", "eoln"} ->
               MakePredefined("Boolean")
          [] found.kind = "Builtin" /\ name \in StdFuncs -> StdFuncType(name, args)
          [] OTHER -> MakeError

SelectType(base, field) ==
    IF FieldsNamed(base, field) = {} THEN MakeError ELSE FieldType(base, field)
IndexedType(base) == IF CanonicalTag(base) = "Array" THEN ElementType(base) ELSE MakeError

(* typeExpr: the tree with a type on every node.                            *)
RECURSIVE TypeExpr(_, _)
TypeArgs(env, args) == [k \in DOMAIN args |-> TypeExpr(env, args[k])]
TypeExpr(env, e) ==
    CASE e.kind \in DOMAIN LiteralTag ->
           [e EXCEPT !.type = MakePredefined(LiteralTag[e.kind])]
      [] e.kind = "Identifier" -> [e EXCEPT !.type = TypeOfName(env, e.text)]
      [] e.kind = "Unary" ->
           Then(TypeExpr(env, e.left), LAMBDA l :
               [e EXCEPT !.left = l, !.type = TypeUnary(e.unaryOp, l.type)])
      [] e.kind = "Binary" ->
           Then(TypeExpr(env, e.left), LAMBDA l :
           Then(TypeExpr(env, e.right), LAMBDA r :
               [e EXCEPT !.left = l, !.right = r,
                         !.type = TypeBinary(e.binaryOp, l.type, r.type)]))
      [] e.kind = "Call" ->
           Then(TypeArgs(env, e.args), LAMBDA args :
               [e EXCEPT !.args = args, !.type = CallType(env, e.text, args)])
      [] e.kind = "Group" ->
           Then(TypeExpr(env, e.left), LAMBDA l :
               [e EXCEPT !.left = l, !.type = l.type])
      [] e.kind = "Select" ->
           Then(TypeExpr(env, e.left), LAMBDA l :
               [e EXCEPT !.left = l, !.type = SelectType(l.type, e.text)])
      [] e.kind = "Index" ->
           Then(TypeExpr(env, e.left), LAMBDA l :
           Then(TypeExpr(env, e.right), LAMBDA r :
               [e EXCEPT !.left = l, !.right = r, !.type = IndexedType(l.type)]))

---------------------------------------------------------------------------
(* What is wrong with a typed expression.                                   *)

(* Mutant of EnclosingFaults: parameters are looked up like globals.        *)
EnclosingVarFaults(env, name) ==
    When(env.inSubprogram /\ Find(env, name).kind = "Var" /\ name \notin env.locals,
         "enclosing local")
(* diagnoseEnclosingLocal: a subprogram reaches only variables of its own.  *)
EnclosingFaults(env, name) ==
    When(env.inSubprogram /\ IsVariable(Find(env, name)) /\ name \notin env.locals,
         "enclosing local")

NamesVariable(env, e) == e.kind = "Identifier" /\ IsVariable(Find(env, e.text))
IsFileVar(env, e) ==
    NamesVariable(env, e) /\ CanonicalTag(e.type) \in {"Text", "File"}
IsPath(e) == CanonicalTag(e.type) \in {"String", "Char"}

(* A user call: as many arguments as parameters, each of them fitting.      *)
ArgFaults(env, formal, arg) ==
    LET isArray == CanonicalTag(formal.type) = "Array"
        fits == IsAssignable(formal.type, arg.type)
    IN  IF formal.isVar
        THEN IF ~NamesVariable(env, arg) THEN {"not a variable"}
             ELSE IF isArray THEN {"var array"}
             ELSE When(~fits, "argument type")
        ELSE IF isArray
        THEN IF arg.kind # "Identifier" THEN {"not an array variable"}
             ELSE IF ~fits THEN {"argument type"}
             ELSE When(~ArrayTypesSameShape(formal.type, arg.type), "argument bounds")
        ELSE When(~fits, "argument type")
UserCallFaults(env, callee, args) ==
    IF Len(args) # Len(callee.params) THEN {"argument count"}
    ELSE UNION {ArgFaults(env, callee.params[k], args[k]) : k \in DOMAIN args}

(* write, writeln, read, readln: to the console, to a text file, or one     *)
(* component to a typed file.                                               *)
ReadFaults(env, file, arg) ==
    LET tag == CanonicalTag(arg.type)
        component == ElementType(file)
    IN  IF ~NamesVariable(env, arg) THEN {"not a variable"}
        ELSE IF tag = "Error" THEN {}
        ELSE CASE CanonicalTag(file) = "File" ->
                    When(/\ ~IsAssignable(arg.type, component)
                         /\ ~IsAssignable(component, arg.type), "component type")
               [] CanonicalTag(file) = "Text" ->
                    When(~IsReadable(tag) /\ tag # "String", "not readable")
               [] OTHER -> When(~IsReadable(tag), "not readable")
ConsoleFaults(env, name, args) ==
    LET toFile == args # <<>> /\ IsFileVar(env, args[1])
        file == IF toFile THEN args[1].type ELSE MakeError
        rest == IF toFile THEN Tail(args) ELSE args
        typed == CanonicalTag(file) = "File"
    IN  IF name \in {"write", "writeln"}
        THEN IF ~typed
             THEN When(\E k \in DOMAIN rest :
                           LET tag == CanonicalTag(rest[k].type)
                           IN  tag # "Error" /\ ~IsPrintable(tag), "not printable")
             ELSE IF rest = <<>> THEN {}
             ELSE IF Len(rest) # 1 THEN {"one component"}
             ELSE When(~IsAssignable(ElementType(file), rest[1].type), "component type")
                  \cup When(name = "writeln", "typed file")
        ELSE IF rest = <<>> THEN {"nothing to read"}
        ELSE IF typed /\ Len(rest) # 1 THEN {"one component"}
        ELSE When(typed /\ name = "readln", "typed file")
             \cup UNION {ReadFaults(env, file, rest[k]) : k \in DOMAIN rest}

FileStatements == {"assign", "reset", "rewrite", "close"}
FileIoFaults(env, name, args, asExpression) ==
    LET ofFile == args # <<>> /\ IsFileVar(env, args[1])
    IN  CASE name \in {"eof", "eoln"} ->
               IF ~asExpression THEN {"not a statement"}
               ELSE IF Len(args) # 1 \/ ~ofFile THEN {"file wanted"}
               ELSE When(name = "eoln" /\ CanonicalTag(args[1].type) # "Text",
                         "text wanted")
          [] name \in FileStatements /\ asExpression -> {"not a value"}
          [] name = "assign" /\ ~asExpression ->
               IF Len(args) # 2 THEN {"file and path wanted"}
               ELSE When(~ofFile, "file wanted") \cup When(~IsPath(args[2]), "path wanted")
          [] name = "close" /\ ~asExpression ->
               When(Len(args) # 1 \/ ~ofFile, "file wanted")
          [] OTHER ->
               IF ~ofFile THEN {"file wanted"}
               ELSE IF Len(args) = 1 THEN {}
               ELSE IF Len(args) # 2 THEN {"file and path wanted"}
               ELSE When(~IsPath(args[2]), "path wanted")

(* A constant argument is checked against the range of the result.          *)
MaxChar == 255
StdFuncFaults(env, name, args) ==
    IF Len(args) # 1 THEN {"one argument"}
    ELSE LET arg == args[1]
             tag == CanonicalTag(arg.type)
             Is(expected, out) ==
                 LET constant == Ordinal(env, arg, expected)
                 IN  IsValue(constant) /\ constant.n \in out
         IN  IF tag = "Error" THEN {}
             ELSE IF tag \notin StdArgument(name) THEN {"argument type"}
             ELSE When(\/ /\ name = "chr"
                          /\ Is("Integer", (-HostMax..HostMax) \ (0..MaxChar))
                       \/ tag = "Boolean" /\ name = "succ" /\ Is("Boolean", {1})
                       \/ tag = "Boolean" /\ name = "pred" /\ Is("Boolean", {0}),
                       "out of range")

CallFaults(env, name, args, asExpression) ==
    LET found == Find(env, name)
    IN  CASE found = Undeclared -> {"undeclared"}
          [] found.kind = "Builtin" ->
               IF name \in StdFuncs
               THEN IF asExpression THEN StdFuncFaults(env, name, args)
                    ELSE {"not a statement"}
               ELSE IF name \in {"eof", "eoln"} \cup FileStatements
               THEN FileIoFaults(env, name, args, asExpression)
               ELSE When(asExpression, "not a value") \cup ConsoleFaults(env, name, args)
          [] found.kind = "Procedure" ->
               When(asExpression, "not a value") \cup UserCallFaults(env, found, args)
          [] found.kind = "Function" -> UserCallFaults(env, found, args)
          [] OTHER -> {"not callable"}

NameFaults(env, name) ==
    LET found == Find(env, name)
    IN  CASE found = Undeclared -> {"undeclared"}
          [] found.kind = "Const" -> {}
          [] IsVariable(found) -> EnclosingFaults(env, name)
          [] found.kind = "Function" -> UserCallFaults(env, found, <<>>)
          [] OTHER -> {"not a value"}

IndexFaults(index) ==
    When(CanonicalTag(index.type) \notin {"Integer", "Error"}, "index type")

RECURSIVE ExprFaults(_, _)
ArgsFaults(env, args) == UNION {ExprFaults(env, args[k]) : k \in DOMAIN args}
ExprFaults(env, e) ==
    CASE e.kind = "RealLiteral" -> When(e.n > RealMax, "real out of range")
      [] e.kind \in {"IntegerLiteral", "CharLiteral", "StringLiteral"} -> {}
      [] e.kind = "Identifier" -> NameFaults(env, e.text)
      [] e.kind = "Unary" ->
           ExprFaults(env, e.left)
           \cup When(IsError(e.type) /\ ~IsError(e.left.type), "operand type")
      [] e.kind = "Binary" ->
           ExprFaults(env, e.left) \cup ExprFaults(env, e.right)
           \cup When(/\ IsError(e.type)
                     /\ ~IsError(e.left.type) /\ ~IsError(e.right.type),
                     "operand types")
      [] e.kind = "Call" ->
           ArgsFaults(env, e.args) \cup CallFaults(env, e.text, e.args, TRUE)
      [] e.kind = "Group" -> ExprFaults(env, e.left)
      [] e.kind = "Select" ->
           ExprFaults(env, e.left)
           \cup When(~IsError(e.left.type) /\ FieldsNamed(e.left.type, e.text) = {},
                     "no such field")
      [] e.kind = "Index" ->
           LET base == CanonicalTag(e.left.type)
           IN  ExprFaults(env, e.left) \cup ExprFaults(env, e.right)
               \cup IF base \notin {"Array", "Error"} THEN {"not an array"}
                    ELSE IndexFaults(e.right)

---------------------------------------------------------------------------
(* Statements: first the types on the tree.                                 *)

TypeOptional(env, e) == IF e = NoExpr THEN e ELSE TypeExpr(env, e)

RECURSIVE TypeStmt(_, _)
TypeStmts(env, statements) ==
    [k \in DOMAIN statements |-> TypeStmt(env, statements[k])]
TypeLabel(env, label) == CaseLabel(TypeExpr(env, label.lo), TypeOptional(env, label.hi))
TypeArm(env, arm) ==
    CaseArm([k \in DOMAIN arm.labels |-> TypeLabel(env, arm.labels[k])],
            TypeStmt(env, arm.body))
TypeStmt(env, s) ==
    CASE s.kind = "None" -> s
      [] s.kind = "Compound" -> [s EXCEPT !.statements = TypeStmts(env, @)]
      [] s.kind = "Assign" ->
           [s EXCEPT !.value = TypeExpr(env, @), !.index = TypeOptional(env, @)]
      [] s.kind = "Call" -> [s EXCEPT !.args = TypeArgs(env, @)]
      [] s.kind = "If" ->
           [s EXCEPT !.condition = TypeExpr(env, @), !.thenBranch = TypeStmt(env, @),
                     !.elseBranch = TypeStmt(env, @)]
      [] s.kind = "While" ->
           [s EXCEPT !.condition = TypeExpr(env, @), !.thenBranch = TypeStmt(env, @)]
      [] s.kind = "Repeat" ->
           [s EXCEPT !.statements = TypeStmts(env, @), !.condition = TypeExpr(env, @)]
      [] s.kind = "For" ->
           [s EXCEPT !.value = TypeExpr(env, @), !.forLimit = TypeExpr(env, @),
                     !.thenBranch = TypeStmt(env, @)]
      [] s.kind = "Case" ->
           [s EXCEPT !.condition = TypeExpr(env, @),
                     !.caseArms = [k \in DOMAIN @ |-> TypeArm(env, @[k])],
                     !.elseBranch = TypeStmt(env, @)]

---------------------------------------------------------------------------
(* Then what is wrong with a typed statement.                               *)

(* Storing a value of type rhs: into an element, a whole array, or a scalar *)
(* or record.                                                               *)
StoreFaults(env, s, dest, ofField) ==
    LET rhs == s.value.type
        tag == CanonicalTag(dest)
        Mismatch(type) == When(~IsAssignable(type, rhs), "incompatible types")
    IN  IF s.index # NoExpr
        THEN ExprFaults(env, s.index) \cup IndexFaults(s.index)
             \cup (IF tag \notin {"Array", "Error"} THEN {"not an array"}
                   ELSE Mismatch(ElementType(dest)))
        ELSE IF tag # "Array" \/ Mismatch(dest) # {} THEN Mismatch(dest)
        ELSE IF ~ArrayTypesSameShape(dest, rhs) THEN {"array bounds"}
        ELSE When(ofField /\ s.value.kind \notin {"Identifier", "Select"},
                  "not an array variable")

AssignFaults(env, s) ==
    LET found == Find(env, s.name)
        base == found.type
        Target ==
            IF s.fieldName = "none" THEN StoreFaults(env, s, base, FALSE)
            ELSE IF IsError(base) THEN StoreFaults(env, s, MakeError, TRUE)
            ELSE IF FieldsNamed(base, s.fieldName) = {} THEN {"no such field"}
            ELSE StoreFaults(env, s, FieldType(base, s.fieldName), TRUE)
    IN  ExprFaults(env, s.value) \cup
        CASE found = Undeclared -> {"undeclared"}
          [] IsVariable(found) -> EnclosingFaults(env, s.name) \cup Target
          [] found.kind = "Function" /\ s.name = env.function -> Target
          [] OTHER -> {"not assignable"}

ConditionFaults(env, e) ==
    ExprFaults(env, e)
    \cup When(CanonicalTag(e.type) \notin {"Boolean", "Error"}, "condition type")

(* Both bounds, then the control variable, then the body.                   *)
RECURSIVE StmtFaults(_, _)
StmtsFaults(env, statements) ==
    UNION {StmtFaults(env, statements[k]) : k \in DOMAIN statements}
IntegerWanted(type) == CanonicalTag(type) \notin {"Integer", "Error"}
ForFaults(env, s) ==
    LET control == Find(env, s.name)
    IN  ExprFaults(env, s.value) \cup ExprFaults(env, s.forLimit)
        \cup (CASE control = Undeclared -> {"undeclared"}
                [] control # Undeclared /\ ~IsVariable(control) -> {"not a variable"}
                [] OTHER -> When(IntegerWanted(control.type), "control type"))
        \cup When(IntegerWanted(s.value.type) \/ IntegerWanted(s.forLimit.type),
                  "bound type")
        \cup StmtFaults(env, s.thenBranch)

(* case: the selector, then label after label, each an interval of ordinals *)
(* that must not meet one before it.                                        *)
SelectorTag(s) ==
    IF IsOrdinal(CanonicalTag(s.condition.type)) THEN CanonicalTag(s.condition.type)
    ELSE "Error"
LabelEnd(label) == IF label.hi = NoExpr THEN label.lo ELSE label.hi
LabelFaults(env, label, selector) ==
    LET lo == Ordinal(env, label.lo, selector)
        hi == Ordinal(env, LabelEnd(label), selector)
        WrongType(e) == CanonicalTag(e.type) \notin {selector, "Error"}
    IN  ExprFaults(env, label.lo)
        \cup (IF label.hi = NoExpr THEN {} ELSE ExprFaults(env, label.hi))
        \cup IF selector = "Error" THEN {}
             ELSE When(selector = "Boolean" /\ label.hi # NoExpr, "boolean range")
                  \cup When(WrongType(label.lo) \/ WrongType(LabelEnd(label)),
                            "label type")
                  \cup (IF ~IsValue(lo) THEN OrdinalFaults(lo)
                        ELSE IF ~IsValue(hi) THEN OrdinalFaults(hi)
                        ELSE When(lo.n > hi.n, "range reversed"))
Interval(env, label, selector) ==
    LET lo == Ordinal(env, label.lo, selector)
        hi == Ordinal(env, LabelEnd(label), selector)
    IN  IF IsValue(lo) /\ IsValue(hi) THEN lo.n..hi.n ELSE {}
Overlap(env, labels, selector) ==
    \E k \in DOMAIN labels : \E j \in 1..k - 1 :
        Interval(env, labels[j], selector) \cap Interval(env, labels[k], selector) # {}
CaseFaults(env, s) ==
    LET selector == SelectorTag(s)
        arms == s.caseArms
        labels == FlattenSeq([k \in DOMAIN arms |-> arms[k].labels])
    IN  ExprFaults(env, s.condition)
        \cup When(selector = "Error" /\ ~IsError(s.condition.type), "selector type")
        \cup UNION {LabelFaults(env, labels[k], selector) : k \in DOMAIN labels}
        \cup When(selector # "Error" /\ Overlap(env, labels, selector),
                  "overlapping labels")
        \cup UNION {StmtFaults(env, arms[k].body) : k \in DOMAIN arms}
        \cup StmtFaults(env, s.elseBranch)

StmtFaults(env, s) ==
    CASE s.kind = "None" -> {}
      [] s.kind = "Compound" -> StmtsFaults(env, s.statements)
      [] s.kind = "Assign" -> AssignFaults(env, s)
      [] s.kind = "Call" ->
           ArgsFaults(env, s.args) \cup CallFaults(env, s.name, s.args, FALSE)
      [] s.kind = "If" ->
           ConditionFaults(env, s.condition) \cup StmtFaults(env, s.thenBranch)
           \cup StmtFaults(env, s.elseBranch)
      [] s.kind = "While" ->
           ConditionFaults(env, s.condition) \cup StmtFaults(env, s.thenBranch)
      [] s.kind = "Repeat" ->
           StmtsFaults(env, s.statements) \cup ConditionFaults(env, s.condition)
      [] s.kind = "For" -> ForFaults(env, s)
      [] s.kind = "Case" -> CaseFaults(env, s)

(* typeOfLiteralExpr                                                        *)
RECURSIVE TypeOfLiteral(_)
TypeOfLiteral(e) ==
    CASE e.kind \in DOMAIN LiteralTag -> MakePredefined(LiteralTag[e.kind])
      [] e.kind = "Group" -> TypeOfLiteral(e.left)
      [] OTHER -> MakeError
RECURSIVE LiteralFaults(_)
LiteralFaults(e) ==
    IF e.kind = "Group" THEN LiteralFaults(e.left)
    ELSE When(IsError(TypeOfLiteral(e)), "not a literal")
         \cup When(e.kind = "RealLiteral" /\ e.n > RealMax, "real out of range")
================================================================================
