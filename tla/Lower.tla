-------------------------------- MODULE Lower --------------------------------
(***************************************************************************)
(* Lowering of an analysed program to IR (src/pascal/ir/Lower.cpp): the    *)
(* control flow of statements, the order in which operands are evaluated,  *)
(* and where each value and each variable lives.  Files are left to their  *)
(* own modules.                                                            *)
(*                                                                         *)
(* A lowering context (LowerCtx) is a record with                          *)
(*   fn, params, locals   the IR function: its name and declarations, a    *)
(*                        record variable flattened into one local for     *)
(*                        each field                                       *)
(*   blocks, label, body  the sealed blocks and the open one               *)
(*   nextTemp             Function::nextTemp                               *)
(*   blockCounter         the counter behind labels and temporary locals   *)
(*   symbols, consts      the program's subprograms; the constants of the  *)
(*                        block being lowered                              *)
(*   records              the record variables of the block                *)
(*   resultName           the function whose body is lowered, or NoName    *)
(*   resultValue          the value last assigned to it                    *)
(*   val                  the value of the expression just lowered         *)
(*   failed               an error was reported; lowering goes on          *)
(* Then(c, LAMBDA d : ...) goes on with the context d that c has led to.    *)
(***************************************************************************)
EXTENDS Ir, Ast, Sequencing, TLC

LOCAL INSTANCE SequencesExt

(* Storage.                                                                 *)

FieldStorage(base, field) == base \o "$" \o field
ResolveSlot(c, name) == Named(c.params \o c.locals, name)
HasSlot(c, name) == Declares(c.params \o c.locals, name)

(* The array an index, a copy or an argument names: its slot's declaration. *)
ResolveArrayBase(c, base) ==
    ResolveSlot(c, IF base.kind = "Select"
                   THEN FieldStorage(base.left.text, base.text) ELSE base.text)

(* Appending to the open block.                                             *)

Effect(c, i) == [c EXCEPT !.body = Append(@, i)]
(* Mutant of Define: newTemp does not count.                                *)
SameTemp(c, i) ==
    [c EXCEPT !.body = Append(@, [i EXCEPT !.res = c.nextTemp]), !.val = c.nextTemp]
Define(c, i) ==
    [c EXCEPT !.body = Append(@, [i EXCEPT !.res = c.nextTemp]),
              !.nextTemp = @ + 1, !.val = c.nextTemp]

EmitConst(c, op, n) == Define(c, [NoInstr EXCEPT !.op = op, !.n = n])
EmitConstI32(c, n) == EmitConst(c, "ConstI32", n)
EmitConstF64(c, q) == EmitConst(c, "ConstF64", q)
EmitConstBool(c, b) == EmitConst(c, "ConstBool", IF b THEN 1 ELSE 0)
EmitConstChar(c, code) == EmitConst(c, "ConstChar", code)
EmitConstString(c, text) == EmitConst(c, "ConstString", text)
Error(c) == [c EXCEPT !.failed = TRUE]
Report(c) == EmitConstI32(Error(c), 0)
EmitZeroValue(c, type) ==
    CASE type = "F64" -> EmitConstF64(c, 0)
      [] type = "Bool" -> EmitConstBool(c, FALSE)
      [] type = "Char" -> EmitConstChar(c, 0)
      [] type = "StringRef" -> EmitConstString(c, 0)
      [] OTHER -> EmitConstI32(c, 0)
EmitLoad(c, slot) == Define(c, [NoInstr EXCEPT !.op = "LoadLocal", !.arg = slot])
EmitStore(c, slot, v) ==
    Effect(c, [NoInstr EXCEPT !.op = "StoreLocal", !.arg = slot, !.b = v])
EmitUnaryOp(c, op, v) == Define(c, [NoInstr EXCEPT !.op = op, !.a = v])
EmitBinaryOp(c, op, l, r) ==
    Define(c, [NoInstr EXCEPT !.op = op, !.a = l, !.b = r])
EmitLoadIndex(c, d, index) ==
    Define(c, [NoInstr EXCEPT !.op = "LoadIndex", !.arg = d.name, !.b = index,
                              !.n = d.low])
EmitStoreIndex(c, d, index, v) ==
    Effect(c, [NoInstr EXCEPT !.op = "StoreIndex", !.arg = d.name, !.b = v,
                              !.args = <<index>>, !.n = d.low])
EmitDimArray(c, d) ==
    Effect(c, [NoInstr EXCEPT !.op = "DimArray", !.arg = d.name,
                              !.type = d.element,
                              !.n = d.high - d.low + 1])
EmitArrayCopy(c, dst, src) ==
    Effect(c, [NoInstr EXCEPT !.op = "ArrayCopy", !.arg = dst, !.src = src])
CallRuntime(name, args) ==
    [NoInstr EXCEPT !.op = "CallRuntime", !.arg = name, !.args = args]

(* Blocks.  The k-th of the next labels takes the k-th value of the counter.*)

Label(c, prefix, k) == prefix \o ToString(c.blockCounter + k)
NewLabels(c, count) == [c EXCEPT !.blockCounter = @ + count]
BranchTo(target) == Terminator("Branch", NoValue, target, NoName)
BranchIfTo(v, target, falseTarget) ==
    Terminator("BranchIf", v, target, falseTarget)
SealBlock(c, term) ==
    [c EXCEPT !.blocks = Append(@, [label |-> c.label, body |-> c.body,
                                    term |-> term]),
              !.label = NoName, !.body = <<>>]
BeginBlock(c, label) == [c EXCEPT !.label = label]

(* Seal the open block with a jump to `target` and open the block `next`.   *)
JumpThen(c, target, next) == BeginBlock(SealBlock(c, BranchTo(target)), next)

DeclareTempLocal(c, prefix, type) ==
    [NewLabels(c, 1) EXCEPT !.locals = Append(@, Scalar(Label(c, prefix, 0), type))]

---------------------------------------------------------------------------
(* Expressions.                                                             *)

ToBinaryOp ==
    [Plus |-> "Add", Minus |-> "Sub", Star |-> "Mul", Slash |-> "Div",
     Div |-> "Div", Mod |-> "Mod", And |-> "And", Or |-> "Or",
     Equal |-> "CmpEq", NotEqual |-> "CmpNe", Less |-> "CmpLt",
     LessEqual |-> "CmpLe", Greater |-> "CmpGt", GreaterEqual |-> "CmpGe"]

RECURSIVE LowerExpr(_, _), LowerExprAsReal(_, _), LowerCallArgs(_, _, _, _, _)

LowerExprFor(c, e, target) ==
    IF target = "F64" THEN LowerExprAsReal(c, e) ELSE LowerExpr(c, e)

(* Half away from zero, and the absolute value of a real: the result of two *)
(* branches, met in a local of its own.                                     *)
RoundArm(c, v, half, dest) ==
    Then(EmitConstF64(c, half), LAMBDA h :
    Then(EmitBinaryOp(h, "Add", v, h.val), LAMBDA s :
    Then(EmitUnaryOp(s, "ConvertI32", s.val), LAMBDA t :
        EmitStore(t, dest, t.val))))

LowerRound(c0, v) ==
    Then(EmitConstF64(DeclareTempLocal(c0, "$round.", "I32"), 0), LAMBDA z :
    Then(EmitBinaryOp(z, "CmpGe", v, z.val), LAMBDA c :
        LET dest == Label(c0, "$round.", 0)
            pos == Label(c, "round.pos.", 0)
            neg == Label(c, "round.neg.", 1)
            merge == Label(c, "round.merge.", 2)
        IN  Then(BeginBlock(SealBlock(NewLabels(c, 3),
                                      BranchIfTo(c.val, pos, neg)), pos), LAMBDA p :
            Then(JumpThen(RoundArm(p, v, 2, dest), merge, neg), LAMBDA n :
                EmitLoad(JumpThen(RoundArm(n, v, -2, dest), merge, merge), dest)))))

(* Mutant of LowerAbsReal: the value of one branch is taken for that of     *)
(* both.                                                                    *)
UnmergedAbsReal(c0, v) ==
    Then(EmitConstF64(DeclareTempLocal(c0, "$abs.", "F64"), 0), LAMBDA z :
    Then(EmitBinaryOp(z, "CmpLt", v, z.val), LAMBDA c :
        LET neg == Label(c, "abs.neg.", 0)
            merge == Label(c, "abs.merge.", 2)
        IN  Then(EmitUnaryOp(BeginBlock(SealBlock(NewLabels(c, 3),
                                            BranchIfTo(c.val, neg, merge)), neg),
                             "Neg", v), LAMBDA n :
                JumpThen(n, merge, merge))))

LowerAbsReal(c0, v) ==
    Then(EmitConstF64(DeclareTempLocal(c0, "$abs.", "F64"), 0), LAMBDA z :
    Then(EmitBinaryOp(z, "CmpLt", v, z.val), LAMBDA c :
        LET dest == Label(c0, "$abs.", 0)
            neg == Label(c, "abs.neg.", 0)
            pos == Label(c, "abs.pos.", 1)
            merge == Label(c, "abs.merge.", 2)
        IN  Then(EmitUnaryOp(BeginBlock(SealBlock(NewLabels(c, 3),
                                            BranchIfTo(c.val, neg, pos)), neg),
                             "Neg", v), LAMBDA n :
            Then(JumpThen(EmitStore(n, dest, n.val), merge, pos), LAMBDA p :
                EmitLoad(JumpThen(EmitStore(p, dest, v), merge, merge), dest)))))

MathFuncs == {"sqrt", "sin", "cos", "arctan", "ln", "exp"}
StdFuncNames == MathFuncs \cup {"ord", "chr", "succ", "pred", "odd", "abs",
                                "sqr", "trunc", "round"}

WithConst(c, n, op, v) ==
    Then(EmitConstI32(c, n), LAMBDA k : EmitBinaryOp(k, op, v, k.val))

LowerStdFuncCall(c, e) ==
    Then(LowerExpr(c, e.args[1]), LAMBDA a :
        CASE e.text \in {"ord", "chr"} -> EmitUnaryOp(a, "Copy", a.val)
          [] e.text = "succ" -> WithConst(a, 1, "Add", a.val)
          [] e.text = "pred" -> WithConst(a, 1, "Sub", a.val)
          [] e.text = "odd" ->
               Then(WithConst(a, 2, "Mod", a.val), LAMBDA r :
                   WithConst(r, 0, "CmpNe", r.val))
          [] e.text = "sqr" -> EmitBinaryOp(a, "Mul", a.val, a.val)
          [] e.text = "abs" -> IF e.type = "F64" THEN LowerAbsReal(a, a.val)
                               ELSE EmitUnaryOp(a, "Abs", a.val)
          [] e.text = "trunc" -> EmitUnaryOp(a, "ConvertI32", a.val)
          [] e.text = "round" -> LowerRound(a, a.val)
          [] e.text \in MathFuncs ->
               Then(IF e.args[1].type = "I32"
                    THEN EmitUnaryOp(a, "ConvertF64", a.val) ELSE a, LAMBDA r :
                   Define(r, CallRuntime(e.text, <<r.val>>))))

(* Mutant of LowerUserCall: a procedure is called for a value.              *)
ValuedUserCall(c, name, args) ==
    LET callee == Named(c.symbols, name)
    IN  Then(LowerCallArgs(c, callee, args, <<>>, <<>>), LAMBDA a :
            Define(a.c, [NoInstr EXCEPT !.op = "Call", !.arg = name,
                                        !.args = a.values, !.mats = a.mats]))

(* A user call.  Its scalar arguments are lowered left to right; an array   *)
(* argument becomes a copy into the callee's formal, made at the call.      *)
LowerUserCall(c, name, args) ==
    LET callee == Named(c.symbols, name)
    IN  Then(LowerCallArgs(c, callee, args, <<>>, <<>>), LAMBDA a :
            LET i == [NoInstr EXCEPT !.op = "Call", !.arg = name,
                                     !.args = a.values, !.mats = a.mats]
            IN  IF callee.returnType = "Void" THEN Effect(a.c, i)
                ELSE Define(a.c, i))

(* A variable, a constant or a function without arguments.  The symbols of  *)
(* a subprogram are gone by now, so its own constants are not found; those  *)
(* of the program are, but their values are kept only in the main block.    *)
LowerIdentifier(c, e) ==
    IF HasSlot(c, e.text) THEN EmitLoad(c, e.text)
    ELSE CASE e.text \in {"true", "false"} ->
                EmitConstBool(c, e.text = "true")
           [] Declares(c.consts, e.text) ->
                LowerExpr(c, Named(c.consts, e.text).value)
           [] Declares(c.symbols, e.text) -> LowerUserCall(c, e.text, <<>>)
           [] OTHER -> Report(c)

LowerUnary(c, e) ==
    Then(LowerExpr(c, e.left), LAMBDA a :
        CASE e.unaryOp = "Plus" -> a
          [] e.unaryOp = "Minus" -> EmitUnaryOp(a, "Neg", a.val)
          [] e.unaryOp = "Not" -> EmitUnaryOp(a, "Not", a.val))

LowerBinary(c, e) ==
    Then(LowerExprFor(c, e.left, e.type), LAMBDA l :
    Then(LowerExprFor(l, e.right, e.type), LAMBDA r :
        EmitBinaryOp(r, ToBinaryOp[e.binaryOp], l.val, r.val)))

LowerIndexExpr(c, e) ==
    Then(LowerExpr(c, e.right), LAMBDA i :
        EmitLoadIndex(i, ResolveArrayBase(c, e.left), i.val))

LowerSelectExpr(c, e) == EmitLoad(c, FieldStorage(e.left.text, e.text))

LowerExpr(c, e) ==
    CASE e.kind = "IntegerLiteral" -> EmitConstI32(c, e.n)
      [] e.kind = "RealLiteral" -> EmitConstF64(c, e.n)
      [] e.kind = "CharLiteral" -> EmitConstChar(c, e.n)
      [] e.kind = "StringLiteral" -> EmitConstString(c, e.n)
      [] e.kind = "Identifier" -> LowerIdentifier(c, e)
      [] e.kind = "Unary" -> LowerUnary(c, e)
      [] e.kind = "Binary" -> LowerBinary(c, e)
      [] e.kind = "Call" -> IF e.text \in StdFuncNames
                            THEN LowerStdFuncCall(c, e)
                            ELSE LowerUserCall(c, e.text, e.args)
      [] e.kind = "Group" -> LowerExpr(c, e.left)
      [] e.kind = "Index" -> LowerIndexExpr(c, e)
      [] e.kind = "Select" -> LowerSelectExpr(c, e)

RECURSIVE PeelGroups(_)
PeelGroups(e) == IF e.kind = "Group" THEN PeelGroups(e.left) ELSE e

(* For a real context an integer is widened: a literal at compile time.     *)
LowerExprAsReal(c, e) ==
    LET inner == PeelGroups(e)
    IN  IF inner.kind = "IntegerLiteral" THEN EmitConstF64(c, 4 * inner.n)
        ELSE Then(LowerExpr(c, e), LAMBDA a :
                 IF e.type = "I32" THEN EmitUnaryOp(a, "ConvertF64", a.val) ELSE a)

LowerCallArgs(c, callee, args, values, mats) ==
    IF args = <<>> THEN [c |-> c, values |-> values, mats |-> mats]
    ELSE LET e == Head(args)
             formal == callee.params[1 + Len(values) + Len(mats)]
         IN  IF formal.type = "ArrayRef"
             THEN LowerCallArgs(c, callee, Tail(args), values,
                      Append(mats,
                             [dst |-> FieldStorage(callee.name, formal.name),
                              src |-> FieldStorage(c.fn, ResolveSlot(c, e.text).name),
                              size |-> formal.high - formal.low + 1]))
             ELSE Then(LowerExprFor(c, e, formal.type), LAMBDA a :
                      LowerCallArgs(a, callee, Tail(args),
                                    Append(values, a.val), mats))

---------------------------------------------------------------------------
(* Statements.                                                              *)

RECURSIVE LowerStmt(_, _), LowerStmts(_, _), LowerWriteCall(_, _, _, _, _),
          LowerReadCall(_, _, _), CopyRecordFields(_, _, _, _)
LowerStmts(c, statements) ==
    IF statements = <<>> THEN c
    ELSE LowerStmts(LowerStmt(c, Head(statements)), Tail(statements))

LowerWriteCall(c, name, args, values, types) ==
    IF args = <<>>
    THEN Effect(c, [CallRuntime(name, values) EXCEPT !.types = types])
    ELSE Then(LowerExpr(c, Head(args)), LAMBDA v :
             LowerWriteCall(v, name, Tail(args), Append(values, v.val),
                            Append(types, Head(args).type)))

LowerReadCall(c, name, args) ==
    IF args = <<>> THEN c
    ELSE IF ~HasSlot(c, Head(args).text)
    THEN LowerReadCall(Error(c), name, Tail(args))
    ELSE LET slot == ResolveSlot(c, Head(args).text)
         IN  Then(Define(c, [CallRuntime(name, <<>>) EXCEPT !.type = slot.type]),
                  LAMBDA r :
                 LowerReadCall(EmitStore(r, slot.name, r.val), name, Tail(args)))

LowerCallStmt(c, stmt) ==
    CASE stmt.name \in {"write", "writeln"} ->
           LowerWriteCall(c, stmt.name, stmt.args, <<>>, <<>>)
      [] stmt.name \in {"read", "readln"} ->
           LowerReadCall(c, stmt.name, stmt.args)
      [] OTHER -> LowerUserCall(c, stmt.name, stmt.args)

CopyRecordFields(c, dst, src, fields) ==
    IF fields = <<>> THEN c
    ELSE LET to == FieldStorage(dst, Head(fields).name)
             from == FieldStorage(src, Head(fields).name)
         IN  CopyRecordFields(
                 IF Head(fields).type = "ArrayRef" THEN EmitArrayCopy(c, to, from)
                 ELSE Then(EmitLoad(c, from), LAMBDA v : EmitStore(v, to, v.val)),
                 dst, src, Tail(fields))

(* Assignment: the enclosing function's result, an element, a whole record, *)
(* a whole array, or a scalar, in the order the code tests for them.        *)
LowerAssign(c, stmt) ==
    IF stmt.name = c.resultName
    THEN Then(LowerExprFor(c, stmt.value, Named(c.symbols, c.fn).returnType),
              LAMBDA v : [v EXCEPT !.resultValue = v.val])
    ELSE IF stmt.fieldName = NoName /\ Declares(c.records, stmt.name)
    THEN CopyRecordFields(c, stmt.name, stmt.value.text,
                          Named(c.records, stmt.name).fields)
    ELSE LET target == IF stmt.fieldName = NoName THEN stmt.name
                       ELSE FieldStorage(stmt.name, stmt.fieldName)
             slot == ResolveSlot(c, target)
         IN  IF ~HasSlot(c, target) THEN Error(c)
             ELSE IF stmt.index # NoExpr
             THEN Then(LowerExprFor(c, stmt.value, slot.element), LAMBDA v :
                  Then(LowerExpr(v, stmt.index), LAMBDA i :
                      EmitStoreIndex(i, slot, i.val, v.val)))
             ELSE IF /\ slot.type = "ArrayRef"
                     /\ stmt.fieldName # NoName \/ stmt.value.kind = "Identifier"
             THEN EmitArrayCopy(c, slot.name, ResolveArrayBase(c, stmt.value).name)
             ELSE Then(LowerExprFor(c, stmt.value, slot.type), LAMBDA v :
                      EmitStore(v, slot.name, v.val))

LowerIf(c0, stmt) ==
    Then(LowerExpr(c0, stmt.condition), LAMBDA c :
        LET hasElse == stmt.elseBranch # NoStmt
            then == Label(c, "if.then.", 0)
            end == Label(c, "if.end.", 1)
            else == Label(c, "if.else.", 2)
            Branched == SealBlock(NewLabels(c, IF hasElse THEN 3 ELSE 2),
                            BranchIfTo(c.val, then, IF hasElse THEN else ELSE end))
        IN  Then(LowerStmt(BeginBlock(Branched, then), stmt.thenBranch), LAMBDA t :
                IF hasElse
                THEN JumpThen(LowerStmt(JumpThen(t, end, else), stmt.elseBranch),
                              end, end)
                ELSE JumpThen(t, end, end)))

LowerWhile(c, stmt) ==
    LET head == Label(c, "while.head.", 0)
        body == Label(c, "while.body.", 1)
        end == Label(c, "while.end.", 2)
    IN  Then(LowerExpr(JumpThen(NewLabels(c, 3), head, head), stmt.condition), LAMBDA h :
            JumpThen(LowerStmt(BeginBlock(SealBlock(h, BranchIfTo(h.val, body, end)),
                                          body), stmt.thenBranch), head, end))

(* Mutant of LowerRepeat: the loop goes on while its condition holds.       *)
RepeatWhile(c, stmt) ==
    LET body == Label(c, "repeat.body.", 0)
        end == Label(c, "repeat.end.", 1)
    IN  Then(LowerExpr(LowerStmts(JumpThen(NewLabels(c, 2), body, body),
                                  stmt.statements), stmt.condition), LAMBDA b :
            BeginBlock(SealBlock(b, BranchIfTo(b.val, body, end)), end))

LowerRepeat(c, stmt) ==
    LET body == Label(c, "repeat.body.", 0)
        end == Label(c, "repeat.end.", 1)
    IN  Then(LowerExpr(LowerStmts(JumpThen(NewLabels(c, 2), body, body),
                                  stmt.statements), stmt.condition), LAMBDA b :
            BeginBlock(SealBlock(b, BranchIfTo(b.val, end, body)), end))

(* The control variable has its start before the limit is evaluated.        *)
LowerFor(c0, stmt) ==
    LET control == stmt.name
    IN  IF ~HasSlot(c0, control) THEN Error(c0)
        ELSE
        Then(LowerExpr(c0, stmt.value), LAMBDA start :
        Then(LowerExpr(EmitStore(start, control, start.val), stmt.forLimit), LAMBDA c :
            LET head == Label(c, "for.head.", 0)
                body == Label(c, "for.body.", 1)
                end == Label(c, "for.end.", 2)
            IN  Then(EmitLoad(JumpThen(NewLabels(c, 3), head, head), control), LAMBDA l :
                Then(EmitBinaryOp(l, IF stmt.forDownto THEN "CmpGe" ELSE "CmpLe",
                                  l.val, c.val), LAMBDA h :
                Then(EmitLoad(LowerStmt(BeginBlock(SealBlock(h,
                                  BranchIfTo(h.val, body, end)), body),
                                  stmt.thenBranch), control), LAMBDA n :
                Then(WithConst(n, 1, IF stmt.forDownto THEN "Sub" ELSE "Add", n.val),
                     LAMBDA s :
                    JumpThen(EmitStore(s, control, s.val), head, end)))))))

EmitCaseLabelMatch(c, selector, label) ==
    Then(LowerExpr(c, label.lo), LAMBDA lo :
        IF label.hi = NoExpr THEN EmitBinaryOp(lo, "CmpEq", selector, lo.val)
        ELSE Then(LowerExpr(lo, label.hi), LAMBDA hi :
             Then(EmitBinaryOp(hi, "CmpGe", selector, lo.val), LAMBDA ge :
             Then(EmitBinaryOp(ge, "CmpLe", selector, hi.val), LAMBDA le :
                 EmitBinaryOp(le, "And", ge.val, le.val)))))

(* The labels of an arm, from the one after the k-th on, joined with `or`.   *)
RECURSIVE EmitCaseArmMatch(_, _, _, _)
EmitCaseArmMatch(c, selector, labels, k) ==
    IF k = 0
    THEN EmitCaseArmMatch(EmitCaseLabelMatch(c, selector, labels[1]), selector,
                          labels, 1)
    ELSE IF k = Len(labels) THEN c
    ELSE Then(EmitCaseLabelMatch(c, selector, labels[k + 1]), LAMBDA next :
             EmitCaseArmMatch(EmitBinaryOp(next, "Or", c.val, next.val), selector,
                              labels, k + 1))

(* First every arm's test, then every arm's body, the labels of all of them *)
(* taken beforehand; k counts the arms lowered so far.                      *)
RECURSIVE CaseTests(_, _, _, _, _), CaseBodies(_, _, _, _, _)
CaseTests(c, arms, k, at, selector) ==
    IF k = Len(arms) THEN c
    ELSE Then(EmitCaseArmMatch(BeginBlock(c, at.tests[k + 1]), selector,
                               arms[k + 1].labels, 0), LAMBDA m :
             CaseTests(SealBlock(m, BranchIfTo(m.val, at.arms[k + 1],
                                               at.tests[k + 2])),
                       arms, k + 1, at, selector))

CaseBodies(c, arms, k, at, merge) ==
    IF k = Len(arms) THEN c
    ELSE CaseBodies(SealBlock(LowerStmt(BeginBlock(c, at.arms[k + 1]),
                                        arms[k + 1].body), BranchTo(merge)),
                    arms, k + 1, at, merge)

LowerCase(c0, stmt) ==
    Then(LowerExpr(c0, stmt.condition), LAMBDA s :
        LET arms == stmt.caseArms
            hasElse == stmt.elseBranch # NoStmt
            merge == Label(s, "case.merge.", 0)
            else == Label(s, "case.else.", 1)
            first == IF hasElse THEN 2 ELSE 1
            miss == IF hasElse THEN else ELSE merge
            at == [tests |-> [k \in 1..Len(arms) + 1 |->
                                 IF k > Len(arms) THEN miss
                                 ELSE Label(s, "case.test.", first + 2 * (k - 1))],
                   arms |-> [k \in DOMAIN arms |->
                                Label(s, "case.arm.", first + 2 * (k - 1) + 1)]]
            Arms(c) == CaseBodies(CaseTests(c, arms, 0, at, s.val), arms, 0, at, merge)
        IN  IF arms = <<>> /\ ~hasElse THEN NewLabels(s, 1)
            ELSE Then(Arms(SealBlock(NewLabels(s, first + 2 * Len(arms)),
                                     BranchTo(at.tests[1]))), LAMBDA b :
                     IF hasElse
                     THEN JumpThen(LowerStmt(BeginBlock(b, else), stmt.elseBranch),
                                   merge, merge)
                     ELSE BeginBlock(b, merge)))

LowerStmt(c0, stmt) ==
    Then(c0, LAMBDA c :
        CASE stmt.kind = "Compound" -> LowerStmts(c, stmt.statements)
          [] stmt.kind = "Assign" -> LowerAssign(c, stmt)
          [] stmt.kind = "Call" -> LowerCallStmt(c, stmt)
          [] stmt.kind = "If" -> LowerIf(c, stmt)
          [] stmt.kind = "While" -> LowerWhile(c, stmt)
          [] stmt.kind = "Repeat" -> LowerRepeat(c, stmt)
          [] stmt.kind = "For" -> LowerFor(c, stmt)
          [] stmt.kind = "Case" -> LowerCase(c, stmt))

---------------------------------------------------------------------------
(* Functions and the module.                                                *)

(* A record variable has no slot of its own, only its fields have.          *)
LowerLocals(vars) ==
    FlattenSeq([k \in DOMAIN vars |->
        IF vars[k].type # "Record" THEN <<vars[k]>>
        ELSE [j \in DOMAIN vars[k].fields |->
                 [vars[k].fields[j] EXCEPT !.name = FieldStorage(vars[k].name, @)]]])

RECURSIVE EmitArrayDims(_, _)
EmitArrayDims(c, locals) ==
    IF locals = <<>> THEN c
    ELSE EmitArrayDims(IF Head(locals).type = "ArrayRef"
                       THEN EmitDimArray(c, Head(locals)) ELSE c, Tail(locals))

LowerFunctionCore(symbols, sub, consts, resultName) ==
    LET locals == LowerLocals(sub.vars)
        empty == [fn |-> sub.name, params |-> sub.params, locals |-> locals,
                  blocks |-> <<>>, label |-> "entry", body |-> <<>>,
                  nextTemp |-> 0, blockCounter |-> 0, symbols |-> symbols,
                  consts |-> consts, resultName |-> resultName,
                  records |-> SelectSeq(sub.vars, LAMBDA d : d.type = "Record"),
                  resultValue |-> NoValue, val |-> NoValue, failed |-> FALSE]
    IN  Then(EmitArrayDims(empty, locals), LAMBDA c :
        Then(IF resultName = NoName THEN c ELSE EmitZeroValue(c, sub.returnType),
             LAMBDA z :
        Then(LowerStmts([z EXCEPT !.resultValue = z.val], sub.statements), LAMBDA b :
            [name |-> sub.name, params |-> sub.params, failed |-> b.failed,
             blocks |-> SealBlock(b, Terminator("Return", b.resultValue,
                                                NoName, NoName)).blocks])))

(* The main block is lowered as the function main; only it has constants.   *)
LowerToIr(program) ==
    LET main == Subprogram("main", "Void", <<>>, program.vars, program.statements)
        subs == <<main>> \o program.subprograms
    IN  Then([k \in DOMAIN subs |->
                 LowerFunctionCore(program.subprograms, subs[k],
                     IF k = 1 THEN program.consts ELSE <<>>,
                     IF IsFunction(subs[k]) THEN subs[k].name ELSE NoName)],
             LAMBDA functions :
             [functions |-> functions,
              failed |-> \E k \in DOMAIN functions : functions[k].failed])
==============================================================================
