------------------------------- MODULE Pascal -------------------------------
(***************************************************************************)
(* What a program of the dialect means (docs/pascal-dialect.md): the       *)
(* output it prints for an input, by structural recursion over the syntax  *)
(* tree.  It knows nothing of blocks, temporaries, slots or opcodes, so it *)
(* can be held against what the compiler makes of the same program.        *)
(*                                                                         *)
(* The meaning of a phrase is a transformer of records with                *)
(*   subs, consts   the program's declarations                             *)
(*   store          the variables of the current block, by name            *)
(*   input, output  what is left to read and what has been printed         *)
(*   ok             no division by zero and no index out of range so far   *)
(*   val            the value of the expression just evaluated             *)
(***************************************************************************)
EXTENDS Ast, Numbers, Sequencing, TLC

(* The value of type `type` of an operator applied to two values.           *)
Compare(op, a, b) ==
    CASE op = "Equal" -> a = b
      [] op = "NotEqual" -> a # b
      [] op = "Less" -> a < b
      [] op = "LessEqual" -> a <= b
      [] op = "Greater" -> a > b
      [] op = "GreaterEqual" -> a >= b

Apply(op, type, l, r) ==
    LET a == Quarters(l)
        b == Quarters(r)
    IN  CASE op \in {"And", "Or"} ->
               Truth(IF op = "And" THEN Holds(l) /\ Holds(r)
                                   ELSE Holds(l) \/ Holds(r))
          [] op = "Plus" -> IF type = "F64" THEN Real(a + b) ELSE Whole(l.n + r.n)
          [] op = "Minus" -> IF type = "F64" THEN Real(a - b) ELSE Whole(l.n - r.n)
          [] op = "Star" ->
               IF type = "F64" THEN Real(Product(a, b)) ELSE Whole(l.n * r.n)
          [] op = "Slash" -> Real(Ratio(a, b))
          [] op = "Div" -> Whole(Quotient(l.n, r.n))
          [] op = "Mod" -> Whole(Remainder(l.n, r.n))
          [] OTHER -> Truth(Compare(op, a, b))

StdFuncs == {"ord", "chr", "succ", "pred", "odd", "sqr", "abs", "trunc",
             "round", "sqrt"}
ApplyStd(name, type, v) ==
    LET q == Quarters(v)
    IN  CASE name = "ord" -> Whole(v.n)
          [] name = "chr" -> Glyph(v.n)
          [] name = "succ" -> [v EXCEPT !.n = @ + 1]
          [] name = "pred" -> [v EXCEPT !.n = @ - 1]
          [] name = "odd" -> Truth(v.n % 2 = 1)
          [] name = "sqr" -> Apply("Star", type, v, v)
          [] name = "abs" -> [v EXCEPT !.n = Magnitude(@)]
          [] name = "trunc" -> Whole(Quotient(q, 4))
          [] name = "round" -> Whole(Quotient(IF q < 0 THEN q - 2 ELSE q + 2, 4))
          [] name = "sqrt" -> Real(SquareRoot(q))

Zero(type) ==
    CASE type = "F64" -> Real(0)
      [] type = "Char" -> Glyph(0)
      [] type = "StringRef" -> EmptyString
      [] OTHER -> Whole(0)

(* A fresh variable of a declaration.                                       *)
Fresh(d) ==
    CASE d.type = "ArrayRef" -> [k \in d.low..d.high |-> Zero(d.element)]
      [] d.type = "Record" ->
           [f \in {d.fields[k].name : k \in DOMAIN d.fields} |->
               LET e == Named(d.fields, f)
               IN  IF e.type = "ArrayRef"
                   THEN [k \in e.low..e.high |-> Zero(e.element)]
                   ELSE Zero(e.type)]
      [] OTHER -> Zero(d.type)

Variables(decls) ==
    [name \in {decls[k].name : k \in DOMAIN decls} |-> Fresh(Named(decls, name))]

Stop(s) == [s EXCEPT !.ok = FALSE]

(* A value kept in a variable like `old` takes its representation.          *)
Like(old, v) == IF old.t = "real" THEN Widen(v) ELSE v

---------------------------------------------------------------------------
RECURSIVE Eval(_, _), EvalArgs(_, _, _), ExecCall(_, _), Exec(_, _),
          ExecAll(_, _), Loop(_, _, _, _), CountTo(_, _, _, _, _)

(* The array an index applies to: a variable or a record's field.           *)
ArrayValue(s, base) ==
    IF base.kind = "Select" THEN s.store[base.left.text][base.text]
                            ELSE s.store[base.text]

(* A call: value parameters, the callee's own variables, and for a function *)
(* the variable of its own name that holds the result.                      *)
Bound(sub, values) ==
    LET result == IF IsFunction(sub) THEN <<Scalar(sub.name, sub.returnType)>> ELSE <<>>
        given == [x \in {sub.params[k].name : k \in DOMAIN sub.params} |->
                     LET k == CHOOSE j \in DOMAIN sub.params : sub.params[j].name = x
                     IN  IF sub.params[k].type = "F64" THEN Widen(values[k])
                         ELSE values[k]]
    IN  given @@ Variables(sub.vars \o result)

(* The caller's variables after a call: its var parameters have changed the  *)
(* variables they stand for.                                                *)
Returned(store, sub, args, callee) ==
    [x \in DOMAIN store |->
        LET changed == {k \in DOMAIN args : /\ IsVar(sub.params[k])
                                            /\ args[k].text = x}
        IN  IF changed = {} THEN store[x]
            ELSE callee[sub.params[CHOOSE k \in changed : TRUE].name]]

Invoke(s, name, args) ==
    LET sub == Named(s.subs, name)
    IN  Then(EvalArgs(s, args, <<>>), LAMBDA a :
            IF ~a.ok THEN a
            ELSE Then(ExecAll([a EXCEPT !.store = Bound(sub, a.val)],
                              sub.statements), LAMBDA r :
                     [r EXCEPT !.store = Returned(a.store, sub, args, r.store),
                               !.val = IF IsFunction(sub) THEN r.store[name]
                                                          ELSE Whole(0)]))

EvalArgs(s, args, values) ==
    IF args = <<>> \/ ~s.ok
    THEN [s EXCEPT !.val = values]
    ELSE Then(IF Head(args).type = "ArrayRef"
              THEN [s EXCEPT !.val = s.store[Head(args).text]]
              ELSE Eval(s, Head(args)), LAMBDA a :
             EvalArgs(a, Tail(args), Append(values, a.val)))

Eval(s, e) ==
    IF ~s.ok THEN s
    ELSE CASE e.kind = "IntegerLiteral" -> [s EXCEPT !.val = Whole(e.n)]
           [] e.kind = "RealLiteral" -> [s EXCEPT !.val = Real(e.n)]
           [] e.kind = "CharLiteral" -> [s EXCEPT !.val = Glyph(e.n)]
           [] e.kind = "StringLiteral" -> [s EXCEPT !.val = Text(e.n)]
           [] e.kind = "Identifier" ->
                IF e.text \in DOMAIN s.store /\ ~Declares(s.subs, e.text)
                THEN [s EXCEPT !.val = s.store[e.text]]
                ELSE IF Declares(s.subs, e.text) THEN Invoke(s, e.text, <<>>)
                ELSE IF e.text \in {"true", "false"}
                THEN [s EXCEPT !.val = Truth(e.text = "true")]
                ELSE Eval(s, Named(s.consts, e.text).value)
           [] e.kind = "Group" -> Eval(s, e.left)
           [] e.kind = "Unary" ->
                Then(Eval(s, e.left), LAMBDA a :
                    IF ~a.ok \/ e.unaryOp = "Plus" THEN a
                    ELSE IF e.unaryOp = "Minus" THEN [a EXCEPT !.val.n = -@]
                    ELSE [a EXCEPT !.val = Truth(~Holds(@))])
           [] e.kind = "Binary" ->
                Then(Eval(s, e.left), LAMBDA l :
                Then(Eval(l, e.right), LAMBDA r :
                    IF ~r.ok THEN r
                    ELSE IF /\ e.binaryOp \in {"Slash", "Div", "Mod"}
                            /\ r.val.n = 0
                    THEN Stop(r)
                    ELSE [r EXCEPT !.val = Apply(e.binaryOp, e.type, l.val, @)]))
           [] e.kind = "Select" -> [s EXCEPT !.val = s.store[e.left.text][e.text]]
           [] e.kind = "Index" ->
                Then(Eval(s, e.right), LAMBDA i :
                    LET array == ArrayValue(s, e.left)
                    IN  IF i.ok /\ i.val.n \in DOMAIN array
                        THEN [i EXCEPT !.val = array[@.n]] ELSE Stop(i))
           [] e.kind = "Call" ->
                IF e.text \in StdFuncs
                THEN Then(Eval(s, e.args[1]), LAMBDA a :
                         IF ~a.ok THEN a
                         ELSE [a EXCEPT !.val = ApplyStd(e.text, e.type, @)])
                ELSE Invoke(s, e.text, e.args)

---------------------------------------------------------------------------
(* Assignment: to an array element, a field, an element of a field, or the  *)
(* whole variable.  An integer stored in a real is widened.                 *)
ExecAssign(s, stmt) ==
    IF stmt.value.type \in {"ArrayRef", "Record"}
    THEN LET whole == IF stmt.value.kind = "Select"
                      THEN ArrayValue(s, stmt.value) ELSE s.store[stmt.value.text]
         IN  IF stmt.fieldName # "none"
             THEN [s EXCEPT !.store[stmt.name][stmt.fieldName] = whole]
             ELSE [s EXCEPT !.store[stmt.name] = whole]
    ELSE Then(Eval(s, stmt.value), LAMBDA v :
         Then(IF stmt.index = NoExpr THEN v ELSE Eval(v, stmt.index), LAMBDA i :
             LET k == i.val.n
                 array == IF stmt.fieldName # "none"
                          THEN i.store[stmt.name][stmt.fieldName]
                          ELSE i.store[stmt.name]
             IN  IF ~i.ok THEN i
                 ELSE IF stmt.index = NoExpr
                 THEN IF stmt.fieldName # "none"
                      THEN [i EXCEPT !.store[stmt.name][stmt.fieldName] = Like(@, v.val)]
                      ELSE [i EXCEPT !.store[stmt.name] = Like(@, v.val)]
                 ELSE IF k \notin DOMAIN array THEN Stop(i)
                 ELSE IF stmt.fieldName # "none"
                 THEN [i EXCEPT !.store[stmt.name][stmt.fieldName][k] = Like(@, v.val)]
                 ELSE [i EXCEPT !.store[stmt.name][k] = Like(@, v.val)]))

ExecCall(s, stmt) ==
    CASE stmt.name \in {"write", "writeln"} ->
           Then(EvalArgs(s, stmt.args, <<>>), LAMBDA a :
               IF ~a.ok THEN a
               ELSE [a EXCEPT !.output = @ \o a.val \o
                        (IF stmt.name = "writeln" THEN <<EndOfLine>> ELSE <<>>)])
      [] stmt.name \in {"read", "readln"} ->
           IF stmt.args = <<>> THEN s
           ELSE LET name == Head(stmt.args).text
                    r == [s EXCEPT !.store[name] = Like(@, Head(s.input)),
                                   !.input = Tail(@)]
                IN  ExecCall(r, [stmt EXCEPT !.args = Tail(@)])
      [] OTHER -> Invoke(s, stmt.name, stmt.args)

(* `while` and `repeat`: the body is repeated as long as the condition has  *)
(* the value `again`.                                                       *)
Loop(s, condition, again, body) ==
    Then(Eval(s, condition), LAMBDA c :
        IF c.ok /\ Holds(c.val) = again
        THEN Loop(ExecAll(c, body), condition, again, body) ELSE c)

(* Both bounds are evaluated once; the control variable counts to the limit.*)
CountTo(s0, stmt, k, limit, step) ==
    Then(s0, LAMBDA s :
        IF ~s.ok \/ (step > 0 /\ k > limit) \/ (step < 0 /\ k < limit) THEN s
        ELSE CountTo(Exec([s EXCEPT !.store[stmt.name] = Whole(k)], stmt.thenBranch),
                     stmt, k + step, limit, step))

ExecFor(s, stmt) ==
    Then(Eval(s, stmt.value), LAMBDA a :
    Then(Eval(a, stmt.forLimit), LAMBDA b :
        IF ~b.ok THEN b
        ELSE CountTo(b, stmt, a.val.n, b.val.n, IF stmt.forDownto THEN -1 ELSE 1)))

Selects(s, arm, v) ==
    \E k \in DOMAIN arm.labels :
        LET label == arm.labels[k]
            ValueOf(e) == Eval(s, e).val.n
        IN  v \in ValueOf(label.lo)..
                  ValueOf(IF label.hi = NoExpr THEN label.lo ELSE label.hi)

ExecCase(s, stmt) ==
    Then(Eval(s, stmt.condition), LAMBDA c :
        LET chosen == {k \in DOMAIN stmt.caseArms :
                          Selects(c, stmt.caseArms[k], c.val.n)}
        IN  IF ~c.ok THEN c
            ELSE IF chosen # {}
            THEN Exec(c, stmt.caseArms[CHOOSE k \in chosen : TRUE].body)
            ELSE IF stmt.elseBranch # NoStmt THEN Exec(c, stmt.elseBranch) ELSE c)

ExecIf(s, stmt) ==
    Then(Eval(s, stmt.condition), LAMBDA c :
        IF ~c.ok THEN c
        ELSE IF Holds(c.val) THEN Exec(c, stmt.thenBranch)
        ELSE IF stmt.elseBranch # NoStmt THEN Exec(c, stmt.elseBranch) ELSE c)

Exec(s, stmt) ==
    IF ~s.ok THEN s
    ELSE CASE stmt.kind = "Compound" -> ExecAll(s, stmt.statements)
           [] stmt.kind = "Assign" -> ExecAssign(s, stmt)
           [] stmt.kind = "Call" -> ExecCall(s, stmt)
           [] stmt.kind = "If" -> ExecIf(s, stmt)
           [] stmt.kind = "While" ->
                Loop(s, stmt.condition, TRUE, <<stmt.thenBranch>>)
           [] stmt.kind = "Repeat" ->
                Loop(ExecAll(s, stmt.statements), stmt.condition, FALSE,
                     stmt.statements)
           [] stmt.kind = "For" -> ExecFor(s, stmt)
           [] stmt.kind = "Case" -> ExecCase(s, stmt)

ExecAll(s, statements) ==
    IF statements = <<>> THEN s
    ELSE ExecAll(Exec(s, Head(statements)), Tail(statements))

---------------------------------------------------------------------------
(* What a program prints, and whether it runs to its end.                   *)
Meaning(program, input) ==
    Then(ExecAll([subs |-> program.subprograms, consts |-> program.consts,
                  store |-> Variables(program.vars), input |-> input,
                  output |-> <<>>, ok |-> TRUE, val |-> Whole(0)],
                 program.statements), LAMBDA s :
        [output |-> s.output, ok |-> s.ok])
=============================================================================
