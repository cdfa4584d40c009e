------------------------------- MODULE FrontEnd -------------------------------
(***************************************************************************)
(* What lowering reads of an analysed program (toIrType, fillArrayMeta and *)
(* lowerFunctionCore in src/pascal/ir/Lower.cpp): the types the analyser   *)
(* has left on expressions and denoters, as types of the IR.  The symbol   *)
(* table of a subprogram is gone by then; only the notes on the tree stay. *)
(***************************************************************************)
EXTENDS Ast, Types

LOCAL INSTANCE SequencesExt

IrTypes ==
    [Integer |-> "I32", Real |-> "F64", Boolean |-> "Bool", Char |-> "Char",
     String |-> "StringRef", Array |-> "ArrayRef", Record |-> "Record",
     Text |-> "Text", File |-> "File", Error |-> "Error"]
(* Records and files have no IR type of their own; lowering asks for their  *)
(* tag where it matters.                                                    *)
ToIrType(type) == IrTypes[CanonicalTag(type)]

RECURSIVE IrExpr(_)
IrExpr(e) ==
    [field \in DOMAIN e |->
        CASE field = "type" -> ToIrType(e.type)
          [] field \in {"left", "right"} -> IrExpr(e[field])
          [] field = "args" -> [k \in DOMAIN e.args |-> IrExpr(e.args[k])]
          [] OTHER -> e[field]]

IrLabel(label) == CaseLabel(IrExpr(label.lo), IrExpr(label.hi))
RECURSIVE IrStmt(_)
IrArm(arm) == CaseArm([k \in DOMAIN arm.labels |-> IrLabel(arm.labels[k])],
                      IrStmt(arm.body))
IrStmt(s) ==
    [field \in DOMAIN s |->
        CASE field \in {"condition", "value", "forLimit", "index"} -> IrExpr(s[field])
          [] field = "args" -> [k \in DOMAIN s.args |-> IrExpr(s.args[k])]
          [] field \in {"thenBranch", "elseBranch"} -> IrStmt(s[field])
          [] field = "statements" ->
               [k \in DOMAIN s.statements |-> IrStmt(s.statements[k])]
          [] field = "caseArms" -> [k \in DOMAIN s.caseArms |-> IrArm(s.caseArms[k])]
          [] OTHER -> s[field]]

(* A variable, parameter or field as a slot; an array with its bounds.      *)
RECURSIVE Slot(_, _)
Slot(name, type) ==
    LET whole == PeelAliases(type)
    IN  CASE whole.tag = "Array" ->
               Array(name, whole.low, whole.high, ToIrType(whole.element))
          [] whole.tag = "Record" ->
               Record(name, [k \in DOMAIN whole.fields |->
                                Slot(whole.fields[k].name, whole.fields[k].type)])
          [] OTHER -> Scalar(name, ToIrType(type))

(* The notes the analyser has left at a place: a denoter's type, or a       *)
(* statement.                                                               *)
NoteAt(notes, path, part, k) ==
    notes[CHOOSE j \in DOMAIN notes :
              notes[j].at = [path |-> path, part |-> part, k |-> k]].note

Slots(notes, decls, path, part) ==
    FlattenSeq([k \in DOMAIN decls |->
        [j \in DOMAIN decls[k].names |->
            Slot(decls[k].names[j], NoteAt(notes, path, part, k))]])
Formals(notes, params, path) ==
    FlattenSeq([k \in DOMAIN params |->
        [j \in DOMAIN params[k].names |->
            LET slot == Slot(params[k].names[j], NoteAt(notes, path, "params", k))
            IN  IF params[k].isVar THEN VarParam(slot.name, slot.type) ELSE slot]])
Statements(notes, block, path) ==
    [k \in DOMAIN block.statements |-> IrStmt(NoteAt(notes, path, "statements", k))]

LoweredSubprogram(notes, sub, k) ==
    Subprogram(sub.name,
        IF sub.isFunction THEN ToIrType(NoteAt(notes, <<>>, "subprograms", k))
        ELSE "Void",
        Formals(notes, sub.params, <<k>>),
        Slots(notes, sub.block.vars, <<k>>, "vars"),
        Statements(notes, sub.block, <<k>>))
AnalysedProgram(notes, block) ==
    Program(block.consts, Slots(notes, block.vars, <<>>, "vars"),
        [k \in DOMAIN block.subprograms |->
            LoweredSubprogram(notes, block.subprograms[k], k)],
        Statements(notes, block, <<>>))
================================================================================
