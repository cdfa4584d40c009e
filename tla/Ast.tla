--------------------------------- MODULE Ast ---------------------------------
(***************************************************************************)
(* The analysed syntax tree (include/apollo/pascal/ast/Ast.hpp) the later  *)
(* phases read.  A name stands for its folded spelling, and every          *)
(* expression carries the type that analyse() has left on it, as toIrType  *)
(* gives it: "I32", "F64", "Bool", "ArrayRef" or "Record".  A real is a    *)
(* whole number of quarters, a character its code, and a string a number   *)
(* that tells it from the others.                                          *)
(***************************************************************************)
EXTENDS Integers, Sequences

(* Expressions.                                                             *)

NoExpr == [kind |-> "None"]

IntegerLiteral(n) == [kind |-> "IntegerLiteral", type |-> "I32", n |-> n]
RealLiteral(quarters) == [kind |-> "RealLiteral", type |-> "F64", n |-> quarters]
CharLiteral(code) == [kind |-> "CharLiteral", type |-> "Char", n |-> code]
StringLiteral(n) == [kind |-> "StringLiteral", type |-> "StringRef", n |-> n]
Identifier(name, type) == [kind |-> "Identifier", type |-> type, text |-> name]
Unary(op, e, type) ==
    [kind |-> "Unary", type |-> type, unaryOp |-> op, left |-> e]
Binary(op, l, r, type) ==
    [kind |-> "Binary", type |-> type, binaryOp |-> op, left |-> l, right |-> r]
Call(name, args, type) ==
    [kind |-> "Call", type |-> type, text |-> name, args |-> args]
Group(e) == [kind |-> "Group", type |-> e.type, left |-> e]
Select(name, field, type) ==
    [kind |-> "Select", type |-> type, left |-> Identifier(name, "Record"),
     text |-> field]
Index(base, index, type) ==
    [kind |-> "Index", type |-> type, left |-> base, right |-> index]

(* Statements.                                                              *)

Compound(statements) == [kind |-> "Compound", statements |-> statements]
Assign(name, value) ==
    [kind |-> "Assign", name |-> name, fieldName |-> "none", index |-> NoExpr,
     value |-> value]
AssignIndex(name, index, value) == [Assign(name, value) EXCEPT !.index = index]
AssignField(name, field, value) == [Assign(name, value) EXCEPT !.fieldName = field]
CallStmt(name, args) == [kind |-> "Call", name |-> name, args |-> args]
NoStmt == [kind |-> "None"]
IfElse(condition, then, else) ==
    [kind |-> "If", condition |-> condition, thenBranch |-> then,
     elseBranch |-> else]
If(condition, then) == IfElse(condition, then, NoStmt)
While(condition, body) ==
    [kind |-> "While", condition |-> condition, thenBranch |-> body]
Repeat(statements, condition) ==
    [kind |-> "Repeat", statements |-> statements, condition |-> condition]
For(name, start, limit, downto, body) ==
    [kind |-> "For", name |-> name, value |-> start, forLimit |-> limit,
     forDownto |-> downto, thenBranch |-> body]
CaseLabel(lo, hi) == [lo |-> lo, hi |-> hi]
CaseArm(labels, body) == [labels |-> labels, body |-> body]
Case(selector, arms, else) ==
    [kind |-> "Case", condition |-> selector, caseArms |-> arms,
     elseBranch |-> else]

(* Declarations.                                                            *)

Scalar(name, type) == [name |-> name, type |-> type]
VarParam(name, type) == [name |-> name, type |-> type, isVar |-> TRUE]
IsVar(param) == "isVar" \in DOMAIN param
Array(name, low, high, element) ==
    [name |-> name, type |-> "ArrayRef", low |-> low, high |-> high,
     element |-> element]
Record(name, fields) == [name |-> name, type |-> "Record", fields |-> fields]

Subprogram(name, returnType, params, vars, statements) ==
    [name |-> name, returnType |-> returnType, params |-> params,
     vars |-> vars, statements |-> statements]
IsFunction(sub) == sub.returnType # "Void"

Program(consts, vars, subprograms, statements) ==
    [consts |-> consts, vars |-> vars, subprograms |-> subprograms,
     statements |-> statements]

---------------------------------------------------------------------------
(* The tree as the parser leaves it: type denoters, and the declarations of *)
(* a block with the names each of them declares.                            *)

NoDenoter == [kind |-> "None"]
NamedType(name) == [kind |-> "Named", name |-> name]
ArrayType(low, high, element) ==
    [kind |-> "Array", indexLow |-> low, indexHigh |-> high, element |-> element]
RecordType(fields) == [kind |-> "Record", fields |-> fields]
FileType(element) == [kind |-> "File", element |-> element]

ConstDecl(name, value) == [name |-> name, value |-> value]
TypeDecl(name, type) == [name |-> name, type |-> type]
VarDecl(names, type) == [names |-> names, type |-> type]
ParamDecl(names, type, isVar) == [names |-> names, type |-> type, isVar |-> isVar]
Block(consts, types, vars, subprograms, statements) ==
    [consts |-> consts, types |-> types, vars |-> vars,
     subprograms |-> subprograms, statements |-> statements]
SubprogramDecl(name, isFunction, returnType, params, block) ==
    [name |-> name, isFunction |-> isFunction, returnType |-> returnType,
     params |-> params, block |-> block]

---------------------------------------------------------------------------
(* The declaration of `name` in a sequence that declares it.                *)
Named(decls, name) == decls[CHOOSE k \in DOMAIN decls : decls[k].name = name]
Declares(decls, name) == \E k \in DOMAIN decls : decls[k].name = name
==============================================================================
