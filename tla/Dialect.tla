-------------------------------- MODULE Dialect --------------------------------
(***************************************************************************)
(* Which programs belong to the dialect (docs/pascal-dialect.md), as a     *)
(* language definition says it: what a name means is the first of its      *)
(* declarations before the place, in the innermost block that has one;     *)
(* operators and functions have signatures; a phrase is well-formed when a *)
(* type can be derived for it.  There is no table that changes, no order   *)
(* of checks and no recovery: IllFormed gives the declarations and         *)
(* statements of a program that break a rule.  What mentions a declaration *)
(* that breaks one itself is not held against the program twice.           *)
(***************************************************************************)
EXTENDS Ast, Sequencing

LOCAL INSTANCE SequencesExt

CONSTANTS VmIntMax, \* the greatest integer of the target
          RealMax   \* the greatest real, in quarters

Place(path, part, k) == [path |-> path, part |-> part, k |-> k]

---------------------------------------------------------------------------
(* Types, without aliases.  Unknown is the type of what is ill-formed.          *)

Simple(tag) == [tag |-> tag]
Unknown == Simple("Unknown")
IsUnknown(type) == type.tag = "Unknown"

(* Assignability: the same type, widening, and structure for structure,     *)
(* with the same bounds wherever there are arrays.  A file has none.        *)
RECURSIVE Assignable(_, _)
Assignable(to, from) ==
    \/ IsUnknown(to) \/ IsUnknown(from)
    \/ to.tag = "Real" /\ from.tag = "Integer"
    \/ /\ to.tag = from.tag
       /\ to.tag \notin {"Text", "File"}
       /\ to.tag = "Array" =>
            /\ to.low = from.low /\ to.high = from.high
            /\ Assignable(to.element, from.element)
       /\ to.tag = "Record" =>
            /\ Len(to.fields) = Len(from.fields)
            /\ \A k \in DOMAIN to.fields :
                 /\ to.fields[k].name = from.fields[k].name
                 /\ Assignable(to.fields[k].type, from.fields[k].type)

Numeric == {"Integer", "Real"}
Components == {"Integer", "Real", "Boolean", "Char"}
MayBeComponent(type) ==
    \/ type.tag \in Components
    \/ /\ type.tag = "Record"
       /\ \A k \in DOMAIN type.fields : type.fields[k].type.tag \in Components

Signatures(op) ==
    CASE op \in {"Plus", "Minus", "Star"} ->
           {<<a, b, IF a = b THEN a ELSE "Real">> : a, b \in Numeric}
      [] op = "Slash" -> {<<a, b, "Real">> : a, b \in Numeric}
      [] op \in {"Div", "Mod"} -> {<<"Integer", "Integer", "Integer">>}
      [] op \in {"And", "Or"} -> {<<"Boolean", "Boolean", "Boolean">>}
      [] OTHER -> {<<a, b, "Boolean">> : a, b \in Numeric}
                  \cup {<<a, a, "Boolean">> : a \in {"Char", "Boolean"}}

(* The table of standard functions: what each takes and gives.              *)
Ordinals == {"Integer", "Char", "Boolean"}
StdSignatures(name) ==
    CASE name = "ord" -> {<<a, "Integer">> : a \in Ordinals}
      [] name \in {"succ", "pred"} -> {<<a, a>> : a \in Ordinals}
      [] name = "chr" -> {<<"Integer", "Char">>}
      [] name = "odd" -> {<<"Integer", "Boolean">>}
      [] name \in {"abs", "sqr"} -> {<<a, a>> : a \in Numeric}
      [] name \in {"trunc", "round"} -> {<<"Real", "Integer">>}
      [] OTHER -> {<<a, "Real">> : a \in Numeric}
StdFunctions ==
    {"ord", "chr", "succ", "pred", "odd", "abs", "sqr", "trunc", "round",
     "sqrt", "sin", "cos", "arctan", "ln", "exp"}
FileCommands == {"assign", "reset", "rewrite", "close"}
FileTests == {"eof", "eoln"}
Console == {"write", "writeln", "read", "readln"}
PredeclaredTypes ==
    [integer |-> "Integer", real |-> "Real", boolean |-> "Boolean",
     char |-> "Char", string |-> "String", text |-> "Text"]

---------------------------------------------------------------------------
(* Declarations and views.  A block declares the items of a sequence, each  *)
(* with the first item of its own declaration; a view is what a place sees: *)
(* the items before it in its block, and the view of the block around it.   *)

Item(name, is, phrase, start, at) ==
    [name |-> name, is |-> is, phrase |-> phrase, start |-> start, at |-> at]

RECURSIVE ItemsOf(_, _, _, _, _)
(* The items of the declarations decls from the k-th on, after `items`.     *)
ItemsOf(items, decls, is, at, k) ==
    IF k > Len(decls) THEN items
    ELSE LET names == IF "names" \in DOMAIN decls[k] THEN decls[k].names
                      ELSE <<decls[k].name>>
             place == Place(at.path, at.part, k)
         IN  ItemsOf(items \o [j \in DOMAIN names |->
                                  Item(names[j], is, decls[k], Len(items) + 1, place)],
                     decls, is, at, k + 1)

BlockItems(given, block, path) ==
    LET In(items, decls, is, part) == ItemsOf(items, decls, is, Place(path, part, 1), 1)
    IN  In(In(In(In(given, block.consts, "const", "consts"),
                 block.types, "type", "types"),
              block.vars, "var", "vars"),
           block.subprograms, "subprogram", "subprograms")

NoView == [items |-> <<>>, upto |-> 0, outer |-> <<>>, sub |-> <<>>]
View(items, outer, sub) ==
    [items |-> items, upto |-> Len(items), outer |-> outer, sub |-> sub]
Before(view, index) == [view EXCEPT !.upto = view.items[index].start - 1]

(* The first declaration of a name in a block is the one that counts.       *)
Indices(view, name) == {k \in 1..view.upto : view.items[k].name = name}
First(ks) == CHOOSE k \in ks : \A j \in ks : k <= j

Predeclared(name) ==
    Item(name, IF name \in DOMAIN PredeclaredTypes THEN "predeclared type"
               ELSE IF name \in {"true", "false"} THEN "truth value"
               ELSE IF name \in StdFunctions \cup FileCommands \cup FileTests \cup Console
               THEN "builtin" ELSE "nothing", <<>>, 0, <<>>)
IsPredeclared(name) == Predeclared(name).is # "nothing"

(* What a name means in a view: its item, the view its declaration has, and *)
(* whether it belongs to the place's own block.  The predeclared names      *)
(* belong to the program's block and come first in it.                      *)
RECURSIVE Meaning(_, _, _)
Meaning(view, name, own) ==
    LET ks == Indices(view, name)
    IN  IF view.outer = <<>> /\ (ks = {} \/ IsPredeclared(name))
        THEN [item |-> Predeclared(name), view |-> NoView, own |-> FALSE]
        ELSE IF ks # {}
        THEN [item |-> view.items[First(ks)], view |-> Before(view, First(ks)),
              own |-> own]
        ELSE Meaning(view.outer[1], name, FALSE)
Means(view, name) == Meaning(view, name, TRUE)

---------------------------------------------------------------------------
(* Constants: the values a phrase has as a constant of an ordinal type, one *)
(* or none.                                                                 *)
RECURSIVE Constant(_, _, _)
Constant(view, e, tag) ==
    CASE e.kind = "Group" -> Constant(view, e.left, tag)
      [] e.kind = "IntegerLiteral" -> IF tag = "Integer" THEN {e.n} ELSE {}
      [] e.kind = "CharLiteral" -> IF tag = "Char" THEN {e.n} ELSE {}
      [] e.kind = "Unary" ->
           IF e.unaryOp = "Minus" /\ tag = "Integer"
           THEN {-n : n \in Constant(view, e.left, tag)} ELSE {}
      [] e.kind = "Identifier" ->
           Then(Means(view, e.text), LAMBDA m :
               IF m.item.is = "const" THEN Constant(m.view, m.item.phrase.value, tag)
               ELSE IF m.item.is = "truth value" /\ tag = "Boolean"
               THEN {IF e.text = "true" THEN 1 ELSE 0} ELSE {})
      [] OTHER -> {}

(* A constant has the type of its literal; a real has to be in range too.   *)
LiteralTags == [IntegerLiteral |-> "Integer", RealLiteral |-> "Real",
                CharLiteral |-> "Char", StringLiteral |-> "String"]
RECURSIVE Ungrouped(_)
Ungrouped(e) == IF e.kind = "Group" THEN Ungrouped(e.left) ELSE e
LiteralTypes(e) ==
    {Simple(LiteralTags[kind]) : kind \in {Ungrouped(e).kind} \cap DOMAIN LiteralTags}
InRange(e) == Ungrouped(e).kind = "RealLiteral" => Ungrouped(e).n <= RealMax

(* Types a denoter stands for: one, or none if it breaks a rule.            *)
RECURSIVE Denoted(_, _)
OrUnknown(types) == IF types = {} THEN Unknown ELSE CHOOSE t \in types : TRUE
TypeOfItem(m) ==
    IF m.item.is = "predeclared type" THEN {Simple(PredeclaredTypes[m.item.name])}
    ELSE IF m.item.is = "type" THEN {OrUnknown(Denoted(m.view, m.item.phrase.type))}
    ELSE {}
DenotedFields(view, decls) ==
    FlattenSeq([k \in DOMAIN decls |->
        [j \in DOMAIN decls[k].names |->
            [name |-> decls[k].names[j], types |-> Denoted(view, decls[k].type)]]])
Denoted(view, denoter) ==
    CASE denoter.kind = "Named" -> TypeOfItem(Means(view, denoter.name))
      [] denoter.kind = "Array" ->
           {[tag |-> "Array", low |-> b[1], high |-> b[2], element |-> t] :
               b \in {x \in Constant(view, denoter.indexLow, "Integer")
                            \X Constant(view, denoter.indexHigh, "Integer") :
                        /\ -VmIntMax <= x[1] + 1 /\ x[1] <= x[2] /\ x[2] <= VmIntMax
                        /\ x[2] - x[1] < VmIntMax},
               t \in Denoted(view, denoter.element)}
      [] denoter.kind = "File" ->
           IF denoter.element = NoDenoter THEN {}
           ELSE {IF IsUnknown(t) THEN Unknown ELSE [tag |-> "File", element |-> t] :
                    t \in {x \in Denoted(view, denoter.element) :
                               IsUnknown(x) \/ MayBeComponent(x)}}
      [] denoter.kind = "Record" ->
           LET fields == DenotedFields(view, denoter.fields)
           IN  IF /\ \A k \in DOMAIN fields :
                       /\ \E t \in fields[k].types : t.tag # "Record"
                       /\ \A j \in 1..k - 1 : fields[j].name # fields[k].name
               THEN {[tag |-> "Record",
                      fields |-> [k \in DOMAIN fields |->
                                     [name |-> fields[k].name,
                                      type |-> OrUnknown(fields[k].types)]]]}
               ELSE {}

---------------------------------------------------------------------------
(* Expressions: the types that can be derived, one or none.  An unknown     *)
(* operand makes the whole unknown.                                         *)

(* A phrase all of whose parts have a type; `types` if none is unknown.     *)
Derive(parts, types) ==
    IF \E k \in DOMAIN parts : parts[k] = {} THEN {}
    ELSE IF \E k \in DOMAIN parts : \E t \in parts[k] : IsUnknown(t) THEN {Unknown}
    ELSE types

VariableItems == {"var", "param"}
IsVariable(view, e) ==
    e.kind = "Identifier" /\ Means(view, e.text).item.is \in VariableItems
SignatureOf(sub) ==
    FlattenSeq([k \in DOMAIN sub.params |->
        [j \in DOMAIN sub.params[k].names |->
            [type |-> sub.params[k].type, isVar |-> sub.params[k].isVar]]])

RECURSIVE Types(_, _)
TypesOfAll(view, es) == [k \in DOMAIN es |-> Types(view, es[k])]
(* Storing e in a variable of one of the types `to`.  An array takes only   *)
(* what is known to have its bounds.                                        *)
Storable(to, view, e) ==
    \E t \in to, f \in Types(view, e) :
        Assignable(t, f) /\ (IsUnknown(f) => t.tag # "Array")

(* A parameter takes an argument: a variable if it is var, an array by name.*)
Takes(formal, types, view, arg) ==
    \E t \in types :
        /\ formal.isVar => t.tag # "Array" /\ IsVariable(view, arg)
        /\ t.tag = "Array" => arg.kind = "Identifier"
        /\ Storable({t}, view, arg)
Passes(view, m, args) ==
    LET formals == SignatureOf(m.item.phrase)
    IN  /\ Len(args) = Len(formals)
        /\ \A k \in DOMAIN args :
               LET types == Denoted([m.view EXCEPT !.upto = m.item.start],
                                    formals[k].type)
               IN  Takes(formals[k], {OrUnknown(types)}, view, args[k])
ResultTypes(m) ==
    IF m.item.phrase.isFunction
    THEN {OrUnknown(Denoted(m.view, m.item.phrase.returnType))} ELSE {}

IsFile(view, e, tags) ==
    IsVariable(view, e) /\ \E t \in Types(view, e) : t.tag \in tags
BuiltinTypes(view, name, args) ==
    IF name \in FileTests
    THEN IF /\ Len(args) = 1
            /\ IsFile(view, args[1], IF name = "eof" THEN {"Text", "File"} ELSE {"Text"})
         THEN {Simple("Boolean")} ELSE {}
    ELSE IF name \in StdFunctions /\ Len(args) = 1
    THEN LET Out(tag, out) == \E n \in Constant(view, args[1], tag) : n \notin out
             given == {t.tag : t \in Types(view, args[1])}
         IN  Derive(TypesOfAll(view, args),
                 IF \/ name = "chr" /\ Out("Integer", 0..255)
                    \/ name = "succ" /\ Out("Boolean", {0})
                    \/ name = "pred" /\ Out("Boolean", {1})
                 THEN {}
                 ELSE {Simple(s[2]) : s \in {x \in StdSignatures(name) :
                                                x[1] \in given}})
    ELSE {}

CallTypes(view, name, args) ==
    IF \E k \in DOMAIN args : Types(view, args[k]) = {} THEN {}
    ELSE Then(Means(view, name), LAMBDA m :
             CASE m.item.is = "subprogram" ->
                    IF Passes(view, m, args) THEN ResultTypes(m) ELSE {}
               [] m.item.is = "builtin" -> BuiltinTypes(view, name, args)
               [] OTHER -> {})

NameTypes(view, name) ==
    Then(Means(view, name), LAMBDA m :
        CASE m.item.is = "const" -> {OrUnknown(LiteralTypes(m.item.phrase.value))}
          [] m.item.is = "truth value" -> {Simple("Boolean")}
          [] m.item.is \in VariableItems /\ (view.sub = <<>> \/ m.own) ->
               {OrUnknown(Denoted(m.view, m.item.phrase.type))}
          [] m.item.is = "subprogram" -> CallTypes(view, name, <<>>)
          [] OTHER -> {})

Types(view, e) ==
    CASE e.kind \in {"IntegerLiteral", "RealLiteral", "CharLiteral",
                     "StringLiteral"} -> {t \in LiteralTypes(e) : InRange(e)}
      [] e.kind = "Group" -> Types(view, e.left)
      [] e.kind = "Identifier" -> NameTypes(view, e.text)
      [] e.kind = "Unary" ->
           LET given == Types(view, e.left)
           IN  Derive(<<given>>,
                      {t \in given : t.tag \in IF e.unaryOp = "Not" THEN {"Boolean"}
                                               ELSE Numeric})
      [] e.kind = "Binary" ->
           LET l == Types(view, e.left)
               r == Types(view, e.right)
           IN  Derive(<<l, r>>,
                      {Simple(s[3]) : s \in {x \in Signatures(e.binaryOp) :
                           /\ x[1] \in {t.tag : t \in l}
                           /\ x[2] \in {t.tag : t \in r}}})
      [] e.kind = "Call" -> CallTypes(view, e.text, e.args)
      [] e.kind = "Select" ->
           LET l == Types(view, e.left)
           IN  Derive(<<l>>, UNION {{t.fields[k].type :
                                        k \in {j \in DOMAIN t.fields :
                                                  t.fields[j].name = e.text}} :
                                    t \in {x \in l : x.tag = "Record"}})
      [] e.kind = "Index" ->
           LET l == Types(view, e.left)
               r == Types(view, e.right)
           IN  Derive(<<l, r>>, IF Simple("Integer") \notin r THEN {}
                                ELSE {t.element : t \in {x \in l : x.tag = "Array"}})

(* A phrase may stand where one of these is wanted.                         *)
Is(view, e, tags) == \E t \in Types(view, e) : IsUnknown(t) \/ t.tag \in tags

---------------------------------------------------------------------------
(* Statements.                                                              *)

(* What a write takes and what a read fills, by kind of file.               *)
Printable == {"Integer", "Real", "Char", "String"}
Readable(kind) ==
    {"Integer", "Real", "Char"} \cup IF kind = "Text" THEN {"String"} ELSE {}
ToFile(view, args) == args # <<>> /\ IsFile(view, args[1], {"Text", "File"})
Moves(view, name, kind, args) ==
    LET Each(P(_)) == \A k \in DOMAIN args : P(args[k])
        Component(t) == \/ Assignable(kind.element, t)
                        \/ name = "read" /\ Assignable(t, kind.element)
    IN  /\ Each(LAMBDA e : Types(view, e) # {})
        /\ name \in {"read", "readln"} =>
               args # <<>> /\ Each(LAMBDA e : IsVariable(view, e))
        /\ IF kind.tag = "File"
           THEN \/ args = <<>>
                \/ /\ name \in {"read", "write"} /\ Len(args) = 1
                   /\ \E t \in Types(view, args[1]) : Component(t)
           ELSE LET wanted == IF name \in {"read", "readln"}
                              THEN Readable(kind.tag) ELSE Printable
                IN  Each(LAMBDA e : Is(view, e, wanted))
Transfers(view, name, args) ==
    IF ToFile(view, args)
    THEN \A kind \in Types(view, args[1]) : Moves(view, name, kind, Tail(args))
    ELSE Moves(view, name, Simple("Console"), args)

Commands(view, name, args) ==
    /\ ToFile(view, args)
    /\ name = "close" => Len(args) = 1
    /\ name = "assign" => Len(args) = 2
    /\ Len(args) <= 2
    /\ Len(args) = 2 => \E t \in Types(view, args[2]) : t.tag \in {"String", "Char"}

CallOk(view, name, args) ==
    \E m \in {Means(view, name)} :
        \/ m.item.is = "subprogram" /\ Passes(view, m, args)
        \/ /\ m.item.is = "builtin"
           /\ \/ name \in Console /\ Transfers(view, name, args)
              \/ name \in FileCommands /\ Commands(view, name, args)

(* The types a value may have to be assigned: of the variable, of a field,  *)
(* or of an element of either.                                              *)
WholeTypes(view, name) ==
    Then(Means(view, name), LAMBDA m :
        IF m.item.is \in VariableItems THEN NameTypes(view, name)
        ELSE IF /\ m.item.is = "subprogram" /\ view.sub # <<>>
                /\ m.item.phrase = view.sub[1]
        THEN ResultTypes(m) ELSE {})
PartTypes(whole, field) ==
    IF field = "none" THEN {whole}
    ELSE IF IsUnknown(whole) THEN {Unknown}
    ELSE IF whole.tag # "Record" THEN {}
    ELSE {f.type : f \in {x \in Range(whole.fields) : x.name = field}}
TargetTypes(view, s) ==
    LET parts == UNION {PartTypes(t, s.fieldName) : t \in WholeTypes(view, s.name)}
    IN  IF s.index = NoExpr THEN parts
        ELSE IF ~Is(view, s.index, {"Integer"}) THEN {}
        ELSE {IF IsUnknown(t) THEN Unknown ELSE t.element :
                 t \in {x \in parts : x.tag \in {"Array", "Unknown"}}}
AssignOk(view, s) ==
    \E t \in TargetTypes(view, s) :
        /\ Storable({t}, view, s.value)
        /\ t.tag = "Array" => s.value.kind \in {"Identifier", "Select"}

(* case: labels of the selector's type, constant, none of them twice.       *)
Values(view, label, tag) ==
    UNION {a..b : a \in Constant(view, label.lo, tag),
                  b \in Constant(view, IF label.hi = NoExpr THEN label.lo ELSE label.hi, tag)}
LabelOk(view, label, tag) ==
    /\ Is(view, label.lo, {tag})
    /\ label.hi # NoExpr => tag # "Boolean" /\ Is(view, label.hi, {tag})

LabelsOk(view, labels, tag) ==
    \E values \in {[k \in DOMAIN labels |-> Values(view, labels[k], tag)]} :
        /\ \A k \in DOMAIN labels : LabelOk(view, labels[k], tag) /\ values[k] # {}
        /\ \A k \in DOMAIN labels : \A j \in 1..k - 1 : values[j] \cap values[k] = {}

RECURSIVE Ok(_, _)
CaseOk(view, s) ==
    /\ \E labels \in {FlattenSeq([k \in DOMAIN s.caseArms |-> s.caseArms[k].labels])} :
         /\ \E t \in Types(view, s.condition) :
              \/ IsUnknown(t)
              \/ t.tag \in Ordinals /\ LabelsOk(view, labels, t.tag)
         /\ \A k \in DOMAIN labels :
                Types(view, labels[k].lo) # {}
                /\ (labels[k].hi # NoExpr => Types(view, labels[k].hi) # {})
    /\ \A k \in DOMAIN s.caseArms : Ok(view, s.caseArms[k].body)
    /\ Ok(view, s.elseBranch)
Ok(view, s) ==
    CASE s.kind = "None" -> TRUE
      [] s.kind = "Compound" -> \A k \in DOMAIN s.statements : Ok(view, s.statements[k])
      [] s.kind = "Assign" -> AssignOk(view, s)
      [] s.kind = "Call" -> CallOk(view, s.name, s.args)
      [] s.kind = "If" ->
           /\ Is(view, s.condition, {"Boolean"})
           /\ Ok(view, s.thenBranch) /\ Ok(view, s.elseBranch)
      [] s.kind = "While" ->
           Is(view, s.condition, {"Boolean"}) /\ Ok(view, s.thenBranch)
      [] s.kind = "Repeat" ->
           /\ \A k \in DOMAIN s.statements : Ok(view, s.statements[k])
           /\ Is(view, s.condition, {"Boolean"})
      [] s.kind = "For" ->
           /\ IsVariable(view, Identifier(s.name, ""))
           /\ Is(view, Identifier(s.name, ""), {"Integer"})
           /\ Is(view, s.value, {"Integer"}) /\ Is(view, s.forLimit, {"Integer"})
           /\ Ok(view, s.thenBranch)
      [] s.kind = "Case" -> CaseOk(view, s)

---------------------------------------------------------------------------
(* The declarations and statements of a block that break a rule.            *)

DeclarationOk(view, item) ==
    CASE item.is = "const" ->
           LiteralTypes(item.phrase.value) # {} /\ InRange(item.phrase.value)
      [] item.is \in {"type", "var"} -> Denoted(view, item.phrase.type) # {}
      [] item.is = "param" ->
           \E t \in Denoted(view, item.phrase.type) :
               t.tag # "Record" /\ (item.phrase.isVar => t.tag # "Array")
      [] item.is = "subprogram" ->
           item.phrase.isFunction =>
               \E t \in Denoted(view, item.phrase.returnType) :
                   t.tag \notin {"Array", "Record"}
      [] OTHER -> TRUE
IsSecond(view, index) ==
    LET name == view.items[index].name
    IN  \/ \E k \in 1..index - 1 : view.items[k].name = name
        \/ view.outer = <<>> /\ IsPredeclared(name)

RECURSIVE IllPlaces(_, _, _)
IllPlaces(view, block, path) ==
    LET Within(k) ==
            LET sub == block.subprograms[k]
                inside == Append(path, k)
                index == CHOOSE i \in DOMAIN view.items :
                             view.items[i].at = Place(path, "subprograms", k)
                params == ItemsOf(<<>>, sub.params, "param", Place(inside, "params", 1), 1)
            IN  (IF sub.block.subprograms = <<>> THEN {} ELSE {Place(inside, "body", 1)})
                \cup IllPlaces(View(BlockItems(params, sub.block, inside),
                                    <<[view EXCEPT !.upto = index]>>, <<sub>>),
                               sub.block, inside)
    IN  {view.items[i].at : i \in {j \in DOMAIN view.items :
            IsSecond(view, j) \/ ~DeclarationOk(Before(view, j), view.items[j])}}
        \cup {Place(path, "statements", k) : k \in {j \in DOMAIN block.statements :
                                                       ~Ok(view, block.statements[j])}}
        \cup UNION {Within(k) : k \in DOMAIN block.subprograms}
IllFormed(program) ==
    LET itself == Item(program.name, "program", <<>>, 1, Place(<<>>, "program", 1))
    IN  IllPlaces(View(BlockItems(<<itself>>, program.block, <<>>), <<>>, <<>>),
                  program.block, <<>>)
================================================================================
