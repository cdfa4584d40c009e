--------------------------------- MODULE Types ---------------------------------
(***************************************************************************)
(* Semantic types (src/pascal/semantic/Type.cpp) and the relations the     *)
(* analyser decides between them (Analyse.cpp).  A type is a tag with what *)
(* the tag needs; an alias keeps the type it stands for.                   *)
(***************************************************************************)
EXTENDS Integers, Sequences

MakePredefined(tag) == [tag |-> tag]
MakeError == MakePredefined("Error")
MakeArray(element, low, high) ==
    [tag |-> "Array", element |-> element, low |-> low, high |-> high]
MakeRecord(fields) == [tag |-> "Record", fields |-> fields]
MakeFile(element) == [tag |-> "File", element |-> element]
MakeAlias(name, type) == [tag |-> "Alias", name |-> name, canonical |-> type]

RECURSIVE PeelAliases(_)
PeelAliases(type) ==
    IF type.tag = "Alias" THEN PeelAliases(type.canonical) ELSE type
CanonicalTag(type) == PeelAliases(type).tag
IsError(type) == CanonicalTag(type) = "Error"

(* Mutant of IsAssignable: widening goes both ways.                         *)
IsConvertible(dest, src) ==
    LET d == PeelAliases(dest)
        s == PeelAliases(src)
    IN  \/ "Error" \in {d.tag, s.tag}
        \/ /\ {d.tag, s.tag} \cap {"Text", "File"} = {}
           /\ d.tag = s.tag \/ {d.tag, s.tag} = {"Real", "Integer"}

(* A value of type src may be kept in a variable of type dest.  An array    *)
(* asks for assignable elements; its bounds are compared by SameShape.      *)
RECURSIVE IsAssignable(_, _)
SameShape(d, s) ==
    /\ d.tag = "Array" /\ s.tag = "Array"
    /\ d.low = s.low /\ d.high = s.high
IsAssignable(dest, src) ==
    LET d == PeelAliases(dest)
        s == PeelAliases(src)
        FieldsMatch(f, g) ==
            LET df == PeelAliases(f.type)
                sf == PeelAliases(g.type)
            IN  /\ f.name = g.name
                /\ df.tag = "Array" /\ sf.tag = "Array" => SameShape(df, sf)
                /\ IsAssignable(df, sf)
    IN  \/ "Error" \in {d.tag, s.tag}
        \/ /\ {d.tag, s.tag} \cap {"Text", "File"} = {}
           /\ \/ d.tag = "Real" /\ s.tag = "Integer"
              \/ /\ d.tag = s.tag
                 /\ d.tag = "Array" => IsAssignable(d.element, s.element)
                 /\ d.tag = "Record" =>
                      /\ Len(d.fields) = Len(s.fields)
                      /\ \A k \in DOMAIN d.fields :
                             FieldsMatch(d.fields[k], s.fields[k])

ArrayTypesSameShape(dest, src) ==
    /\ SameShape(PeelAliases(dest), PeelAliases(src))
    /\ IsAssignable(dest, src)

(* The fields of that name: one of a record, none of anything else.         *)
FieldsNamed(type, name) ==
    LET record == PeelAliases(type)
    IN  IF record.tag # "Record" THEN {}
        ELSE {k \in DOMAIN record.fields : record.fields[k].name = name}
FieldType(type, name) ==
    PeelAliases(type).fields[CHOOSE k \in FieldsNamed(type, name) : TRUE].type

(* Elements of an array, components of a file: an error has neither.        *)
ElementType(type) ==
    LET whole == PeelAliases(type)
    IN  IF whole.tag \in {"Array", "File"} THEN whole.element ELSE MakeError

(* What a file can hold.                                                    *)
ComponentTags == {"Integer", "Real", "Boolean", "Char"}
IsComponent(type) ==
    LET whole == PeelAliases(type)
    IN  \/ whole.tag \in ComponentTags
        \/ /\ whole.tag = "Record"
           /\ \A k \in DOMAIN whole.fields :
                  CanonicalTag(whole.fields[k].type) \in ComponentTags

IsNumeric(tag) == tag \in {"Integer", "Real"}
IsOrdinal(tag) == tag \in {"Integer", "Char", "Boolean"}
IsPrintable(tag) == tag \in {"Integer", "Real", "Char", "String"}
IsReadable(tag) == tag \in {"Integer", "Real", "Char"}

---------------------------------------------------------------------------
(* Mutant of BinaryTag: the quotient of two integers is an integer.         *)
QuotientTag(op, lt, rt) ==
    CASE op \in {"Plus", "Minus", "Star", "Slash"} /\ IsNumeric(lt) /\ IsNumeric(rt) ->
           IF lt = "Integer" /\ rt = "Integer" THEN "Integer" ELSE "Real"
      [] op \in {"Div", "Mod"} -> "Integer"
      [] OTHER -> "Boolean"
(* The type of an operator applied to operands with these tags, or Error.   *)
BinaryTag(op, lt, rt) ==
    CASE op \in {"Plus", "Minus", "Star"} /\ IsNumeric(lt) /\ IsNumeric(rt) ->
           IF lt = "Integer" /\ rt = "Integer" THEN "Integer" ELSE "Real"
      [] op = "Slash" /\ IsNumeric(lt) /\ IsNumeric(rt) -> "Real"
      [] op \in {"Div", "Mod"} /\ lt = "Integer" /\ rt = "Integer" -> "Integer"
      [] op \in {"And", "Or"} /\ lt = "Boolean" /\ rt = "Boolean" -> "Boolean"
      [] /\ op \in {"Equal", "NotEqual", "Less", "LessEqual", "Greater",
                    "GreaterEqual"}
         /\ \/ IsNumeric(lt) /\ IsNumeric(rt)
            \/ lt = rt /\ lt \in {"Char", "Boolean"} -> "Boolean"
      [] OTHER -> "Error"

UnaryTag(op, tag) ==
    CASE op \in {"Plus", "Minus"} /\ IsNumeric(tag) -> tag
      [] op = "Not" /\ tag = "Boolean" -> "Boolean"
      [] OTHER -> "Error"

(* The standard functions: the arguments one takes, and what it gives.      *)
MathFuncs == {"sqrt", "sin", "cos", "arctan", "ln", "exp"}
StdFuncs == MathFuncs \cup {"ord", "chr", "succ", "pred", "odd", "abs", "sqr",
                            "trunc", "round"}
StdArgument(name) ==
    CASE name \in {"ord", "succ", "pred"} -> {"Integer", "Char", "Boolean"}
      [] name \in {"chr", "odd"} -> {"Integer"}
      [] name \in {"trunc", "round"} -> {"Real"}
      [] OTHER -> {"Integer", "Real"}
StdResult(name, argument) ==
    CASE name \in {"ord", "trunc", "round"} -> MakePredefined("Integer")
      [] name = "chr" -> MakePredefined("Char")
      [] name = "odd" -> MakePredefined("Boolean")
      [] name \in MathFuncs -> MakePredefined("Real")
      [] OTHER -> argument
================================================================================
