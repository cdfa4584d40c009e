------------------------------ MODULE SymbolTable ------------------------------
(***************************************************************************)
(* The scoped symbol table (src/pascal/semantic/SymbolTable.cpp): a stack  *)
(* of scopes, each a map from names to symbols, searched from the top.  A  *)
(* name stands for its folded spelling, which is the key of every map.     *)
(***************************************************************************)
EXTENDS Integers, Sequences

CONSTANTS Names,     \* the folded names of a program
          Symbols,   \* the symbols a table can hold
          NoSymbol   \* what a lookup gives for a name nobody has declared

ASSUME NoSymbolIsNoSymbol == NoSymbol \notin Symbols

VARIABLE scopes      \* SymbolTable::scopes_, the innermost last

(* The operations, on the value of a table.                                 *)

EmptyScope == [name \in {} |-> NoSymbol]
NewTable == <<EmptyScope>>
PushScope(table) == Append(table, EmptyScope)
(* Mutant of PopScope: it closes the scope around it as well.               *)
PopTwice(table) == IF table = <<>> THEN table ELSE SubSeq(table, 1, Len(table) - 2)
PopScope(table) == IF table = <<>> THEN table ELSE SubSeq(table, 1, Len(table) - 1)

(* The scope a declaration goes to.                                         *)
Ready(table) == IF table = <<>> THEN PushScope(table) ELSE table
IsFree(table, name) ==
    LET ready == Ready(table) IN name \notin DOMAIN ready[Len(ready)]
With(scope, name, symbol) ==
    [x \in DOMAIN scope \cup {name} |-> IF x = name THEN symbol ELSE scope[x]]

(* Mutant of Declare: the second declaration of a name replaces the first.  *)
Redeclare(table, name, symbol) ==
    LET ready == Ready(table)
    IN  [ready EXCEPT ![Len(ready)] = With(@, name, symbol)]

(* A name is declared once in a scope; a second declaration changes nothing *)
(* (its diagnosis is the caller's, who asks IsFree).                        *)
Declare(table, name, symbol) ==
    LET ready == Ready(table)
    IN  IF IsFree(table, name)
        THEN [ready EXCEPT ![Len(ready)] = With(@, name, symbol)] ELSE ready

(* The innermost scope that declares the name has its symbol.               *)
Holders(table, name) == {k \in DOMAIN table : name \in DOMAIN table[k]}
Innermost(levels) == CHOOSE k \in levels : \A j \in levels : j <= k
(* Mutant of Lookup: the search starts from the outermost scope.            *)
LookupOutermost(table, name) ==
    LET levels == Holders(table, name)
    IN  IF levels = {} THEN NoSymbol
        ELSE table[CHOOSE k \in levels : \A j \in levels : k <= j][name]
Lookup(table, name) ==
    LET levels == Holders(table, name)
    IN  IF levels = {} THEN NoSymbol ELSE table[Innermost(levels)][name]

---------------------------------------------------------------------------
(* A table under any sequence of calls of its public operations.            *)

InitTable == scopes = NewTable
Push == scopes' = PushScope(scopes)
Pop == scopes' = PopScope(scopes)
Declaration(name, symbol) == scopes' = Declare(scopes, name, symbol)

NextTable ==
    \/ Push
    \/ Pop
    \/ \E name \in Names, symbol \in Symbols : Declaration(name, symbol)

TableSpec == InitTable /\ [][NextTable]_scopes

---------------------------------------------------------------------------
(* The first k scopes of a table are what the k-th block sees.              *)
Below(table, k) == SubSeq(table, 1, k)
Seen(table) ==
    [k \in DOMAIN table |-> [name \in Names |-> Lookup(Below(table, k), name)]]
Owned(table) == [k \in DOMAIN table |-> Names \cap DOMAIN table[k]]

(* Searching a stack of partial maps implements block structure: however    *)
(* declarations, blocks and their ends follow each other, a lookup finds    *)
(* what the innermost block around the place declares, and leaving a scope  *)
(* restores what was visible before it (lookup, popScope).                  *)
Blocks == INSTANCE Environment WITH
    visible <- Seen(scopes), own <- Owned(scopes),
    Meanings <- Symbols, Unbound <- NoSymbol
ImplementsEnvironment == Blocks!Spec
================================================================================
