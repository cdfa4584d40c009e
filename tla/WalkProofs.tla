------------------------------ MODULE WalkProofs ------------------------------
(***************************************************************************)
(* The symbol table implements block structure, whatever the names, the    *)
(* symbols and the order in which its operations are called; and the walk  *)
(* of semantic analysis, whatever the tree and the rules, keeps its scopes *)
(* and its context in step with the tree and so uses the table as blocks.  *)
(***************************************************************************)
EXTENDS Walk, SequenceTheorems, WellFoundedInduction, TLAPS

(* Every scope maps some names to symbols, and a table is a stack of scopes. *)
Scope == UNION {[some -> Symbols] : some \in SUBSET Names}
Tables == Seq(Scope)
TableTypeOK == scopes \in Tables
Meanings == Symbols \cup {NoSymbol}

(* There is an innermost level: the one with the fewest levels above it.    *)
LEMMA InnermostExists ==
    ASSUME NEW n \in Nat, NEW levels \in SUBSET (1..n), levels # {}
    PROVE  /\ Innermost(levels) \in levels
           /\ \A j \in levels : j <= Innermost(levels)
<1> DEFINE R == OpToRel(<, Nat)
           T == {n - k : k \in levels}
<1>1. IsWellFoundedOn(R, Nat)
  BY NatLessThanWellFounded
<1>2. T \subseteq Nat /\ T # {}
  <2> HIDE DEF R
  <2>1. \A k \in levels : k \in 1..n /\ n - k \in Nat
    OBVIOUS
  <2> QED BY <2>1
<1>3. \E x \in T : \A y \in T : ~ (<<y, x>> \in R)
  <2> HIDE DEF R, T
  <2> QED BY <1>1, <1>2, WFMin
<1>4. \A x, y \in T : y < x => <<y, x>> \in R
  <2> HIDE DEF T
  <2> QED BY <1>2 DEF OpToRel
<1>5. \E x \in T : \A y \in T : ~(y < x)
  <2> HIDE DEF T, R
  <2> QED BY <1>3, <1>4
<1>6. \E k \in levels : \A j \in levels : j <= k
  <2> HIDE DEF R
  <2>1. PICK k \in levels : \A j \in levels : ~(n - j < n - k)
    BY <1>5
  <2>2. \A j \in levels : j \in 1..n
    OBVIOUS
  <2> QED BY <2>1, <2>2
<1> QED
  BY <1>6 DEF Innermost

---------------------------------------------------------------------------
(* Scopes.                                                                  *)

LEMMA ScopeProperties ==
    ASSUME NEW scope \in Scope
    PROVE  /\ DOMAIN scope \in SUBSET Names
           /\ scope \in [DOMAIN scope -> Symbols]
           /\ \A name \in DOMAIN scope : scope[name] \in Symbols
  BY DEF Scope

LEMMA EmptyScopeProperties == EmptyScope \in Scope /\ DOMAIN EmptyScope = {}
<1>1. EmptyScope \in [{} -> Symbols] /\ DOMAIN EmptyScope = {}
  BY DEF EmptyScope
<1> QED
  BY <1>1 DEF Scope

LEMMA WithProperties ==
    ASSUME NEW scope \in Scope, NEW name \in Names, NEW symbol \in Symbols
    PROVE  /\ With(scope, name, symbol) \in Scope
           /\ DOMAIN With(scope, name, symbol) = DOMAIN scope \cup {name}
           /\ With(scope, name, symbol)[name] = symbol
           /\ \A x \in DOMAIN scope :
                  x # name => With(scope, name, symbol)[x] = scope[x]
<1> DEFINE some == DOMAIN scope \cup {name}
<1>1. some \in SUBSET Names
  BY ScopeProperties
<1>2. \A x \in DOMAIN scope : scope[x] \in Symbols
  BY ScopeProperties
<1>3. With(scope, name, symbol) \in [some -> Symbols]
  BY <1>2 DEF With
<1>4. With(scope, name, symbol) \in Scope
  BY <1>1, <1>3 DEF Scope
<1> QED
  BY <1>4 DEF With

---------------------------------------------------------------------------
(* What the operations make of a table.                                     *)

LEMMA PushProperties ==
    ASSUME NEW table \in Tables
    PROVE  /\ PushScope(table) \in Tables
           /\ Len(PushScope(table)) = Len(table) + 1
           /\ \A k \in 1..Len(table) : PushScope(table)[k] = table[k]
           /\ PushScope(table)[Len(table) + 1] = EmptyScope
  BY EmptyScopeProperties, AppendProperties DEF Tables, PushScope

LEMMA PopAny ==
    ASSUME NEW S, NEW table \in Seq(S), table # <<>>
    PROVE  /\ PopScope(table) \in Seq(S)
           /\ Len(table) \in Nat \ {0}
           /\ Len(PopScope(table)) = Len(table) - 1
           /\ \A k \in 1..Len(table) - 1 : PopScope(table)[k] = table[k]
<1>1. Len(table) \in Nat \ {0} /\ \A k \in 1..Len(table) : table[k] \in S
  BY LenProperties, ElementOfSeq, EmptySeq
<1> DEFINE m == Len(table) - 1
<1>2. m \in Int /\ 1 \in Int /\ \A k \in 1..m : table[k] \in S
  BY <1>1
<1>3. /\ SubSeq(table, 1, m) \in Seq(S)
      /\ Len(SubSeq(table, 1, m)) = IF 1 <= m THEN m - 1 + 1 ELSE 0
      /\ \A k \in 1..m - 1 + 1 : SubSeq(table, 1, m)[k] = table[1 + k - 1]
  <2> HIDE DEF m
  <2> QED BY <1>2, SubSeqProperties
<1>4. \A k \in 1..m : k \in 1..m - 1 + 1 /\ 1 + k - 1 = k
  BY <1>1
<1>5. Len(SubSeq(table, 1, m)) = m
  <2>1. m \in Nat
    BY <1>1
  <2> HIDE DEF m
  <2>2. (IF 1 <= m THEN m - 1 + 1 ELSE 0) = m
    BY <2>1
  <2> QED BY <1>3, <2>2
<1>6. \A k \in 1..m : SubSeq(table, 1, m)[k] = table[k]
  <2> TAKE k \in 1..m
  <2> HIDE DEF m
  <2> QED BY <1>3, <1>4
<1>7. PopScope(table) = SubSeq(table, 1, m)
  BY DEF PopScope
<1> QED
  BY <1>1, <1>3, <1>5, <1>6, <1>7

LEMMA PopProperties ==
    ASSUME NEW table \in Tables, table # <<>>
    PROVE  /\ PopScope(table) \in Tables
           /\ Len(table) \in Nat \ {0}
           /\ Len(PopScope(table)) = Len(table) - 1
           /\ \A k \in 1..Len(table) - 1 : PopScope(table)[k] = table[k]
  BY PopAny DEF Tables

(* A new declaration in an open scope.                                      *)
LEMMA DeclareProperties ==
    ASSUME NEW table \in Tables, table # <<>>, NEW name \in Names, NEW symbol \in Symbols
    PROVE  LET n == Len(table)
               after == Declare(table, name, symbol)
           IN  /\ n \in Nat \ {0} /\ table[n] \in Scope
               /\ IsFree(table, name) <=> name \notin DOMAIN table[n]
               /\ ~IsFree(table, name) => after = table
               /\ IsFree(table, name) =>
                    /\ after \in Tables
                    /\ Len(after) = n
                    /\ \A k \in 1..n - 1 : after[k] = table[k]
                    /\ after[n] = With(table[n], name, symbol)
<1> DEFINE n == Len(table)
           top == With(table[n], name, symbol)
<1>1. n \in Nat \ {0} /\ n \in 1..n /\ table[n] \in Scope
  BY LenProperties, ElementOfSeq, EmptySeq DEF Tables
<1>2. Ready(table) = table
  BY DEF Ready
<1>3. top \in Scope
  BY <1>1, WithProperties
<1>4. /\ [table EXCEPT ![n] = top] \in Seq(Scope)
      /\ Len([table EXCEPT ![n] = top]) = Len(table)
      /\ \A j \in 1..Len(table) :
             [table EXCEPT ![n] = top][j] = IF j = n THEN top ELSE table[j]
  <2> HIDE DEF n, top
  <2>1. n \in 1..Len(table)
    BY <1>1 DEF n
  <2> QED BY <1>3, <2>1, ExceptSeq DEF Tables
<1>5. IsFree(table, name) => Declare(table, name, symbol) = [table EXCEPT ![n] = top]
  BY <1>2 DEF Declare
<1>6. ~IsFree(table, name) => Declare(table, name, symbol) = table
  BY <1>2 DEF Declare
<1>7. IsFree(table, name) <=> name \notin DOMAIN table[n]
  BY <1>2 DEF IsFree
<1> HIDE DEF top
<1>8. \A k \in 1..n - 1 : k \in 1..n /\ k # n
  BY <1>1
<1> QED
  BY <1>1, <1>4, <1>5, <1>6, <1>7, <1>8 DEF Tables, top

(* A declaration in a table without scopes opens the first one.             *)
LEMMA DeclareFirst ==
    ASSUME NEW name \in Names, NEW symbol \in Symbols
    PROVE  /\ Declare(<<>>, name, symbol) = <<With(EmptyScope, name, symbol)>>
           /\ Declare(<<>>, name, symbol) \in Tables
<1> DEFINE top == With(EmptyScope, name, symbol)
<1>1. top \in Scope
  BY EmptyScopeProperties, WithProperties
<1>2. Ready(<<>>) = <<EmptyScope>>
  BY DEF Ready, PushScope
<1>3. IsFree(<<>>, name)
  BY <1>2, EmptyScopeProperties DEF IsFree
<1>4. Declare(<<>>, name, symbol) = [<<EmptyScope>> EXCEPT ![1] = top]
  BY <1>2, <1>3 DEF Declare
<1>5. [<<EmptyScope>> EXCEPT ![1] = top] = <<top>>
  OBVIOUS
<1>6. <<top>> \in Seq(Scope)
  <2> HIDE DEF top
  <2> QED BY <1>1
<1> QED
  BY <1>4, <1>5, <1>6 DEF Tables

---------------------------------------------------------------------------
(* Lookups.                                                                 *)

LEMMA BelowAny ==
    ASSUME NEW S, NEW table \in Seq(S), NEW k \in 0..Len(table)
    PROVE  /\ Below(table, k) \in Seq(S)
           /\ Len(Below(table, k)) = k
           /\ \A j \in 1..k : Below(table, k)[j] = table[j]
<1>1. Len(table) \in Nat /\ k \in Nat /\ \A j \in 1..k : table[j] \in S
  BY LenProperties, ElementOfSeq
<1>2. /\ SubSeq(table, 1, k) \in Seq(S)
      /\ Len(SubSeq(table, 1, k)) = IF 1 <= k THEN k - 1 + 1 ELSE 0
      /\ \A j \in 1..k - 1 + 1 : SubSeq(table, 1, k)[j] = table[1 + j - 1]
  BY <1>1, SubSeqProperties
<1>3. Len(SubSeq(table, 1, k)) = k
  BY <1>1, <1>2
<1>4. \A j \in 1..k : j \in 1..k - 1 + 1 /\ 1 + j - 1 = j
  BY <1>1
<1> QED
  BY <1>2, <1>3, <1>4 DEF Below

LEMMA BelowProperties ==
    ASSUME NEW table \in Tables, NEW k \in 0..Len(table)
    PROVE  /\ Below(table, k) \in Tables
           /\ Len(Below(table, k)) = k
           /\ \A j \in 1..k : Below(table, k)[j] = table[j]
  BY BelowAny DEF Tables

(* What a block sees depends on the scopes up to its own.                   *)
LEMMA SameBelow ==
    ASSUME NEW table \in Tables, NEW other \in Tables,
           NEW k \in 0..Len(table), k \in 0..Len(other),
           \A j \in 1..k : table[j] = other[j]
    PROVE  Below(table, k) = Below(other, k)
<1>1. /\ Below(table, k) \in Seq(Scope) /\ Below(other, k) \in Seq(Scope)
      /\ Len(Below(table, k)) = k /\ Len(Below(other, k)) = k
  BY BelowProperties DEF Tables
<1>2. \A j \in 1..k : Below(table, k)[j] = Below(other, k)[j]
  BY BelowProperties
<1> QED
  BY <1>1, <1>2, SeqEqual

LEMMA BelowAll ==
    ASSUME NEW table \in Tables
    PROVE  Below(table, Len(table)) = table
<1>1. Len(table) \in Nat /\ Len(table) \in 0..Len(table)
  BY LenProperties DEF Tables
<1>2. /\ Below(table, Len(table)) \in Seq(Scope)
      /\ Len(Below(table, Len(table))) = Len(table)
      /\ \A j \in 1..Len(table) : Below(table, Len(table))[j] = table[j]
  BY <1>1, BelowProperties DEF Tables
<1> QED
  BY <1>2, SeqEqual DEF Tables

LEMMA HoldersProperties ==
    ASSUME NEW table \in Tables, NEW name
    PROVE  /\ Len(table) \in Nat
           /\ Holders(table, name) \in SUBSET (1..Len(table))
           /\ \A k \in 1..Len(table) :
                  k \in Holders(table, name) <=> name \in DOMAIN table[k]
  BY LenProperties DEF Holders, Tables

LEMMA LookupType ==
    ASSUME NEW table \in Tables, NEW name
    PROVE  Lookup(table, name) \in Meanings
<1>1. CASE Holders(table, name) = {}
  BY <1>1 DEF Lookup, Meanings
<1>2. CASE Holders(table, name) # {}
  <2> DEFINE k == Innermost(Holders(table, name))
  <2>1. k \in Holders(table, name) /\ k \in 1..Len(table)
    BY <1>2, HoldersProperties, InnermostExists
  <2>2. table[k] \in Scope /\ name \in DOMAIN table[k]
    BY <2>1, HoldersProperties, ElementOfSeq DEF Tables
  <2>3. table[k][name] \in Symbols
    BY <2>2, ScopeProperties
  <2> QED
    BY <1>2, <2>3 DEF Lookup, Meanings
<1> QED
  BY <1>1, <1>2

(* The innermost scope of a table answers for the names it declares.        *)
LEMMA LookupTop ==
    ASSUME NEW table \in Tables, Len(table) > 0, NEW name,
           name \in DOMAIN table[Len(table)]
    PROVE  Lookup(table, name) = table[Len(table)][name]
<1> DEFINE levels == Holders(table, name)
<1>1. Len(table) \in levels /\ levels \in SUBSET (1..Len(table)) /\ Len(table) \in Nat
  BY HoldersProperties
<1>2. Innermost(levels) \in levels /\ \A j \in levels : j <= Innermost(levels)
  <2> HIDE DEF levels
  <2> QED BY <1>1, InnermostExists
<1>3. Innermost(levels) \in 1..Len(table) /\ Len(table) <= Innermost(levels)
  BY <1>1, <1>2
<1>4. Innermost(levels) = Len(table)
  <2> HIDE DEF levels
  <2> QED BY <1>1, <1>3
<1> QED
  BY <1>1, <1>4 DEF Lookup

(* For the others the scopes around it answer.                              *)
LEMMA LookupPast ==
    ASSUME NEW table \in Tables, NEW other \in Tables, NEW name,
           Len(table) = Len(other) + 1,
           \A j \in 1..Len(other) : table[j] = other[j],
           name \notin DOMAIN table[Len(table)]
    PROVE  Lookup(table, name) = Lookup(other, name)
<1> DEFINE levels == Holders(other, name)
<1>1. Len(other) \in Nat /\ levels \in SUBSET (1..Len(other))
  BY HoldersProperties
<1>2. Holders(table, name) = levels
  <2>1. \A k \in 1..Len(table) : k \in 1..Len(other) \/ k = Len(table)
    BY <1>1
  <2>2. Len(table) \notin Holders(table, name)
    BY HoldersProperties
  <2>3. \A k \in 1..Len(other) :
            k \in 1..Len(table) /\ (k \in Holders(table, name) <=> k \in levels)
    BY <1>1, HoldersProperties
  <2>4. Holders(table, name) \in SUBSET (1..Len(table))
    BY HoldersProperties
  <2> HIDE DEF levels
  <2> QED BY <1>1, <2>1, <2>2, <2>3, <2>4
<1>3. CASE levels = {}
  BY <1>2, <1>3 DEF Lookup
<1>4. CASE levels # {}
  <2>1. Innermost(levels) \in 1..Len(other)
    <3> HIDE DEF levels
    <3> QED BY <1>1, <1>4, InnermostExists
  <2>2. table[Innermost(levels)] = other[Innermost(levels)]
    BY <2>1
  <2> QED
    BY <1>2, <1>4, <2>2 DEF Lookup
<1> QED
  BY <1>3, <1>4

LEMMA LookupNowhere == \A name : Lookup(<<>>, name) = NoSymbol
<1>1. \A name : Holders(<<>>, name) = {}
  BY DEF Holders
<1> QED
  BY <1>1 DEF Lookup

---------------------------------------------------------------------------
(* What the blocks of a table see.                                          *)

LEMMA SeenProperties ==
    ASSUME NEW table \in Tables
    PROVE  /\ Seen(table) \in Seq([Names -> Meanings])
           /\ Len(Seen(table)) = Len(table)
           /\ \A k \in 1..Len(table) :
                  Seen(table)[k] = [name \in Names |-> Lookup(Below(table, k), name)]
<1>1. Len(table) \in Nat /\ DOMAIN table = 1..Len(table)
  BY LenProperties DEF Tables
<1>2. \A k \in 1..Len(table) :
          [name \in Names |-> Lookup(Below(table, k), name)] \in [Names -> Meanings]
  <2> TAKE k \in 1..Len(table)
  <2>1. k \in 0..Len(table)
    BY <1>1
  <2>2. \A name \in Names : Lookup(Below(table, k), name) \in Meanings
    BY <2>1, BelowProperties, LookupType
  <2> QED
    BY <2>2
<1>3. Seen(table) \in [1..Len(table) -> [Names -> Meanings]]
  BY <1>1, <1>2 DEF Seen
<1>4. Seen(table) \in Seq([Names -> Meanings])
  BY <1>1, <1>3, SeqDef
<1>5. DOMAIN Seen(table) = 1..Len(table)
  BY <1>3
<1>6. Len(Seen(table)) = Len(table)
  BY <1>1, <1>4, <1>5, LenProperties
<1> QED
  BY <1>1, <1>4, <1>6 DEF Seen

LEMMA OwnedProperties ==
    ASSUME NEW table \in Tables
    PROVE  /\ Owned(table) \in Seq(SUBSET Names)
           /\ Len(Owned(table)) = Len(table)
           /\ \A k \in 1..Len(table) : Owned(table)[k] = Names \cap DOMAIN table[k]
<1>1. Len(table) \in Nat /\ DOMAIN table = 1..Len(table)
  BY LenProperties DEF Tables
<1>2. Owned(table) \in [1..Len(table) -> SUBSET Names]
  BY <1>1 DEF Owned
<1>3. Owned(table) \in Seq(SUBSET Names)
  BY <1>1, <1>2, SeqDef
<1>4. Len(Owned(table)) = Len(table)
  BY <1>1, <1>2, <1>3, LenProperties
<1> QED
  BY <1>1, <1>3, <1>4 DEF Owned

(* A block sees its own names first, then what the block around it sees.    *)
LEMMA SeenStep ==
    ASSUME NEW table \in Tables, NEW k \in 1..Len(table), NEW name \in Names
    PROVE  Seen(table)[k][name] =
               IF name \in DOMAIN table[k] THEN table[k][name]
               ELSE IF k = 1 THEN NoSymbol ELSE Seen(table)[k - 1][name]
<1>1. Len(table) \in Nat /\ k \in 0..Len(table) /\ k - 1 \in 0..Len(table)
  BY LenProperties DEF Tables
<1>2. /\ Below(table, k) \in Tables /\ Len(Below(table, k)) = k
      /\ \A j \in 1..k : Below(table, k)[j] = table[j]
  BY <1>1, BelowProperties
<1>3. /\ Below(table, k - 1) \in Tables /\ Len(Below(table, k - 1)) = k - 1
      /\ \A j \in 1..k - 1 : Below(table, k - 1)[j] = table[j]
  BY <1>1, BelowProperties
<1>4. Seen(table)[k][name] = Lookup(Below(table, k), name)
  BY SeenProperties
<1>5. k \in 1..k /\ k > 0 /\ k = k - 1 + 1 /\ \A j \in 1..k - 1 : j \in 1..k
  BY <1>1
<1>6. CASE name \in DOMAIN table[k]
  BY <1>2, <1>4, <1>5, <1>6, LookupTop
<1>7. CASE name \notin DOMAIN table[k]
  <2>1. Lookup(Below(table, k), name) = Lookup(Below(table, k - 1), name)
    <3>1. \A j \in 1..k - 1 : Below(table, k)[j] = Below(table, k - 1)[j]
      BY <1>2, <1>3, <1>5
    <3>2. name \notin DOMAIN Below(table, k)[Len(Below(table, k))]
      BY <1>2, <1>5, <1>7
    <3> QED
      BY <1>2, <1>3, <1>5, <3>1, <3>2, LookupPast
  <2>2. CASE k = 1
    <3>1. Below(table, k - 1) = <<>>
      BY <1>3, <2>2, EmptySeq, SeqEqual DEF Tables
    <3> QED
      BY <1>4, <1>7, <2>1, <2>2, <3>1, LookupNowhere
  <2>3. CASE k # 1
    <3>1. k - 1 \in 1..Len(table)
      BY <1>1, <2>3
    <3>2. Seen(table)[k - 1][name] = Lookup(Below(table, k - 1), name)
      BY <3>1, SeenProperties
    <3> QED
      BY <1>4, <1>7, <2>1, <2>3, <3>2
  <2> QED
    BY <2>2, <2>3
<1> QED
  BY <1>6, <1>7

(* Blocks see what they saw as long as the scopes up to theirs stay.        *)
LEMMA SeenSame ==
    ASSUME NEW table \in Tables, NEW other \in Tables, NEW n \in Nat,
           n <= Len(table), n <= Len(other),
           \A j \in 1..n : table[j] = other[j]
    PROVE  \A k \in 1..n : Seen(table)[k] = Seen(other)[k]
<1> TAKE k \in 1..n
<1>1. Len(table) \in Nat /\ Len(other) \in Nat
  BY LenProperties DEF Tables
<1>2. k \in 0..Len(table) /\ k \in 0..Len(other) /\ k \in 1..Len(table) /\ k \in 1..Len(other)
  BY <1>1
<1>3. \A j \in 1..k : table[j] = other[j]
  <2>1. \A j \in 1..k : j \in 1..n
    OBVIOUS
  <2> QED BY <2>1
<1>4. Below(table, k) = Below(other, k)
  BY <1>2, <1>3, SameBelow
<1>5. Seen(table)[k] = [name \in Names |-> Lookup(Below(table, k), name)]
  BY <1>2, SeenProperties
<1>6. Seen(other)[k] = [name \in Names |-> Lookup(Below(other, k), name)]
  BY <1>2, SeenProperties
<1> QED
  BY <1>4, <1>5, <1>6

---------------------------------------------------------------------------
(* A table always consists of scopes that map names to symbols, whatever    *)
(* calls are made (SymbolTable).                                            *)
THEOREM TablesAreTyped == TableSpec => []TableTypeOK
<1>1. InitTable => TableTypeOK
  BY EmptyScopeProperties DEF InitTable, NewTable, TableTypeOK, Tables
<1>2. TableTypeOK /\ [NextTable]_scopes => TableTypeOK'
  <2> SUFFICES ASSUME TableTypeOK, [NextTable]_scopes PROVE TableTypeOK'
    OBVIOUS
  <2> USE DEF TableTypeOK, Tables
  <2>1. CASE Push
    BY <2>1, PushProperties DEF Push
  <2>2. CASE Pop
    <3>1. CASE scopes = <<>>
      BY <2>2, <3>1 DEF Pop, PopScope
    <3>2. CASE scopes # <<>>
      BY <2>2, <3>2, PopProperties DEF Pop
    <3> QED BY <3>1, <3>2
  <2>3. CASE \E name \in Names, symbol \in Symbols : Declaration(name, symbol)
    <3>1. PICK name \in Names, symbol \in Symbols : Declaration(name, symbol)
      BY <2>3
    <3>2. CASE scopes = <<>>
      BY <3>1, <3>2, DeclareFirst DEF Declaration
    <3>3. CASE scopes # <<>>
      BY <3>1, <3>3, DeclareProperties DEF Declaration
    <3> QED BY <3>2, <3>3
  <2>4. CASE UNCHANGED scopes
    BY <2>4
  <2> QED
    BY <2>1, <2>2, <2>3, <2>4 DEF NextTable
<1> QED
  BY <1>1, <1>2, PTL DEF TableSpec

---------------------------------------------------------------------------
(* The steps of a table as steps of block structure.                        *)

(* Two sequences of the same length are equal when their elements are.      *)
LEMMA SeenEqual ==
    ASSUME NEW table \in Tables, NEW seen \in Seq([Names -> Meanings]),
           Len(seen) = Len(table),
           \A k \in 1..Len(table) : Seen(table)[k] = seen[k]
    PROVE  Seen(table) = seen
<1>1. Seen(table) \in Seq([Names -> Meanings]) /\ Len(Seen(table)) = Len(table)
  BY SeenProperties
<1> QED
  BY <1>1, SeqEqual

LEMMA OwnedEqual ==
    ASSUME NEW table \in Tables, NEW owned \in Seq(SUBSET Names),
           Len(owned) = Len(table),
           \A k \in 1..Len(table) : Owned(table)[k] = owned[k]
    PROVE  Owned(table) = owned
<1>1. Owned(table) \in Seq(SUBSET Names) /\ Len(Owned(table)) = Len(table)
  BY OwnedProperties
<1> QED
  BY <1>1, SeqEqual

LEMMA EverywhereProperties ==
    /\ Blocks!Everywhere \in [Names -> Meanings]
    /\ \A name \in Names : Blocks!Everywhere[name] = NoSymbol
  BY DEF Blocks!Everywhere, Meanings

(* What a new block sees before it declares anything.                       *)
LEMMA SeenInNewScope ==
    ASSUME NEW table \in Tables, NEW around \in Tables,
           Len(table) = Len(around) + 1,
           \A k \in 1..Len(around) : table[k] = around[k],
           table[Len(table)] = EmptyScope
    PROVE  /\ Seen(table)[Len(table)] =
                  IF around = <<>> THEN Blocks!Everywhere ELSE Seen(around)[Len(around)]
           /\ \A k \in 1..Len(around) : Seen(table)[k] = Seen(around)[k]
<1>1. Len(around) \in Nat /\ Len(table) \in 1..Len(table)
  BY LenProperties DEF Tables
<1>2. \A k \in 1..Len(around) : Seen(table)[k] = Seen(around)[k]
  BY <1>1, SeenSame
<1>3. Seen(table)[Len(table)] \in [Names -> Meanings]
  <2>1. Seen(table) \in Seq([Names -> Meanings]) /\ Len(Seen(table)) = Len(table)
    BY SeenProperties
  <2> QED BY <1>1, <2>1, ElementOfSeq
<1>4. \A name \in Names :
          Seen(table)[Len(table)][name] =
              IF Len(table) = 1 THEN NoSymbol ELSE Seen(table)[Len(table) - 1][name]
  <2> TAKE name \in Names
  <2>1. name \notin DOMAIN table[Len(table)]
    BY EmptyScopeProperties
  <2> QED BY <1>1, <2>1, SeenStep
<1>5. CASE around = <<>>
  <2>1. Len(table) = 1
    BY <1>5, EmptySeq
  <2>2. \A name \in Names : Seen(table)[Len(table)][name] = Blocks!Everywhere[name]
    BY <1>4, <2>1, EverywhereProperties
  <2>3. Seen(table)[Len(table)] = Blocks!Everywhere
    <3> DEFINE seen == Seen(table)[Len(table)]
    <3>1. seen \in [Names -> Meanings] /\ \A name \in Names : seen[name] = Blocks!Everywhere[name]
      BY <1>3, <2>2
    <3> HIDE DEF seen
    <3>2. seen = Blocks!Everywhere
      BY <3>1, EverywhereProperties
    <3> QED BY <3>2 DEF seen
  <2> QED BY <1>2, <1>5, <2>3
<1>6. CASE around # <<>>
  <2>1. Len(around) \in Nat \ {0}
    BY <1>1, <1>6, EmptySeq DEF Tables
  <2>2. Len(around) \in 1..Len(around) /\ Len(table) # 1 /\ Len(table) - 1 = Len(around)
    BY <2>1
  <2>3. Seen(around)[Len(around)] \in [Names -> Meanings]
    <3>1. Seen(around) \in Seq([Names -> Meanings]) /\ Len(Seen(around)) = Len(around)
      BY SeenProperties
    <3> QED BY <2>2, <3>1, ElementOfSeq
  <2>4. Seen(table)[Len(around)] = Seen(around)[Len(around)]
    BY <1>2, <2>2
  <2>5. Seen(table)[Len(table)] = Seen(around)[Len(around)]
    BY <1>3, <1>4, <2>2, <2>3, <2>4
  <2> QED BY <1>2, <1>6, <2>5
<1> QED
  BY <1>5, <1>6

LEMMA NewTableSees == Seen(NewTable) = <<Blocks!Everywhere>> /\ Owned(NewTable) = <<{}>>
<1>1. NewTable \in Tables /\ Len(NewTable) = 1
      /\ NewTable[1] = EmptyScope
  BY EmptyScopeProperties DEF NewTable, Tables
<1>2. <<>> \in Tables /\ Len(<<>>) = 0
  BY EmptySeq DEF Tables
<1>3. Seen(NewTable)[1] = Blocks!Everywhere
  <2> HIDE DEF NewTable
  <2>1. Len(NewTable) = Len(<<>>) + 1 /\ NewTable[Len(NewTable)] = EmptyScope
    BY <1>1, <1>2
  <2>2. \A k \in 1..Len(<<>>) : NewTable[k] = <<>>[k]
    BY <1>2
  <2>3. Seen(NewTable)[Len(NewTable)] = Blocks!Everywhere
    BY <1>1, <1>2, <2>1, <2>2, SeenInNewScope
  <2> QED BY <1>1, <2>3
<1>4. <<Blocks!Everywhere>> \in Seq([Names -> Meanings])
  BY EverywhereProperties
<1>5. Seen(NewTable) = <<Blocks!Everywhere>>
  <2> HIDE DEF NewTable
  <2>1. \A k \in 1..Len(NewTable) : Seen(NewTable)[k] = <<Blocks!Everywhere>>[k]
    BY <1>1, <1>3
  <2>2. Len(<<Blocks!Everywhere>>) = Len(NewTable)
    BY <1>1
  <2> QED BY <1>1, <1>4, <2>1, <2>2, SeenEqual
<1>6. Owned(NewTable) = <<{}>>
  <2>1. Owned(NewTable)[1] = {}
    BY <1>1, OwnedProperties, EmptyScopeProperties
  <2>2. \A k \in 1..Len(NewTable) : Owned(NewTable)[k] = <<{}>>[k]
    BY <1>1, <2>1
  <2>3. <<{}>> \in Seq(SUBSET Names) /\ Len(<<{}>>) = Len(NewTable)
    BY <1>1
  <2> QED BY <1>1, <2>2, <2>3, OwnedEqual
<1> QED
  BY <1>5, <1>6

LEMMA InitIsBlocksInit == InitTable => Blocks!Init
  BY NewTableSees DEF InitTable, Blocks!Init

(* How a table follows from another: a block is opened, closed, or declares. *)
Inherits(table) ==
    IF Seen(table) = <<>> THEN Blocks!Everywhere ELSE Seen(table)[Len(Seen(table))]
Opens(table, after) ==
    /\ Seen(after) = Append(Seen(table), Inherits(table))
    /\ Owned(after) = Append(Owned(table), {})
Closes(table, after) ==
    /\ Seen(table) # <<>>
    /\ Seen(after) = SubSeq(Seen(table), 1, Len(Seen(table)) - 1)
    /\ Owned(after) = SubSeq(Owned(table), 1, Len(Seen(table)) - 1)
Binds(table, after, name) ==
    LET n == Len(Seen(table))
    IN  /\ Seen(table) # <<>>
        /\ name \notin Owned(table)[n]
        /\ Owned(after) = [Owned(table) EXCEPT ![n] = @ \cup {name}]
        /\ \E meaning \in Symbols :
               Seen(after) = [Seen(table) EXCEPT ![n] = [@ EXCEPT ![name] = meaning]]

LEMMA PushOpens == ASSUME NEW table \in Tables PROVE Opens(table, PushScope(table))
<1> DEFINE after == PushScope(table)
           n == Len(table)
<1>2. /\ n \in Nat /\ after \in Tables /\ Len(after) = n + 1
      /\ \A k \in 1..n : after[k] = table[k]
      /\ after[n + 1] = EmptyScope
  BY PushProperties, LenProperties DEF Tables
<1> HIDE DEF after
<1>3. /\ Seen(table) \in Seq([Names -> Meanings]) /\ Len(Seen(table)) = n
      /\ Seen(after) \in Seq([Names -> Meanings]) /\ Len(Seen(after)) = n + 1
  BY <1>2, SeenProperties
<1>4. Seen(table) = <<>> <=> table = <<>>
  BY <1>3, EmptySeq DEF Tables
<1>5. /\ Seen(after)[n + 1] = IF table = <<>> THEN Blocks!Everywhere ELSE Seen(table)[n]
      /\ \A k \in 1..n : Seen(after)[k] = Seen(table)[k]
  BY <1>2, SeenInNewScope
<1>6. Seen(after)[n + 1] = Inherits(table)
  BY <1>3, <1>4, <1>5 DEF Inherits
<1>7. Seen(after) = Append(Seen(table), Inherits(table))
  <2>1. Inherits(table) \in [Names -> Meanings]
    BY <1>2, <1>3, <1>6, ElementOfSeq
  <2>2. /\ Append(Seen(table), Inherits(table)) \in Seq([Names -> Meanings])
        /\ Len(Append(Seen(table), Inherits(table))) = n + 1
        /\ \A k \in 1..n : Append(Seen(table), Inherits(table))[k] = Seen(table)[k]
        /\ Append(Seen(table), Inherits(table))[n + 1] = Inherits(table)
    BY <1>3, <2>1, AppendProperties
  <2>3. \A k \in 1..n + 1 : k \in 1..n \/ k = n + 1
    BY <1>2
  <2>4. \A k \in 1..n + 1 : Seen(after)[k] = Append(Seen(table), Inherits(table))[k]
    BY <1>5, <1>6, <2>2, <2>3
  <2> QED BY <1>2, <2>2, <2>4, SeenEqual
<1>8. Owned(after) = Append(Owned(table), {})
  <2>1. Owned(table) \in Seq(SUBSET Names) /\ Len(Owned(table)) = n
        /\ \A k \in 1..n : Owned(table)[k] = Names \cap DOMAIN table[k]
    BY OwnedProperties
  <2>2. \A k \in 1..n + 1 : Owned(after)[k] = Names \cap DOMAIN after[k]
    BY <1>2, OwnedProperties
  <2>3. /\ Append(Owned(table), {}) \in Seq(SUBSET Names)
        /\ Len(Append(Owned(table), {})) = n + 1
        /\ \A k \in 1..n : Append(Owned(table), {})[k] = Owned(table)[k]
        /\ Append(Owned(table), {})[n + 1] = {}
    BY <2>1, AppendProperties
  <2>4. \A k \in 1..n + 1 : k \in 1..n \/ k = n + 1
    BY <1>2
  <2>5. \A k \in 1..n + 1 : Owned(after)[k] = Append(Owned(table), {})[k]
    <3>1. \A k \in 1..n : Owned(after)[k] = Append(Owned(table), {})[k]
      <4> TAKE k \in 1..n
      <4>1. k \in 1..n + 1
        BY <1>2
      <4>2. Owned(after)[k] = Names \cap DOMAIN table[k]
        BY <1>2, <2>2, <4>1
      <4> QED BY <2>1, <2>3, <4>2
    <3>2. Owned(after)[n + 1] = {}
      BY <1>2, <2>2, EmptyScopeProperties
    <3> QED BY <2>3, <2>4, <3>1, <3>2
  <2> QED BY <1>2, <2>3, <2>5, OwnedEqual
<1> QED
  BY <1>7, <1>8 DEF Opens, after

(* The first n elements of a sequence.                                      *)
LEMMA PrefixProperties ==
    ASSUME NEW S, NEW seq \in Seq(S), NEW n \in Nat, n <= Len(seq)
    PROVE  /\ SubSeq(seq, 1, n) \in Seq(S)
           /\ Len(SubSeq(seq, 1, n)) = n
           /\ \A k \in 1..n : SubSeq(seq, 1, n)[k] = seq[k]
<1>1. Len(seq) \in Nat /\ \A k \in 1..n : k \in 1..Len(seq)
  BY LenProperties
<1>2. \A k \in 1..n : seq[k] \in S
  BY <1>1, ElementOfSeq
<1>3. /\ SubSeq(seq, 1, n) \in Seq(S)
      /\ Len(SubSeq(seq, 1, n)) = IF 1 <= n THEN n - 1 + 1 ELSE 0
      /\ \A k \in 1..n - 1 + 1 : SubSeq(seq, 1, n)[k] = seq[1 + k - 1]
  BY <1>2, SubSeqProperties
<1>4. (IF 1 <= n THEN n - 1 + 1 ELSE 0) = n
  OBVIOUS
<1>5. \A k \in 1..n : k \in 1..n - 1 + 1 /\ 1 + k - 1 = k
  OBVIOUS
<1> QED
  BY <1>3, <1>4, <1>5

LEMMA PopCloses ==
    ASSUME NEW table \in Tables, table # <<>> PROVE Closes(table, PopScope(table))
<1> DEFINE after == PopScope(table)
           n == Len(table) - 1
<1>2. /\ Len(table) = n + 1 /\ n \in Nat
      /\ after \in Tables /\ Len(after) = n
      /\ \A k \in 1..n : after[k] = table[k]
  BY PopProperties
<1> HIDE DEF after, n
<1>3. /\ Seen(table) \in Seq([Names -> Meanings]) /\ Len(Seen(table)) = n + 1
      /\ Owned(table) \in Seq(SUBSET Names) /\ Len(Owned(table)) = n + 1
  BY <1>2, SeenProperties, OwnedProperties
<1>4. \A k \in 1..n : Seen(after)[k] = Seen(table)[k]
  BY <1>2, SeenSame
<1>5. Seen(after) = SubSeq(Seen(table), 1, n)
  <2>1. /\ SubSeq(Seen(table), 1, n) \in Seq([Names -> Meanings])
        /\ Len(SubSeq(Seen(table), 1, n)) = n
        /\ \A k \in 1..n : SubSeq(Seen(table), 1, n)[k] = Seen(table)[k]
    BY <1>2, <1>3, PrefixProperties
  <2> QED BY <1>2, <1>4, <2>1, SeenEqual
<1>6. Owned(after) = SubSeq(Owned(table), 1, n)
  <2>1. /\ SubSeq(Owned(table), 1, n) \in Seq(SUBSET Names)
        /\ Len(SubSeq(Owned(table), 1, n)) = n
        /\ \A k \in 1..n : SubSeq(Owned(table), 1, n)[k] = Owned(table)[k]
    BY <1>2, <1>3, PrefixProperties
  <2>2. \A k \in 1..n : k \in 1..Len(table)
    BY <1>2
  <2>3. \A k \in 1..n : Owned(after)[k] = Owned(table)[k]
    BY <1>2, <2>2, OwnedProperties
  <2> QED BY <1>2, <2>1, <2>3, OwnedEqual
<1>7. Seen(table) # <<>> /\ Len(Seen(table)) - 1 = n
  BY <1>2, <1>3, EmptySeq 
<1> QED
  BY <1>5, <1>6, <1>7 DEF Closes, after

(* A declaration of a free name, and one that is refused.                   *)
LEMMA DeclarationBinds ==
    ASSUME NEW table \in Tables, table # <<>>, NEW name \in Names, NEW symbol \in Symbols,
           IsFree(table, name)
    PROVE  Binds(table, Declare(table, name, symbol), name)
<1> DEFINE after == Declare(table, name, symbol)
           n == Len(table)
           top == With(table[n], name, symbol)
<1>2. /\ n \in Nat \ {0} /\ table[n] \in Scope
      /\ name \notin DOMAIN table[n]
      /\ after \in Tables /\ Len(after) = n
      /\ \A k \in 1..n - 1 : after[k] = table[k]
      /\ after[n] = top
  BY DeclareProperties
<1>3. /\ DOMAIN top = DOMAIN table[n] \cup {name}
      /\ top[name] = symbol
      /\ \A x \in DOMAIN table[n] : x # name => top[x] = table[n][x]
  BY <1>2, WithProperties
<1> HIDE DEF after, top, n
<1>4. /\ Seen(table) \in Seq([Names -> Meanings]) /\ Len(Seen(table)) = n
      /\ Seen(after) \in Seq([Names -> Meanings]) /\ Len(Seen(after)) = n
      /\ Owned(table) \in Seq(SUBSET Names) /\ Len(Owned(table)) = n
  BY <1>2, SeenProperties, OwnedProperties DEF n
<1>5. /\ n \in 1..n /\ n \in 1..Len(table) /\ n \in 1..Len(after)
      /\ n - 1 \in Nat /\ n - 1 <= n
      /\ \A k \in 1..n : k \in 1..n - 1 \/ k = n
      /\ \A k \in 1..n - 1 : k \in 1..n /\ k # n
  BY <1>2 DEF n
<1>6. \A k \in 1..n - 1 : Seen(after)[k] = Seen(table)[k]
  BY <1>2, <1>5, SeenSame DEF n
<1>7. Seen(table)[n] \in [Names -> Meanings] /\ Seen(after)[n] \in [Names -> Meanings]
  BY <1>4, <1>5, ElementOfSeq
<1>8. \A x \in Names :
          Seen(after)[n][x] = IF x = name THEN symbol ELSE Seen(table)[n][x]
  <2> TAKE x \in Names
  <2>1. Seen(table)[n][x] =
            IF x \in DOMAIN table[n] THEN table[n][x]
            ELSE IF n = 1 THEN NoSymbol ELSE Seen(table)[n - 1][x]
    BY <1>5, SeenStep
  <2>2. Seen(after)[n][x] =
            IF x \in DOMAIN after[n] THEN after[n][x]
            ELSE IF n = 1 THEN NoSymbol ELSE Seen(after)[n - 1][x]
    BY <1>2, <1>5, SeenStep
  <2>3. n # 1 => Seen(after)[n - 1] = Seen(table)[n - 1]
    <3>1. n # 1 => n - 1 \in 1..n - 1
      BY <1>2
    <3> QED BY <1>6, <3>1
  <2> QED
    BY <1>2, <1>3, <2>1, <2>2, <2>3
<1>9. Seen(after)[n] = [Seen(table)[n] EXCEPT ![name] = symbol]
  BY <1>7, <1>8
<1>10. Seen(after) = [Seen(table) EXCEPT ![n] = [Seen(table)[n] EXCEPT ![name] = symbol]]
  <2> DEFINE new == [Seen(table)[n] EXCEPT ![name] = symbol]
  <2>1. new \in [Names -> Meanings]
    BY <1>7, <1>9
  <2> HIDE DEF new
  <2>2. /\ [Seen(table) EXCEPT ![n] = new] \in Seq([Names -> Meanings])
        /\ Len([Seen(table) EXCEPT ![n] = new]) = n
        /\ \A k \in 1..n :
               [Seen(table) EXCEPT ![n] = new][k] = IF k = n THEN new ELSE Seen(table)[k]
    BY <1>4, <1>5, <2>1, ExceptSeq
  <2>3. Seen(after)[n] = new
    BY <1>9 DEF new
  <2>4. \A k \in 1..n : Seen(after)[k] = [Seen(table) EXCEPT ![n] = new][k]
    BY <1>5, <1>6, <2>2, <2>3
  <2>5. Seen(after) = [Seen(table) EXCEPT ![n] = new]
    BY <1>2, <2>2, <2>4, SeenEqual
  <2> QED
    BY <2>5 DEF new
<1>11. Owned(after) = [Owned(table) EXCEPT ![n] = Owned(table)[n] \cup {name}]
  <2> DEFINE new == Owned(table)[n] \cup {name}
  <2>1. \A k \in 1..n : Owned(table)[k] = Names \cap DOMAIN table[k]
    BY OwnedProperties DEF n
  <2>2. \A k \in 1..n : Owned(after)[k] = Names \cap DOMAIN after[k]
    BY <1>2, OwnedProperties
  <2>3. Owned(after)[n] = new /\ new \in SUBSET Names
    BY <1>2, <1>3, <1>5, <2>1, <2>2
  <2>4. \A k \in 1..n - 1 : Owned(after)[k] = Owned(table)[k]
    BY <1>2, <1>5, <2>1, <2>2
  <2> HIDE DEF new
  <2>5. /\ [Owned(table) EXCEPT ![n] = new] \in Seq(SUBSET Names)
        /\ Len([Owned(table) EXCEPT ![n] = new]) = n
        /\ \A k \in 1..n :
               [Owned(table) EXCEPT ![n] = new][k] = IF k = n THEN new ELSE Owned(table)[k]
    BY <1>4, <1>5, <2>3, ExceptSeq
  <2>6. \A k \in 1..n : Owned(after)[k] = [Owned(table) EXCEPT ![n] = new][k]
    BY <1>5, <2>3, <2>4, <2>5
  <2>7. Owned(after) = [Owned(table) EXCEPT ![n] = new]
    BY <1>2, <2>5, <2>6, OwnedEqual
  <2> QED
    BY <2>7 DEF new
<1>12. /\ Seen(table) # <<>> /\ Len(Seen(table)) = n
       /\ name \notin Owned(table)[n]
  <2>1. Owned(table)[n] = Names \cap DOMAIN table[n]
    BY <1>5, OwnedProperties
  <2> QED BY <1>2, <1>4, <2>1, EmptySeq
<1> QED
  BY <1>10, <1>11, <1>12 DEF Binds, after, n

(* What such a step of the table is for the blocks.                         *)
LEMMA StepsOfBlocks ==
    /\ Opens(scopes, scopes') => Blocks!Open
    /\ Closes(scopes, scopes') => Blocks!Close
    /\ \A name : Binds(scopes, scopes', name) => Blocks!Bind(name)
<1>1. Opens(scopes, scopes') => Blocks!Open
  BY DEF Opens, Inherits, Blocks!Open, Blocks!Inherited, Blocks!Innermost
<1>2. Closes(scopes, scopes') => Blocks!Close
  BY DEF Closes, Blocks!Close, Blocks!Innermost
<1>3. \A name : Binds(scopes, scopes', name) => Blocks!Bind(name)
  BY DEF Binds, Blocks!Bind, Blocks!Innermost
<1> QED
  BY <1>1, <1>2, <1>3

LEMMA DeclarationBindsFirst ==
    ASSUME scopes = <<>>, NEW name \in Names, NEW symbol \in Symbols,
           Declaration(name, symbol)
    PROVE  Blocks!BindFirst(name)
<1> DEFINE top == With(EmptyScope, name, symbol)
           after == <<top>>
<1>1. scopes' = after /\ after \in Tables
  BY DeclareFirst DEF Declaration
<1>2. DOMAIN top = {name} /\ top[name] = symbol
  <2>1. DOMAIN top = DOMAIN EmptyScope \cup {name} /\ top[name] = symbol
    <3> HIDE DEF top
    <3>1. EmptyScope \in Scope
      BY EmptyScopeProperties
    <3> QED BY <3>1, WithProperties DEF top
  <2> HIDE DEF top
  <2> QED BY <2>1, EmptyScopeProperties
<1>3. Len(after) = 1 /\ after[1] = top /\ 1 \in 1..Len(after)
  OBVIOUS
<1> HIDE DEF top, after
<1>4. /\ Seen(after) \in Seq([Names -> Meanings]) /\ Len(Seen(after)) = 1
      /\ Seen(after)[1] \in [Names -> Meanings]
  <2>1. Seen(after) \in Seq([Names -> Meanings]) /\ Len(Seen(after)) = 1
    BY <1>1, <1>3, SeenProperties
  <2> QED BY <1>3, <2>1, ElementOfSeq
<1>5. \A x \in Names : Seen(after)[1][x] = IF x = name THEN symbol ELSE NoSymbol
  <2> TAKE x \in Names
  <2>1. Seen(after)[1][x] = IF x \in DOMAIN after[1] THEN after[1][x]
                            ELSE IF 1 = 1 THEN NoSymbol ELSE Seen(after)[1 - 1][x]
    BY <1>1, <1>3, SeenStep
  <2> QED BY <1>2, <1>3, <2>1
<1>6. Seen(after)[1] = [Blocks!Everywhere EXCEPT ![name] = symbol]
  BY <1>4, <1>5, EverywhereProperties
<1>7. Seen(after) = <<Seen(after)[1]>>
  <2>1. <<Seen(after)[1]>> \in Seq([Names -> Meanings]) /\ Len(<<Seen(after)[1]>>) = 1
        /\ <<Seen(after)[1]>>[1] = Seen(after)[1]
    BY <1>4
  <2>2. \A k \in 1..Len(after) : Seen(after)[k] = <<Seen(after)[1]>>[k]
    BY <1>3, <2>1
  <2> QED BY <1>1, <1>3, <2>1, <2>2, SeenEqual
<1>8. Owned(after) = <<{name}>>
  <2>1. Owned(after)[1] = {name}
    BY <1>1, <1>2, <1>3, OwnedProperties
  <2>2. \A k \in 1..Len(after) : Owned(after)[k] = <<{name}>>[k]
    <3> TAKE k \in 1..Len(after)
    <3>1. k = 1 /\ <<{name}>>[1] = {name}
      BY <1>3
    <3> QED BY <2>1, <3>1
  <2>3. <<{name}>> \in Seq(SUBSET Names) /\ Len(<<{name}>>) = Len(after)
    BY <1>3
  <2> QED BY <1>1, <2>2, <2>3, OwnedEqual
<1>9. Seen(scopes) = <<>>
  <2>1. scopes \in Tables /\ Len(scopes) = 0
    BY EmptySeq DEF Tables
  <2> QED BY <2>1, SeenProperties, EmptySeq
<1> QED
  BY <1>1, <1>6, <1>7, <1>8, <1>9 DEF Blocks!BindFirst

(* Searching a stack of partial maps implements block structure, whatever   *)
(* the names and symbols are and however many scopes are open (lookup,      *)
(* declare, pushScope, popScope).                                           *)
THEOREM TableIsBlockStructured == TableSpec => ImplementsEnvironment
<1>1. InitTable => Blocks!Init
  BY InitIsBlocksInit
<1>2. TableTypeOK /\ [NextTable]_scopes => Blocks!Next \/ scopes' = scopes
  <2> SUFFICES ASSUME TableTypeOK, [NextTable]_scopes
               PROVE  Blocks!Next \/ scopes' = scopes
    OBVIOUS
  <2>1. CASE Push
    BY <2>1, PushOpens, StepsOfBlocks DEF Push, Blocks!Next, TableTypeOK, Tables
  <2>2. CASE Pop
    <3>1. CASE scopes = <<>>
      BY <2>2, <3>1 DEF Pop, PopScope
    <3>2. CASE scopes # <<>>
      BY <2>2, <3>2, PopCloses, StepsOfBlocks DEF Pop, Blocks!Next, TableTypeOK, Tables
    <3> QED BY <3>1, <3>2
  <2>3. CASE \E name \in Names, symbol \in Symbols : Declaration(name, symbol)
    <3>1. PICK name \in Names, symbol \in Symbols : Declaration(name, symbol)
      BY <2>3
    <3>2. CASE scopes = <<>>
      BY <3>1, <3>2, DeclarationBindsFirst DEF Blocks!Next
    <3>3. CASE scopes # <<>> /\ IsFree(scopes, name)
      BY <3>1, <3>3, DeclarationBinds, StepsOfBlocks
         DEF Declaration, Blocks!Next, TableTypeOK, Tables
    <3>4. CASE scopes # <<>> /\ ~IsFree(scopes, name)
      <4>1. scopes \in Tables
        BY DEF TableTypeOK, Tables
      <4> QED BY <3>1, <3>4, <4>1, DeclareProperties DEF Declaration
    <3> QED BY <3>2, <3>3, <3>4
  <2>4. CASE UNCHANGED scopes
    BY <2>4
  <2> QED
    BY <2>1, <2>2, <2>3, <2>4 DEF NextTable
<1>3. scopes' = scopes =>
          (<<Seen(scopes), Owned(scopes)>>)' = <<Seen(scopes), Owned(scopes)>>
  OBVIOUS
<1>4. TableTypeOK /\ [NextTable]_scopes => [Blocks!Next]_<<Seen(scopes), Owned(scopes)>>
  BY <1>2, <1>3
<1>5. TableSpec => []TableTypeOK
  BY TablesAreTyped
<1> QED
  BY <1>1, <1>4, <1>5, PTL DEF TableSpec, ImplementsEnvironment, Blocks!Spec
---------------------------------------------------------------------------
(* The walk.  Between two tasks a number of blocks is open, and the context  *)
(* is that of the innermost one or, while the parameters of a subprogram are *)
(* declared, of the one around it.  A task begins in one such position and   *)
(* leaves another when it and all it gives rise to are done.                 *)

Depth(task) == Len(task.at.path)
DeclaresParams(task) ==
    \/ task.step \in {"Param", "Body"}
    \/ task.step = "Name" /\ task.phrase.kind = "Param"
Before(task) ==
    <<Depth(task), IF DeclaresParams(task) THEN Depth(task) - 1 ELSE Depth(task)>>
After(task) ==
    CASE task.step = "Enter" -> <<Depth(task) + 1, Depth(task)>>
      [] task.step \in {"Body", "Leave"} -> <<Depth(task) - 1, Depth(task) - 1>>
      [] OTHER -> Before(task)
Outermost == <<0, 0>>

(* Each task ends where the next begins, and the last at `end`.              *)
Start(tasks, end) == IF Len(tasks) = 0 THEN end ELSE Before(tasks[1])
Chained(tasks, end) ==
    \A j \in 1..Len(tasks) :
        After(tasks[j]) = IF j = Len(tasks) THEN end ELSE Before(tasks[j + 1])

(* A context in which so many subprograms have begun.                        *)
IsContext(c, n) == IF n = 0 THEN c = OutsideSubprogram ELSE c.inSubprogram

IsTask(task, addresses) ==
    /\ task.step \in Steps
    /\ task.at.path \in Seq(Nat) /\ task.at.k \in Nat
    /\ task.step = "Var" => IsList(task.phrase.names)
    /\ task.step = "Name" => task.phrase.kind \in {"Var", "Param"}
    /\ task.step = "Subprogram" => IsSubprogram(task.phrase)
    /\ task.step = "Param" =>
           /\ IsList(task.phrase.param.names)
           /\ task.phrase.subSym \in addresses \cup {NoSymbol}
    /\ task.step = "Body" => task.phrase.block \in ProgramBlocks /\ Depth(task) # 0
    /\ task.step = "Leave" => IsContext(task.phrase, Depth(task) - 1)

Tasks(tasks, addresses, end) ==
    /\ \E any : tasks \in Seq(any)
    /\ \A j \in 1..Len(tasks) : IsTask(tasks[j], addresses)
    /\ Chained(tasks, end)

IsSymbol(symbol) == "kind" \in DOMAIN symbol /\ symbol.kind \in Kinds
SymbolsInv ==
    /\ \E any : heap \in Seq(any)
    /\ \A address \in DOMAIN heap : IsSymbol(heap[address])
ScopesInv ==
    /\ \E any : scopes \in Seq(any)
    /\ \A k \in DOMAIN scopes : \A name \in DOMAIN scopes[k] :
           scopes[k][name] \in DOMAIN heap
WalkInv ==
    /\ SymbolsInv /\ ScopesInv
    /\ Tasks(work, DOMAIN heap, Outermost)
    /\ Len(scopes) = Start(work, Outermost)[1] + 1
    /\ IsContext(context, Start(work, Outermost)[2])
    /\ crashed \in BOOLEAN
---------------------------------------------------------------------------
(* Sequences of anything.                                                   *)

LEMMA WiderSeq ==
    ASSUME NEW S, NEW T, S \subseteq T, NEW seq \in Seq(S) PROVE seq \in Seq(T)
<1>1. Len(seq) \in Nat /\ seq \in [1..Len(seq) -> S]
  BY LenProperties
<1>2. seq \in [1..Len(seq) -> T]
  BY <1>1
<1> QED
  BY <1>1, <1>2, SeqDef

LEMMA JoinedTasks ==
    ASSUME NEW S, NEW a \in Seq(S), NEW T, NEW b \in Seq(T)
    PROVE  /\ \E any : a \o b \in Seq(any)
           /\ Len(a) \in Nat /\ Len(b) \in Nat /\ Len(a \o b) = Len(a) + Len(b)
           /\ \A j \in 1..Len(a) : (a \o b)[j] = a[j]
           /\ \A j \in 1..Len(b) : (a \o b)[Len(a) + j] = b[j]
<1> DEFINE U == S \cup T
<1>1. a \in Seq(U) /\ b \in Seq(U)
  <2>1. S \subseteq U /\ T \subseteq U
    OBVIOUS
  <2> HIDE DEF U
  <2> QED BY <2>1, WiderSeq
<1> HIDE DEF U
<1>2. a \o b \in Seq(U)
  BY <1>1, ConcatProperties
<1>3. Len(a) \in Nat /\ Len(b) \in Nat /\ Len(a \o b) = Len(a) + Len(b)
  BY <1>1, ConcatProperties, LenProperties
<1>4. \A j \in 1..Len(a) : (a \o b)[j] = a[j]
  <2> TAKE j \in 1..Len(a)
  <2>1. j \in 1..Len(a) + Len(b) /\ j <= Len(a)
    BY <1>3
  <2> QED BY <1>1, <2>1, ConcatProperties
<1>5. \A j \in 1..Len(b) : (a \o b)[Len(a) + j] = b[j]
  <2> TAKE j \in 1..Len(b)
  <2>1. Len(a) + j \in 1..Len(a) + Len(b) /\ ~(Len(a) + j <= Len(a)) /\ Len(a) + j - Len(a) = j
    BY <1>3
  <2> QED BY <1>1, <2>1, ConcatProperties
<1> QED
  BY <1>2, <1>3, <1>4, <1>5

(* What a list of tasks followed by another leaves.                         *)
LEMMA ChainedTasks ==
    ASSUME NEW addresses, NEW end, NEW a, NEW b,
           Tasks(b, addresses, end), Tasks(a, addresses, Start(b, end))
    PROVE  Tasks(a \o b, addresses, end) /\ Start(a \o b, end) = Start(a, Start(b, end))
<1> DEFINE c == a \o b
           m == Len(a)
           n == Len(b)
<1>1. /\ \E any : c \in Seq(any)
      /\ m \in Nat /\ n \in Nat /\ Len(c) = m + n
      /\ \A j \in 1..m : c[j] = a[j]
      /\ \A j \in 1..n : c[m + j] = b[j]
  <2>1. PICK S : a \in Seq(S)
    BY DEF Tasks
  <2>2. PICK T : b \in Seq(T)
    BY DEF Tasks
  <2> QED BY <2>1, <2>2, JoinedTasks
<1>2. /\ \A j \in 1..m : IsTask(a[j], addresses)
      /\ \A j \in 1..n : IsTask(b[j], addresses)
      /\ \A j \in 1..m : After(a[j]) = IF j = m THEN Start(b, end) ELSE Before(a[j + 1])
      /\ \A j \in 1..n : After(b[j]) = IF j = n THEN end ELSE Before(b[j + 1])
  BY DEF Tasks, Chained
<1> HIDE DEF c, m, n
<1>3. \A j \in 1..m + n : j \in 1..m \/ (j - m \in 1..n /\ j = m + (j - m))
  BY <1>1
<1>4. \A j \in 1..Len(c) : IsTask(c[j], addresses)
  <2> TAKE j \in 1..Len(c)
  <2>1. CASE j \in 1..m
    BY <1>1, <1>2, <2>1
  <2>2. CASE j - m \in 1..n /\ j = m + (j - m)
    BY <1>1, <1>2, <2>2
  <2> QED BY <1>1, <1>3, <2>1, <2>2
<1>5. Chained(c, end)
  <2> SUFFICES ASSUME NEW j \in 1..Len(c)
               PROVE  After(c[j]) = IF j = Len(c) THEN end ELSE Before(c[j + 1])
    BY DEF Chained
  <2>1. CASE j \in 1..m /\ j # m
    <3>1. j + 1 \in 1..m /\ j # Len(c)
      BY <1>1, <2>1
    <3> QED BY <1>1, <1>2, <2>1, <3>1
  <2>2. CASE j = m /\ j \in 1..m
    <3>1. After(c[j]) = Start(b, end)
      BY <1>1, <1>2, <2>2
    <3>2. CASE n = 0
      BY <1>1, <2>2, <3>1, <3>2 DEF Start, n
    <3>3. CASE n # 0
      <4>1. 1 \in 1..n /\ j # Len(c) /\ j + 1 = m + 1
        BY <1>1, <2>2, <3>3
      <4> QED BY <1>1, <3>1, <3>3, <4>1 DEF Start, n
    <3> QED BY <3>2, <3>3
  <2>3. CASE j - m \in 1..n /\ j = m + (j - m)
    <3>1. PICK i \in 1..n : j = m + i
      BY <2>3
    <3>2. (i = n <=> j = Len(c)) /\ j + 1 = m + (i + 1) /\ (i # n => i + 1 \in 1..n)
      BY <1>1, <3>1
    <3>3. c[j] = b[i] /\ (i # n => c[j + 1] = b[i + 1])
      BY <1>1, <3>1, <3>2
    <3> QED BY <1>2, <3>2, <3>3
  <2> QED BY <1>1, <1>3, <2>1, <2>2, <2>3
<1>6. Start(c, end) = Start(a, Start(b, end))
  <2>1. CASE m = 0
    <3>1. n # 0 => 1 \in 1..n /\ c[1] = b[1]
      <4> SUFFICES ASSUME n # 0 PROVE 1 \in 1..n /\ c[1] = b[1]
        OBVIOUS
      <4>1. 1 \in 1..n /\ m + 1 = 1
        BY <1>1, <2>1
      <4> QED BY <1>1, <4>1
    <3> QED BY <1>1, <2>1, <3>1 DEF Start, m, n
  <2>2. CASE m # 0
    <3>1. 1 \in 1..m /\ Len(c) # 0
      BY <1>1, <2>2
    <3> QED BY <1>1, <2>2, <3>1 DEF Start, m
  <2> QED BY <2>1, <2>2
<1> QED
  BY <1>1, <1>4, <1>5, <1>6 DEF Tasks, c

LEMMA NoTasks ==
    ASSUME NEW addresses, NEW end
    PROVE  Tasks(<<>>, addresses, end) /\ Start(<<>>, end) = end
<1>1. <<>> \in Seq({}) /\ Len(<<>>) = 0
  BY EmptySeq
<1> QED
  BY <1>1 DEF Tasks, Chained, Start

LEMMA OneTask ==
    ASSUME NEW addresses, NEW task, IsTask(task, addresses)
    PROVE  Tasks(<<task>>, addresses, After(task)) /\ Start(<<task>>, After(task)) = Before(task)
<1>1. <<task>> \in Seq({task}) /\ Len(<<task>>) = 1 /\ <<task>>[1] = task
  OBVIOUS
<1> DEFINE tasks == <<task>>
<1>2. /\ tasks \in Seq({task}) /\ Len(tasks) = 1
      /\ \A j \in 1..1 : j = 1 /\ tasks[j] = task
  BY <1>1
<1> HIDE DEF tasks
<1>3. Chained(tasks, After(task))
  BY <1>2 DEF Chained
<1>4. Start(tasks, After(task)) = Before(task)
  BY <1>2 DEF Start
<1> QED
  BY <1>2, <1>3, <1>4 DEF Tasks, tasks

(* Tasks that all begin and end in one position.                            *)
LEMMA EvenTasks ==
    ASSUME NEW addresses, NEW end, NEW tasks, NEW n \in Nat, DOMAIN tasks = 1..n,
           tasks = [k \in 1..n |-> tasks[k]],
           \A k \in 1..n : /\ IsTask(tasks[k], addresses)
                           /\ Before(tasks[k]) = end /\ After(tasks[k]) = end
    PROVE  Tasks(tasks, addresses, end) /\ Start(tasks, end) = end
<1> DEFINE S == {tasks[k] : k \in 1..n}
<1>1. tasks \in [1..n -> S]
  BY SMT
<1>2. tasks \in Seq(S)
  <2> HIDE DEF S
  <2> QED BY <1>1, SeqDef
<1>3. Len(tasks) = n
  <2> HIDE DEF S
  <2> QED BY <1>2, LenProperties
<1>4. Chained(tasks, end)
  <2> SUFFICES ASSUME NEW j \in 1..n
               PROVE  After(tasks[j]) = IF j = n THEN end ELSE Before(tasks[j + 1])
    BY <1>3 DEF Chained
  <2>1. j # n => j + 1 \in 1..n
    OBVIOUS
  <2> QED BY <2>1
<1>5. n # 0 => 1 \in 1..n
  OBVIOUS
<1> QED
  BY <1>2, <1>3, <1>4, <1>5 DEF Tasks, Start

---------------------------------------------------------------------------
(* The tasks that the walk puts on its stack.                               *)

LEMMA TaskFields ==
    ASSUME NEW step, NEW phrase, NEW path \in Seq(Nat), NEW part, NEW k \in Nat
    PROVE  LET task == Task(step, phrase, Place(path, part, k))
           IN  /\ task.step = step /\ task.phrase = phrase
               /\ task.at.path = path /\ task.at.k = k
               /\ Depth(task) = Len(path) /\ Len(path) \in Nat
  BY LenProperties DEF Task, Place, Depth

PartSteps == {"Const", "Type", "Var", "Subprogram", "Statement"}

LEMMA PartIsTasks ==
    ASSUME NEW addresses, NEW step \in PartSteps, NEW items, IsList(items),
           NEW path \in Seq(Nat), NEW part,
           step = "Var" => \A k \in DOMAIN items : IsList(items[k].names),
           step = "Subprogram" => \A k \in DOMAIN items : IsSubprogram(items[k])
    PROVE  LET here == <<Len(path), Len(path)>>
           IN  /\ Tasks(PartTasks(step, items, path, part), addresses, here)
               /\ Start(PartTasks(step, items, path, part), here) = here
<1> DEFINE here == <<Len(path), Len(path)>>
           tasks == PartTasks(step, items, path, part)
           n == Len(items)
<1>1. n \in Nat /\ DOMAIN items = 1..n
  BY DEF IsList
<1>2. tasks = [k \in 1..n |-> Task(step, items[k], Place(path, part, k))]
  BY <1>1 DEF PartTasks
<1> HIDE DEF n, tasks
<1>3. /\ DOMAIN tasks = 1..n
      /\ tasks = [k \in 1..n |-> tasks[k]]
      /\ \A k \in 1..n : tasks[k] = Task(step, items[k], Place(path, part, k))
  BY <1>2
<1>4. ASSUME NEW k \in 1..n
      PROVE  /\ IsTask(tasks[k], addresses)
             /\ Before(tasks[k]) = here /\ After(tasks[k]) = here
  <2> DEFINE task == Task(step, items[k], Place(path, part, k))
  <2>1. /\ task.step = step /\ task.phrase = items[k]
        /\ task.at.path = path /\ task.at.k = k
        /\ Depth(task) = Len(path) /\ Len(path) \in Nat
    BY <1>1, TaskFields
  <2> HIDE DEF task
  <2>2. IsTask(task, addresses)
    BY <1>1, <2>1 DEF IsTask, PartSteps, Steps
  <2>3. ~DeclaresParams(task)
    BY <2>1 DEF DeclaresParams, PartSteps
  <2>4. Before(task) = here /\ After(task) = here
    BY <2>1, <2>3 DEF Before, After, PartSteps
  <2> QED BY <1>3, <2>2, <2>4 DEF task
<1> HIDE DEF here
<1>5. Tasks(tasks, addresses, here) /\ Start(tasks, here) = here
  BY <1>1, <1>3, <1>4, EvenTasks
<1> QED
  BY <1>5 DEF here, tasks

LEMMA BlockIsTasks ==
    ASSUME NEW addresses, NEW block, IsBlock(block), NEW path \in Seq(Nat)
    PROVE  LET here == <<Len(path), Len(path)>>
           IN  /\ Tasks(BlockTasks(block, path), addresses, here)
               /\ Start(BlockTasks(block, path), here) = here
<1> DEFINE here == <<Len(path), Len(path)>>
           consts == PartTasks("Const", block.consts, path, "consts")
           types == PartTasks("Type", block.types, path, "types")
           variables == PartTasks("Var", block.vars, path, "vars")
           subprograms == PartTasks("Subprogram", block.subprograms, path, "subprograms")
           statements == PartTasks("Statement", block.statements, path, "statements")
<1>1. /\ IsList(block.consts) /\ IsList(block.types) /\ IsList(block.vars)
      /\ IsList(block.subprograms) /\ IsList(block.statements)
      /\ \A k \in DOMAIN block.vars : IsList(block.vars[k].names)
      /\ \A k \in DOMAIN block.subprograms : IsSubprogram(block.subprograms[k])
  BY DEF IsBlock
<1>2. Tasks(consts, addresses, here) /\ Start(consts, here) = here
  BY <1>1, PartIsTasks DEF PartSteps
<1>3. Tasks(types, addresses, here) /\ Start(types, here) = here
  BY <1>1, PartIsTasks DEF PartSteps
<1>4. Tasks(variables, addresses, here) /\ Start(variables, here) = here
  BY <1>1, PartIsTasks DEF PartSteps
<1>5. Tasks(subprograms, addresses, here) /\ Start(subprograms, here) = here
  BY <1>1, PartIsTasks DEF PartSteps
<1>6. Tasks(statements, addresses, here) /\ Start(statements, here) = here
  BY <1>1, PartIsTasks DEF PartSteps
<1> HIDE DEF here, consts, types, variables, subprograms, statements
<1>7. /\ Tasks(consts \o types, addresses, here)
      /\ Start(consts \o types, here) = here
  BY <1>2, <1>3, ChainedTasks
<1>8. /\ Tasks(consts \o types \o variables, addresses, here)
      /\ Start(consts \o types \o variables, here) = here
  BY <1>4, <1>7, ChainedTasks
<1>9. /\ Tasks(consts \o types \o variables \o subprograms, addresses, here)
      /\ Start(consts \o types \o variables \o subprograms, here) = here
  BY <1>5, <1>8, ChainedTasks
<1>10. /\ Tasks(consts \o types \o variables \o subprograms \o statements, addresses, here)
       /\ Start(consts \o types \o variables \o subprograms \o statements, here) = here
  BY <1>6, <1>9, ChainedTasks
<1> QED
  BY <1>10 DEF BlockTasks, here, consts, types, variables, subprograms, statements

LEMMA NamesAreTasks ==
    ASSUME NEW addresses, NEW names, IsList(names), NEW kind \in {"Var", "Param"}, NEW type,
           NEW task, IsTask(task, addresses), task.step = kind
    PROVE  /\ Tasks(NameTasks(names, kind, type, task.at), addresses, After(task))
           /\ Start(NameTasks(names, kind, type, task.at), After(task)) = After(task)
<1> DEFINE end == After(task)
           tasks == NameTasks(names, kind, type, task.at)
           n == Len(names)
           name(k) == [name |-> names[k], kind |-> kind, type |-> type]
<1>1. n \in Nat /\ DOMAIN names = 1..n
  BY DEF IsList
<1>2. tasks = [k \in 1..n |-> Task("Name", name(k), task.at)]
  BY <1>1 DEF NameTasks
<1> HIDE DEF n, tasks
<1>3. /\ DOMAIN tasks = 1..n
      /\ tasks = [k \in 1..n |-> tasks[k]]
      /\ \A k \in 1..n : tasks[k] = Task("Name", name(k), task.at)
  BY <1>2
<1>4. ASSUME NEW k \in 1..n
      PROVE  /\ IsTask(tasks[k], addresses)
             /\ Before(tasks[k]) = end /\ After(tasks[k]) = end
  <2> DEFINE new == Task("Name", name(k), task.at)
  <2>1. /\ new.step = "Name" /\ new.phrase.kind = kind /\ new.at = task.at
        /\ Depth(new) = Depth(task)
    BY DEF Task, Depth
  <2> HIDE DEF new
  <2>2. IsTask(new, addresses)
    BY <2>1 DEF IsTask, Steps
  <2>3. DeclaresParams(new) <=> DeclaresParams(task)
    BY <2>1 DEF DeclaresParams
  <2>4. Before(new) = Before(task) /\ After(new) = Before(new) /\ end = Before(task)
    BY <2>1, <2>3 DEF Before, After
  <2> QED BY <1>3, <2>2, <2>4 DEF new
<1> HIDE DEF end
<1>5. Tasks(tasks, addresses, end) /\ Start(tasks, end) = end
  BY <1>1, <1>3, <1>4, EvenTasks
<1> QED
  BY <1>5 DEF end, tasks

LEMMA OneLess == ASSUME NEW d \in Nat, NEW m, m = d + 1 PROVE m - 1 = d
  OBVIOUS

(* The groups of parameters of a subprogram, its body, and before them the  *)
(* scope it opens.                                                          *)
SubprogramTasks(sub, at, path, subSym) ==
    <<Task("Enter", sub, at)>>
    \o PartTasks("Param",
           [k \in DOMAIN sub.params |-> [param |-> sub.params[k], subSym |-> subSym]],
           path, "params")
    \o <<Task("Body", sub, Place(path, "body", 1))>>

LEMMA SubprogramIsTasks ==
    ASSUME NEW addresses, NEW task, IsTask(task, addresses), task.step = "Subprogram",
           NEW subSym \in addresses \cup {NoSymbol}
    PROVE  LET tasks == SubprogramTasks(task.phrase, task.at,
                                        Append(task.at.path, task.at.k), subSym)
           IN  /\ Tasks(tasks, addresses, After(task))
               /\ Start(tasks, After(task)) = Before(task)
<1> DEFINE sub == task.phrase
           path == Append(task.at.path, task.at.k)
           d == Depth(task)
           enter == Task("Enter", sub, task.at)
           groups == [k \in DOMAIN sub.params |-> [param |-> sub.params[k], subSym |-> subSym]]
           params == PartTasks("Param", groups, path, "params")
           body == Task("Body", sub, Place(path, "body", 1))
           n == Len(sub.params)
<1>1. task.at.path \in Seq(Nat) /\ task.at.k \in Nat /\ IsSubprogram(sub)
  BY DEF IsTask
<1>2. path \in Seq(Nat) /\ Len(path) = d + 1 /\ d \in Nat
  BY <1>1, AppendProperties, LenProperties DEF Depth
<1>3. /\ n \in Nat /\ DOMAIN sub.params = 1..n
      /\ \A k \in 1..n : IsList(sub.params[k].names)
      /\ sub.block \in ProgramBlocks
  BY <1>1 DEF IsSubprogram, IsList
<1>4. Before(task) = <<d, d>> /\ After(task) = <<d, d>>
  BY DEF Before, After, DeclaresParams
<1>5. /\ IsTask(enter, addresses)
      /\ Before(enter) = <<d, d>> /\ After(enter) = <<d + 1, d>>
  <2>1. enter.step = "Enter" /\ enter.at = task.at /\ Depth(enter) = d
    BY DEF Task, Depth
  <2> HIDE DEF enter
  <2> QED BY <1>1, <2>1 DEF IsTask, Steps, Before, After, DeclaresParams
<1>6. /\ IsTask(body, addresses)
      /\ Before(body) = <<d + 1, d>> /\ After(body) = <<d, d>>
  <2> HIDE DEF path, sub
  <2>1. /\ body.step = "Body" /\ body.phrase = sub
        /\ body.at.path = path /\ body.at.k = 1 /\ Depth(body) = d + 1
    BY <1>2, TaskFields
  <2> HIDE DEF body
  <2>2. d + 1 - 1 = d
    BY <1>2
  <2> QED BY <1>2, <1>3, <2>1, <2>2 DEF IsTask, Steps, Before, After, DeclaresParams
<1>7. /\ Tasks(params, addresses, <<d + 1, d>>)
      /\ Start(params, <<d + 1, d>>) = <<d + 1, d>>
  <2> HIDE DEF path, sub, n
  <2>1. params = [k \in 1..n |->
                     Task("Param", [param |-> sub.params[k], subSym |-> subSym],
                          Place(path, "params", k))]
    BY <1>3 DEF PartTasks
  <2> HIDE DEF params
  <2>2. /\ DOMAIN params = 1..n
        /\ params = [k \in 1..n |-> params[k]]
        /\ \A k \in 1..n :
               params[k] = Task("Param", [param |-> sub.params[k], subSym |-> subSym],
                                Place(path, "params", k))
    BY <2>1
  <2>3. ASSUME NEW k \in 1..n
        PROVE  /\ IsTask(params[k], addresses)
               /\ Before(params[k]) = <<d + 1, d>> /\ After(params[k]) = <<d + 1, d>>
    <3> DEFINE group == [param |-> sub.params[k], subSym |-> subSym]
               new == Task("Param", group, Place(path, "params", k))
    <3>1. group.param = sub.params[k] /\ group.subSym = subSym
      OBVIOUS
    <3> HIDE DEF group
    <3>2. /\ new.step = "Param" /\ new.phrase = group
          /\ new.at.path = path /\ new.at.k = k /\ Depth(new) = d + 1
      BY <1>2, <1>3, TaskFields
    <3> HIDE DEF new
    <3>3. d + 1 - 1 = d
      BY <1>2
    <3>4. IsTask(new, addresses)
      BY <1>2, <1>3, <3>1, <3>2 DEF IsTask, Steps
    <3>5. Before(new) = <<d + 1, d>> /\ After(new) = Before(new)
      <4>1. DeclaresParams(new)
        BY <3>2 DEF DeclaresParams
      <4>2. Before(new) = <<Depth(new), Depth(new) - 1>>
        BY <4>1 DEF Before
      <4>3. After(new) = Before(new)
        BY <3>2 DEF After
      <4>4. Depth(new) = d + 1
        BY <3>2
      <4>5. Depth(new) - 1 = d
        <5> HIDE DEF d
        <5> QED BY <1>2, <4>4, OneLess
      <4> QED BY <4>2, <4>3, <4>4, <4>5
    <3> QED BY <2>2, <3>4, <3>5 DEF new, group
  <2> HIDE DEF d
  <2> QED BY <1>3, <2>2, <2>3, EvenTasks
<1> HIDE DEF enter, params, body, d
<1>8. /\ Tasks(<<enter>>, addresses, <<d + 1, d>>)
      /\ Start(<<enter>>, <<d + 1, d>>) = <<d, d>>
  BY <1>5, OneTask
<1>9. /\ Tasks(<<body>>, addresses, <<d, d>>)
      /\ Start(<<body>>, <<d, d>>) = <<d + 1, d>>
  BY <1>6, OneTask
<1>10. /\ Tasks(<<enter>> \o params, addresses, <<d + 1, d>>)
       /\ Start(<<enter>> \o params, <<d + 1, d>>) = <<d, d>>
  BY <1>7, <1>8, ChainedTasks
<1>11. /\ Tasks(<<enter>> \o params \o <<body>>, addresses, <<d, d>>)
       /\ Start(<<enter>> \o params \o <<body>>, <<d, d>>) = <<d, d>>
  BY <1>9, <1>10, ChainedTasks
<1> QED
  BY <1>4, <1>11 DEF SubprogramTasks, enter, params, body

---------------------------------------------------------------------------
(* The table and the symbols, whatever the scopes hold.                     *)

LEMMA WithAny ==
    ASSUME NEW scope, NEW name, NEW symbol
    PROVE  /\ DOMAIN With(scope, name, symbol) = DOMAIN scope \cup {name}
           /\ With(scope, name, symbol)[name] = symbol
           /\ \A x \in DOMAIN scope :
                  x # name => With(scope, name, symbol)[x] = scope[x]
  BY DEF With

LEMMA DeclareAny ==
    ASSUME NEW S, NEW table \in Seq(S), table # <<>>, NEW name, NEW symbol
    PROVE  LET n == Len(table)
               after == Declare(table, name, symbol)
           IN  /\ n \in Nat \ {0} /\ DOMAIN table = 1..n
               /\ IsFree(table, name) <=> name \notin DOMAIN table[n]
               /\ ~IsFree(table, name) => after = table
               /\ IsFree(table, name) =>
                    /\ \E any : after \in Seq(any)
                    /\ Len(after) = n
                    /\ \A k \in 1..n - 1 : after[k] = table[k]
                    /\ after[n] = With(table[n], name, symbol)
<1> DEFINE n == Len(table)
           top == With(table[n], name, symbol)
           T == S \cup {top}
<1>1. n \in Nat \ {0} /\ n \in 1..n /\ DOMAIN table = 1..n
  BY LenProperties, EmptySeq
<1>2. Ready(table) = table
  BY DEF Ready
<1>3. table \in Seq(T) /\ top \in T
  <2>1. S \subseteq T /\ top \in T
    OBVIOUS
  <2> HIDE DEF T
  <2> QED BY <2>1, WiderSeq
<1>4. /\ [table EXCEPT ![n] = top] \in Seq(T)
      /\ Len([table EXCEPT ![n] = top]) = Len(table)
      /\ \A j \in 1..Len(table) :
             [table EXCEPT ![n] = top][j] = IF j = n THEN top ELSE table[j]
  <2> HIDE DEF n, top, T
  <2>1. n \in 1..Len(table)
    BY <1>1 DEF n
  <2> QED BY <1>3, <2>1, ExceptSeq
<1>5. IsFree(table, name) => Declare(table, name, symbol) = [table EXCEPT ![n] = top]
  BY <1>2 DEF Declare
<1>6. ~IsFree(table, name) => Declare(table, name, symbol) = table
  BY <1>2 DEF Declare
<1>7. IsFree(table, name) <=> name \notin DOMAIN table[n]
  BY <1>2 DEF IsFree
<1> DEFINE after == Declare(table, name, symbol)
<1>8. IsFree(table, name) => after \in Seq(T)
  BY <1>4, <1>5
<1> HIDE DEF T
<1>9. IsFree(table, name) => \E any : after \in Seq(any)
  BY <1>8
<1> HIDE DEF n, top
<1>10. \A k \in 1..n - 1 : k \in 1..n /\ k # n
  BY <1>1
<1>11. IsFree(table, name) =>
          /\ Len(after) = n
          /\ \A k \in 1..n - 1 : after[k] = table[k]
          /\ after[n] = top
  <2> SUFFICES ASSUME IsFree(table, name)
               PROVE  /\ Len(after) = n
                      /\ \A k \in 1..n - 1 : after[k] = table[k]
                      /\ after[n] = top
    OBVIOUS
  <2>1. Len(after) = n /\ \A j \in 1..n : after[j] = IF j = n THEN top ELSE table[j]
    BY <1>4, <1>5 DEF n
  <2> HIDE DEF after
  <2> QED BY <1>1, <1>10, <2>1
<1> HIDE DEF after
<1> QED
  BY <1>1, <1>6, <1>7, <1>9, <1>11 DEF top, n, after

LEMMA AppendAny ==
    ASSUME NEW S, NEW seq \in Seq(S), NEW e
    PROVE  /\ \E any : Append(seq, e) \in Seq(any)
           /\ Len(seq) \in Nat /\ DOMAIN seq = 1..Len(seq)
           /\ Len(Append(seq, e)) = Len(seq) + 1
           /\ DOMAIN Append(seq, e) = 1..Len(seq) + 1
           /\ \A j \in 1..Len(seq) : Append(seq, e)[j] = seq[j]
           /\ Append(seq, e)[Len(seq) + 1] = e
<1> DEFINE T == S \cup {e}
<1>1. seq \in Seq(T) /\ e \in T
  <2>1. S \subseteq T /\ e \in T
    OBVIOUS
  <2> HIDE DEF T
  <2> QED BY <2>1, WiderSeq
<1> HIDE DEF T
<1>2. /\ Append(seq, e) \in Seq(T) /\ Len(Append(seq, e)) = Len(seq) + 1
      /\ \A j \in 1..Len(seq) : Append(seq, e)[j] = seq[j]
      /\ Append(seq, e)[Len(seq) + 1] = e
  BY <1>1, AppendProperties
<1>3. DOMAIN Append(seq, e) = 1..Len(seq) + 1 /\ Len(seq) \in Nat /\ DOMAIN seq = 1..Len(seq)
  BY <1>1, <1>2, LenProperties
<1> QED
  BY <1>2, <1>3

(* A declaration: the table keeps its height, and a new name leads to the   *)
(* new symbol.                                                              *)
LEMMA DeclarationKeepsOrder ==
    ASSUME SymbolsInv, ScopesInv, scopes # <<>>, NEW name, NEW symbol, NEW at, NEW faults,
           IsSymbol(symbol), DeclareSymbol(name, symbol, at, faults)
    PROVE  /\ SymbolsInv' /\ ScopesInv' /\ crashed' \in BOOLEAN
           /\ DOMAIN heap \subseteq DOMAIN heap'
           /\ Len(scopes') = Len(scopes) /\ Len(scopes) \in Nat
           /\ IsFree(scopes, name) => Len(heap) + 1 \in DOMAIN heap'
<1> DEFINE new == Len(heap) + 1
           n == Len(scopes)
<1>1. PICK S : heap \in Seq(S)
  BY DEF SymbolsInv
<1>2. PICK T : scopes \in Seq(T)
  BY DEF ScopesInv
<1>3. crashed' \in BOOLEAN
  BY DEF DeclareSymbol, Report
<1>4. /\ scopes' = Declare(scopes, name, new)
      /\ heap' = IF IsFree(scopes, name) THEN Append(heap, symbol) ELSE heap
  BY DEF DeclareSymbol
<1>5. /\ n \in Nat \ {0} /\ DOMAIN scopes = 1..n
      /\ ~IsFree(scopes, name) => scopes' = scopes
      /\ IsFree(scopes, name) =>
           /\ \E any : scopes' \in Seq(any)
           /\ Len(scopes') = n
           /\ \A k \in 1..n - 1 : scopes'[k] = scopes[k]
           /\ scopes'[n] = With(scopes[n], name, new)
  BY <1>2, <1>4, DeclareAny
<1>6. /\ \E any : Append(heap, symbol) \in Seq(any)
      /\ Len(heap) \in Nat /\ DOMAIN heap = 1..Len(heap)
      /\ DOMAIN Append(heap, symbol) = 1..new
      /\ \A j \in 1..Len(heap) : Append(heap, symbol)[j] = heap[j]
      /\ Append(heap, symbol)[new] = symbol
  <2> HIDE DEF n
  <2>1. \A e : /\ \E any : Append(heap, e) \in Seq(any)
              /\ Len(heap) \in Nat /\ DOMAIN heap = 1..Len(heap)
              /\ DOMAIN Append(heap, e) = 1..Len(heap) + 1
              /\ \A j \in 1..Len(heap) : Append(heap, e)[j] = heap[j]
              /\ Append(heap, e)[Len(heap) + 1] = e
    BY <1>1, AppendAny
  <2>2. \E any : Append(heap, symbol) \in Seq(any)
    BY <2>1
  <2>3. DOMAIN Append(heap, symbol) = 1..new /\ Append(heap, symbol)[new] = symbol
    BY <2>1
  <2>4. \A j \in 1..Len(heap) : Append(heap, symbol)[j] = heap[j]
    BY <2>1
  <2> HIDE DEF new
  <2> QED BY <2>1, <2>2, <2>3, <2>4
<1>7. CASE ~IsFree(scopes, name)
  <2>1. scopes' = scopes /\ heap' = heap
    BY <1>4, <1>5, <1>7
  <2> QED BY <1>3, <1>5, <1>7, <2>1 DEF SymbolsInv, ScopesInv
<1>8. CASE IsFree(scopes, name)
  <2> HIDE DEF new
  <2>1. heap' = Append(heap, symbol)
    BY <1>4, <1>8
  <2>2. DOMAIN heap \subseteq DOMAIN heap' /\ new \in DOMAIN heap'
    BY <1>6, <2>1 DEF new
  <2>3. SymbolsInv'
    <3>1. \A address \in 1..new : address = new \/ address \in 1..Len(heap)
      BY <1>6 DEF new
    <3>2. ASSUME NEW address \in DOMAIN heap' PROVE IsSymbol(heap'[address])
      BY <1>6, <2>1, <3>1 DEF SymbolsInv
    <3> QED BY <1>6, <2>1, <3>2 DEF SymbolsInv
  <2>4. ScopesInv'
    <3>1. PICK any : scopes' \in Seq(any)
      BY <1>5, <1>8
    <3>2. DOMAIN scopes' = 1..n
      BY <1>5, <1>8, <3>1, LenProperties
    <3>3. ASSUME NEW k \in 1..n, NEW x \in DOMAIN scopes'[k]
          PROVE  scopes'[k][x] \in DOMAIN heap'
      <4>1. CASE k # n
        <5>1. k \in 1..n - 1
          <6> HIDE DEF n
          <6> QED BY <1>5, <4>1
        <5> QED BY <1>5, <1>8, <2>2, <5>1 DEF ScopesInv
      <4>2. CASE k = n
        <5> DEFINE old == scopes[n]
                   top == With(old, name, new)
        <5>1. scopes'[k] = top
          BY <1>5, <1>8, <4>2
        <5>2. /\ DOMAIN top = DOMAIN old \cup {name} /\ top[name] = new
              /\ \A y \in DOMAIN old : y # name => top[y] = old[y]
          <6> HIDE DEF old
          <6> QED BY DEF With
        <5>3. \A y \in DOMAIN old : old[y] \in DOMAIN heap
          <6>1. n \in DOMAIN scopes
            BY <1>5
          <6> QED BY <6>1 DEF ScopesInv
        <5> HIDE DEF top, old
        <5> QED BY <2>2, <5>1, <5>2, <5>3
      <4> QED BY <4>1, <4>2
    <3> QED BY <3>1, <3>2, <3>3 DEF ScopesInv
  <2> QED BY <1>3, <1>5, <1>8, <2>2, <2>3, <2>4 DEF new
<1> QED
  BY <1>7, <1>8

---------------------------------------------------------------------------
(* One task done, and those it gives rise to put in its place.              *)

LEMMA MoreAddresses ==
    ASSUME NEW tasks, NEW addresses, NEW more, addresses \subseteq more, NEW end,
           Tasks(tasks, addresses, end)
    PROVE  Tasks(tasks, more, end)
<1>1. \A j \in 1..Len(tasks) : IsTask(tasks[j], addresses) => IsTask(tasks[j], more)
  BY DEF IsTask
<1> QED
  BY <1>1 DEF Tasks

LEMMA FirstTask ==
    ASSUME NEW tasks, tasks # <<>>, NEW addresses, NEW end, Tasks(tasks, addresses, end)
    PROVE  /\ Start(tasks, end) = Before(Head(tasks))
           /\ IsTask(Head(tasks), addresses)
           /\ Tasks(Tail(tasks), addresses, end)
           /\ Start(Tail(tasks), end) = After(Head(tasks))
<1> DEFINE n == Len(tasks)
           rest == Tail(tasks)
<1>1. PICK S : tasks \in Seq(S)
  BY DEF Tasks
<1>2. n \in Nat \ {0} /\ Head(tasks) = tasks[1]
  BY <1>1, LenProperties, EmptySeq
<1>3. rest \in Seq(S) /\ Len(rest) = n - 1 /\ \A j \in 1..n - 1 : rest[j] = tasks[j + 1]
  BY <1>1, HeadTailProperties
<1>4. /\ \A j \in 1..n : IsTask(tasks[j], addresses)
      /\ \A j \in 1..n : After(tasks[j]) = IF j = n THEN end ELSE Before(tasks[j + 1])
  BY DEF Tasks, Chained
<1> HIDE DEF n, rest
<1>5. 1 \in 1..n /\ \A j \in 1..n - 1 : j + 1 \in 1..n /\ (j = n - 1 <=> j + 1 = n)
  BY <1>2
<1>6. \A j \in 1..n - 1 : IsTask(rest[j], addresses)
  BY <1>3, <1>4, <1>5
<1>7. Chained(rest, end)
  <2> SUFFICES ASSUME NEW j \in 1..n - 1
               PROVE  After(rest[j]) = IF j = n - 1 THEN end ELSE Before(rest[j + 1])
    BY <1>3 DEF Chained
  <2>1. After(rest[j]) = IF j + 1 = n THEN end ELSE Before(tasks[j + 1 + 1])
    BY <1>3, <1>4, <1>5
  <2>2. j # n - 1 => rest[j + 1] = tasks[j + 1 + 1]
    <3>1. j # n - 1 => j + 1 \in 1..n - 1
      BY <1>2
    <3> QED BY <1>3, <3>1
  <2> QED BY <1>5, <2>1, <2>2
<1>8. Start(rest, end) = After(tasks[1])
  <2>1. CASE n = 1
    BY <1>2, <1>3, <1>4, <1>5, <2>1 DEF Start
  <2>2. CASE n # 1
    <3>1. 1 \in 1..n - 1 /\ n - 1 # 0
      BY <1>2, <2>2
    <3>2. rest[1] = tasks[1 + 1] /\ After(tasks[1]) = Before(tasks[1 + 1])
      BY <1>3, <1>4, <1>5, <2>2, <3>1
    <3> QED BY <1>3, <3>1, <3>2 DEF Start
  <2> QED BY <2>1, <2>2
<1>9. Start(tasks, end) = Before(tasks[1])
  BY <1>2 DEF Start, n
<1> QED
  BY <1>2, <1>3, <1>4, <1>5, <1>6, <1>7, <1>8, <1>9 DEF Tasks, rest

LEMMA Continues ==
    ASSUME work # <<>>, NEW addresses, NEW more, addresses \subseteq more,
           Tasks(work, addresses, Outermost), NEW tasks,
           Tasks(tasks, more, After(Head(work))), Continue(tasks)
    PROVE  /\ Tasks(work', more, Outermost)
           /\ Start(work', Outermost) = Start(tasks, After(Head(work)))
<1>1. /\ Tasks(Tail(work), addresses, Outermost)
      /\ Start(Tail(work), Outermost) = After(Head(work))
  BY FirstTask
<1>2. Tasks(Tail(work), more, Outermost)
  BY <1>1, MoreAddresses
<1>3. work' = tasks \o Tail(work)
  BY DEF Continue
<1> QED
  BY <1>1, <1>2, <1>3, ChainedTasks

LEMMA StepIsKept ==
    ASSUME WalkInv, work # <<>>, NEW tasks, Continue(tasks),
           SymbolsInv', ScopesInv', crashed' \in BOOLEAN, DOMAIN heap \subseteq DOMAIN heap',
           Tasks(tasks, DOMAIN heap', After(Head(work))),
           NEW begin, begin = Start(tasks, After(Head(work))),
           Len(scopes') = begin[1] + 1, IsContext(context', begin[2])
    PROVE  WalkInv'
<1>1. Tasks(work, DOMAIN heap, Outermost)
  BY DEF WalkInv
<1>2. Tasks(work', DOMAIN heap', Outermost) /\ Start(work', Outermost) = begin
  BY <1>1, Continues
<1> QED
  BY <1>2 DEF WalkInv

(* Where the walk is when it comes to a task.                               *)
LEMMA AtTask ==
    ASSUME WalkInv, NEW step, At(step)
    PROVE  LET task == Head(work)
           IN  /\ work # <<>> /\ scopes # <<>> /\ SymbolsInv /\ ScopesInv
               /\ IsTask(task, DOMAIN heap) /\ task.step = step
               /\ Depth(task) \in Nat /\ Len(scopes) = Depth(task) + 1
               /\ Before(task)[1] = Depth(task) /\ IsContext(context, Before(task)[2])
<1> DEFINE task == Head(work)
<1>1. work # <<>> /\ task.step = step
  BY DEF At
<1>2. Tasks(work, DOMAIN heap, Outermost)
  BY DEF WalkInv
<1>3. Start(work, Outermost) = Before(task) /\ IsTask(task, DOMAIN heap)
  BY <1>1, <1>2, FirstTask
<1> HIDE DEF task
<1>4. Depth(task) \in Nat
  BY <1>3, LenProperties DEF IsTask, Depth
<1>5. Before(task)[1] = Depth(task)
  BY DEF Before
<1>6. Len(scopes) = Depth(task) + 1 /\ IsContext(context, Before(task)[2])
  BY <1>3, <1>5 DEF WalkInv
<1>7. scopes # <<>>
  <2>1. Len(scopes) # 0
    BY <1>4, <1>6
  <2>2. PICK S : scopes \in Seq(S)
    BY DEF WalkInv, ScopesInv
  <2> QED BY <2>1, <2>2, EmptySeq
<1> QED
  BY <1>1, <1>3, <1>4, <1>5, <1>6, <1>7 DEF WalkInv, task

(* Most tasks leave the walk where it was.                                  *)
LEMMA StaysAfter ==
    ASSUME NEW task, task.step \notin {"Enter", "Body", "Leave"}
    PROVE  After(task) = Before(task)
  BY DEF After

LEMMA DeclarationKeeps ==
    ASSUME WalkInv, NEW step, step \notin {"Enter", "Body", "Leave"}, At(step),
           Continue(<<>>), context' = context,
           NEW name, NEW symbol, IsSymbol(symbol), NEW at, NEW faults,
           DeclareSymbol(name, symbol, at, faults)
    PROVE  WalkInv'
<1> DEFINE task == Head(work)
<1>1. /\ work # <<>> /\ scopes # <<>> /\ SymbolsInv /\ ScopesInv
      /\ task.step = step /\ Depth(task) \in Nat /\ Len(scopes) = Depth(task) + 1
      /\ Before(task)[1] = Depth(task) /\ IsContext(context, Before(task)[2])
  BY AtTask
<1>2. /\ SymbolsInv' /\ ScopesInv' /\ crashed' \in BOOLEAN
      /\ DOMAIN heap \subseteq DOMAIN heap' /\ Len(scopes') = Len(scopes)
  BY <1>1, DeclarationKeepsOrder
<1>3. After(task) = Before(task)
  BY <1>1, StaysAfter
<1>4. Tasks(<<>>, DOMAIN heap', After(task)) /\ Start(<<>>, After(task)) = Before(task)
  BY <1>3, NoTasks
<1> QED
  BY <1>1, <1>2, <1>3, <1>4, StepIsKept

LEMMA SymbolIsSymbol ==
    ASSUME NEW kind \in Kinds, NEW type
    PROVE  IsSymbol(Symbol(kind, type))
  BY DEF IsSymbol, Symbol

LEMMA DeclareConstKeeps == WalkInv /\ DeclareConst => WalkInv'
<1> SUFFICES ASSUME WalkInv, DeclareConst PROVE WalkInv'
  OBVIOUS
<1> DEFINE symbol == [Symbol("Const", TypeOfConstant(Phrase.value))
                         EXCEPT !.value = Phrase.value]
<1>1. /\ At("Const") /\ Continue(<<>>) /\ context' = context
      /\ DeclareSymbol(Phrase.name, symbol, Here, ConstantFaults(Phrase.value))
  BY DEF DeclareConst
<1>2. IsSymbol(symbol)
  BY DEF IsSymbol, Symbol, Kinds
<1> HIDE DEF symbol
<1> QED
  BY <1>1, <1>2, DeclarationKeeps

LEMMA DeclareTypeKeeps == WalkInv /\ DeclareType => WalkInv'
<1> SUFFICES ASSUME WalkInv, DeclareType PROVE WalkInv'
  OBVIOUS
<1> DEFINE symbol == Symbol("Type", Alias(Phrase.name, TypeOfDenoter(Env, Phrase.type)))
<1>1. /\ At("Type") /\ Continue(<<>>) /\ context' = context
      /\ DeclareSymbol(Phrase.name, symbol, Here, FaultsOfDenoter(Env, Phrase.type))
  BY DEF DeclareType
<1>2. IsSymbol(symbol)
  BY SymbolIsSymbol DEF Kinds
<1> HIDE DEF symbol
<1> QED
  BY <1>1, <1>2, DeclarationKeeps

LEMMA DeclareNameKeeps == WalkInv /\ DeclareName => WalkInv'
<1> SUFFICES ASSUME WalkInv, DeclareName PROVE WalkInv'
  OBVIOUS
<1> DEFINE symbol == Symbol(Phrase.kind, Phrase.type)
<1>1. /\ At("Name") /\ Continue(<<>>) /\ context' = context
      /\ DeclareSymbol(Phrase.name, symbol, Here, {})
  BY DEF DeclareName
<1>2. IsTask(Head(work), DOMAIN heap) /\ Head(work).step = "Name"
  BY <1>1, AtTask
<1>3. Phrase.kind \in {"Var", "Param"}
  BY <1>2 DEF IsTask, Phrase
<1>4. IsSymbol(symbol)
  BY <1>3, SymbolIsSymbol DEF Kinds
<1> HIDE DEF symbol
<1> QED
  BY <1>1, <1>4, DeclarationKeeps

(* The tasks that follow leave the table alone.                             *)
LEMMA ReplacingKeeps ==
    ASSUME WalkInv, NEW step, At(step), NEW tasks, Continue(tasks),
           UNCHANGED <<scopes, heap>>, crashed' \in BOOLEAN,
           Tasks(tasks, DOMAIN heap, After(Head(work))),
           NEW begin, begin = Start(tasks, After(Head(work))),
           Len(scopes) = begin[1] + 1, IsContext(context', begin[2])
    PROVE  WalkInv'
<1>1. work # <<>> /\ SymbolsInv /\ ScopesInv
  BY AtTask
<1>2. SymbolsInv' /\ ScopesInv' /\ DOMAIN heap \subseteq DOMAIN heap'
  BY <1>1 DEF SymbolsInv, ScopesInv
<1>3. Tasks(tasks, DOMAIN heap', After(Head(work))) /\ Len(scopes') = begin[1] + 1
  OBVIOUS
<1> QED
  BY <1>1, <1>2, <1>3, StepIsKept

LEMMA ResolveVarsKeeps == WalkInv /\ ResolveVars => WalkInv'
<1> SUFFICES ASSUME WalkInv, ResolveVars PROVE WalkInv'
  OBVIOUS
<1> DEFINE task == Head(work)
           type == TypeOfDenoter(Env, Phrase.type)
           tasks == NameTasks(Phrase.names, "Var", type, Here)
<1>1. /\ At("Var") /\ Continue(tasks) /\ UNCHANGED <<scopes, heap>> /\ context' = context
      /\ crashed' \in BOOLEAN
  BY DEF ResolveVars, Report
<1>2. /\ IsTask(task, DOMAIN heap) /\ task.step = "Var"
      /\ Len(scopes) = Depth(task) + 1 /\ Before(task)[1] = Depth(task)
      /\ IsContext(context, Before(task)[2])
  BY <1>1, AtTask
<1>3. IsList(Phrase.names) /\ Here = task.at
  BY <1>2 DEF IsTask, Phrase, Here
<1>4. Tasks(tasks, DOMAIN heap, After(task)) /\ Start(tasks, After(task)) = After(task)
  <2> DEFINE names == Phrase.names
  <2> HIDE DEF type, task, names
  <2>1. IsList(names) /\ "Var" \in {"Var", "Param"}
    BY <1>3 DEF names
  <2>2. /\ Tasks(NameTasks(names, "Var", type, task.at), DOMAIN heap, After(task))
        /\ Start(NameTasks(names, "Var", type, task.at), After(task)) = After(task)
    <3>1. IsTask(task, DOMAIN heap) /\ task.step = "Var"
      BY <1>2
    <3> QED BY <2>1, <3>1, NamesAreTasks
  <2> QED BY <1>3, <2>2 DEF names
<1>5. After(task) = Before(task)
  BY <1>2, StaysAfter
<1> HIDE DEF tasks
<1> QED
  BY <1>1, <1>2, <1>4, <1>5, ReplacingKeeps

LEMMA CheckStatementKeeps == WalkInv /\ CheckStatement => WalkInv'
<1> SUFFICES ASSUME WalkInv, CheckStatement PROVE WalkInv'
  OBVIOUS
<1> DEFINE task == Head(work)
<1>1. /\ At("Statement") /\ Continue(<<>>) /\ UNCHANGED <<scopes, heap>>
      /\ context' = context /\ crashed' \in BOOLEAN
  BY DEF CheckStatement, Report
<1>2. /\ task.step = "Statement" /\ Len(scopes) = Depth(task) + 1
      /\ Before(task)[1] = Depth(task) /\ IsContext(context, Before(task)[2])
  BY <1>1, AtTask
<1>3. After(task) = Before(task)
  BY <1>2, StaysAfter
<1>4. Tasks(<<>>, DOMAIN heap, After(task)) /\ Start(<<>>, After(task)) = After(task)
  BY NoTasks
<1> QED
  BY <1>1, <1>2, <1>3, <1>4, ReplacingKeeps

(* The parameters of a subprogram are added to its symbol.                  *)
LEMMA AddedParams ==
    ASSUME SymbolsInv, NEW subSym \in DOMAIN heap \cup {NoSymbol}, NEW params
    PROVE  LET cells == AddParams(heap, subSym, params)
           IN  /\ \E any : cells \in Seq(any)
               /\ DOMAIN cells = DOMAIN heap
               /\ \A address \in DOMAIN cells : IsSymbol(cells[address])
<1>1. CASE subSym = NoSymbol
  BY <1>1 DEF AddParams, SymbolsInv
<1>2. CASE subSym # NoSymbol
  <2> DEFINE new == [heap[subSym] EXCEPT !.params = @ \o params]
             cells == [heap EXCEPT ![subSym] = new]
  <2>1. AddParams(heap, subSym, params) = cells
    BY <1>2 DEF AddParams
  <2>2. subSym \in DOMAIN heap /\ IsSymbol(heap[subSym])
    BY <1>2 DEF SymbolsInv
  <2>3. IsSymbol(new)
    BY <2>2 DEF IsSymbol
  <2>4. PICK S : heap \in Seq(S)
    BY DEF SymbolsInv
  <2> DEFINE T == S \cup {new}
  <2>5. heap \in Seq(T) /\ new \in T
    <3>1. S \subseteq T /\ new \in T
      OBVIOUS
    <3> HIDE DEF T, new
    <3> QED BY <2>4, <3>1, WiderSeq
  <2> HIDE DEF T, new
  <2>6. DOMAIN heap = 1..Len(heap) /\ subSym \in 1..Len(heap)
    BY <2>2, <2>4, LenProperties
  <2>7. /\ cells \in Seq(T) /\ Len(cells) = Len(heap)
        /\ \A j \in 1..Len(heap) : cells[j] = IF j = subSym THEN new ELSE heap[j]
    BY <2>5, <2>6, ExceptSeq
  <2>8. DOMAIN cells = DOMAIN heap
    OBVIOUS
  <2> HIDE DEF cells
  <2>9. \A address \in DOMAIN cells : IsSymbol(cells[address])
    BY <2>3, <2>6, <2>7, <2>8 DEF SymbolsInv
  <2> QED BY <2>1, <2>7, <2>8, <2>9
<1> QED
  BY <1>1, <1>2

LEMMA ResolveParamsKeeps == WalkInv /\ ResolveParams => WalkInv'
<1> SUFFICES ASSUME WalkInv, ResolveParams PROVE WalkInv'
  OBVIOUS
<1> DEFINE task == Head(work)
           param == Phrase.param
           type == TypeOfDenoter(Env, param.type)
           tasks == NameTasks(param.names, "Param", type, Here)
           params == [k \in DOMAIN param.names |-> [type |-> type, isVar |-> param.isVar]]
<1>1. /\ At("Param") /\ Continue(tasks) /\ context' = context /\ scopes' = scopes
      /\ crashed' \in BOOLEAN /\ heap' = AddParams(heap, Phrase.subSym, params)
  <2>1. /\ At("Param") /\ Continue(tasks) /\ context' = context /\ scopes' = scopes
        /\ heap' = AddParams(heap, Phrase.subSym, params)
    BY Zenon DEF ResolveParams
  <2>2. \E at, faults : Report(at, faults)
    BY Zenon DEF ResolveParams
  <2>3. crashed' \in BOOLEAN
    BY <2>2 DEF Report
  <2> QED BY <2>1, <2>3
<1>2. /\ work # <<>> /\ SymbolsInv /\ ScopesInv
      /\ IsTask(task, DOMAIN heap) /\ task.step = "Param"
      /\ Len(scopes) = Depth(task) + 1 /\ Before(task)[1] = Depth(task)
      /\ IsContext(context, Before(task)[2])
  BY <1>1, AtTask
<1>3. /\ IsList(param.names) /\ Here = task.at
      /\ Phrase.subSym \in DOMAIN heap \cup {NoSymbol}
  BY <1>2 DEF IsTask, Phrase, Here
<1>4. SymbolsInv' /\ DOMAIN heap' = DOMAIN heap
  <2> HIDE DEF params
  <2>1. /\ \E any : heap' \in Seq(any) /\ DOMAIN heap' = DOMAIN heap
        /\ \A address \in DOMAIN heap' : IsSymbol(heap'[address])
    BY <1>1, <1>2, <1>3, AddedParams
  <2> QED BY <2>1 DEF SymbolsInv
<1>5. ScopesInv'
  BY <1>1, <1>2, <1>4 DEF ScopesInv
<1>6. Tasks(tasks, DOMAIN heap', After(task)) /\ Start(tasks, After(task)) = After(task)
  <2> DEFINE names == param.names
  <2> HIDE DEF type, task, param, names
  <2>1. IsList(names) /\ "Param" \in {"Var", "Param"}
    BY <1>3 DEF names
  <2>2. IsTask(task, DOMAIN heap')
    BY <1>2, <1>4
  <2>3. /\ Tasks(NameTasks(names, "Param", type, task.at), DOMAIN heap', After(task))
        /\ Start(NameTasks(names, "Param", type, task.at), After(task)) = After(task)
    <3>1. task.step = "Param"
      BY <1>2
    <3> QED BY <2>1, <2>2, <3>1, NamesAreTasks
  <2> QED BY <1>3, <2>3 DEF names
<1>7. After(task) = Before(task)
  BY <1>2, StaysAfter
<1> HIDE DEF tasks, params, param
<1> QED
  BY <1>1, <1>2, <1>4, <1>5, <1>6, <1>7, StepIsKept

LEMMA EnterSubprogramKeeps == WalkInv /\ EnterSubprogram => WalkInv'
<1> SUFFICES ASSUME WalkInv, EnterSubprogram PROVE WalkInv'
  OBVIOUS
<1> DEFINE task == Head(work)
           d == Depth(task)
<1>1. /\ At("Enter") /\ Continue(<<>>) /\ context' = context /\ heap' = heap
      /\ crashed' = crashed /\ scopes' = Append(scopes, EmptyScope)
  BY DEF EnterSubprogram, PushScope
<1>2. /\ work # <<>> /\ SymbolsInv /\ ScopesInv /\ task.step = "Enter"
      /\ d \in Nat /\ Len(scopes) = d + 1 /\ IsContext(context, Before(task)[2])
  BY <1>1, AtTask
<1>3. crashed' \in BOOLEAN /\ SymbolsInv'
  BY <1>1, <1>2 DEF WalkInv, SymbolsInv
<1>4. PICK S : scopes \in Seq(S)
  BY <1>2 DEF ScopesInv
<1>5. /\ \E any : scopes' \in Seq(any)
      /\ DOMAIN scopes = 1..Len(scopes) /\ Len(scopes') = Len(scopes) + 1
      /\ DOMAIN scopes' = 1..Len(scopes) + 1
      /\ \A j \in 1..Len(scopes) : scopes'[j] = scopes[j]
      /\ scopes'[Len(scopes) + 1] = EmptyScope
  <2>1. /\ \E any : Append(scopes, EmptyScope) \in Seq(any)
        /\ DOMAIN scopes = 1..Len(scopes)
        /\ Len(Append(scopes, EmptyScope)) = Len(scopes) + 1
        /\ DOMAIN Append(scopes, EmptyScope) = 1..Len(scopes) + 1
        /\ \A j \in 1..Len(scopes) : Append(scopes, EmptyScope)[j] = scopes[j]
        /\ Append(scopes, EmptyScope)[Len(scopes) + 1] = EmptyScope
    BY <1>4, AppendAny
  <2> QED BY <1>1, <2>1
<1>6. ScopesInv'
  <2>1. \A k \in 1..Len(scopes) + 1 : k \in 1..Len(scopes) \/ k = Len(scopes) + 1
    BY <1>2
  <2>2. ASSUME NEW k \in DOMAIN scopes', NEW name \in DOMAIN scopes'[k]
        PROVE  scopes'[k][name] \in DOMAIN heap'
    <3>1. CASE k \in 1..Len(scopes)
      BY <1>1, <1>2, <1>5, <2>2, <3>1 DEF ScopesInv
    <3>2. CASE k = Len(scopes) + 1
      BY <1>5, <2>2, <3>2, EmptyScopeProperties
    <3> QED BY <1>5, <2>1, <3>1, <3>2
  <2> QED BY <1>5, <2>2 DEF ScopesInv
<1>7. Before(task)[2] = d /\ After(task) = <<d + 1, d>>
  BY <1>2 DEF Before, After, DeclaresParams
<1>8. Tasks(<<>>, DOMAIN heap', After(task)) /\ Start(<<>>, After(task)) = <<d + 1, d>>
  BY <1>7, NoTasks
<1>9. After(task)[1] = d + 1 /\ After(task)[2] = d
  BY <1>7
<1>10. Len(scopes') = After(task)[1] + 1 /\ IsContext(context', After(task)[2])
  BY <1>1, <1>2, <1>5, <1>7, <1>9
<1> HIDE DEF d
<1> QED
  BY <1>1, <1>2, <1>3, <1>6, <1>7, <1>8, <1>10, StepIsKept

LEMMA DeclareSubprogramKeeps == WalkInv /\ DeclareSubprogram => WalkInv'
<1> SUFFICES ASSUME WalkInv, DeclareSubprogram PROVE WalkInv'
  OBVIOUS
<1> DEFINE task == Head(work)
           sub == Phrase
           type == IF sub.isFunction THEN TypeOfDenoter(Env, sub.returnType) ELSE ErrorType
           path == Append(Here.path, Here.k)
           subSym == IF IsFree(scopes, sub.name) THEN Len(heap) + 1 ELSE NoSymbol
           symbol == Symbol(IF sub.isFunction THEN "Function" ELSE "Procedure", type)
           faults == IF ~sub.isFunction THEN {}
                     ELSE FaultsOfDenoter(Env, sub.returnType)
                          \cup When(TagOf(type) \in {"Array", "Record"}, "result type")
           tasks == SubprogramTasks(sub, Here, path, subSym)
<1>1. /\ At("Subprogram") /\ Continue(tasks) /\ context' = context
      /\ DeclareSymbol(sub.name, symbol, Here, faults)
  BY Zenon DEF DeclareSubprogram, SubprogramTasks
<1>2. /\ work # <<>> /\ scopes # <<>> /\ SymbolsInv /\ ScopesInv
      /\ IsTask(task, DOMAIN heap) /\ task.step = "Subprogram"
      /\ Len(scopes) = Depth(task) + 1
      /\ Before(task)[1] = Depth(task) /\ IsContext(context, Before(task)[2])
  BY <1>1, AtTask
<1>3. IsSymbol(symbol)
  BY SymbolIsSymbol DEF Kinds
<1> HIDE DEF symbol, faults, type
<1>4. /\ SymbolsInv' /\ ScopesInv' /\ crashed' \in BOOLEAN
      /\ DOMAIN heap \subseteq DOMAIN heap' /\ Len(scopes') = Len(scopes)
      /\ IsFree(scopes, sub.name) => Len(heap) + 1 \in DOMAIN heap'
  <2> HIDE DEF sub
  <2> QED BY <1>1, <1>2, <1>3, DeclarationKeepsOrder
<1>5. subSym \in DOMAIN heap' \cup {NoSymbol}
  BY <1>4
<1> HIDE DEF subSym
<1>6. IsTask(task, DOMAIN heap')
  BY <1>2, <1>4 DEF IsTask
<1>7. tasks = SubprogramTasks(task.phrase, task.at, Append(task.at.path, task.at.k), subSym)
  BY DEF Phrase, Here
<1>8. Tasks(tasks, DOMAIN heap', After(task)) /\ Start(tasks, After(task)) = Before(task)
  <2> HIDE DEF task, tasks
  <2>1. task.step = "Subprogram"
    BY <1>2
  <2> QED BY <1>5, <1>6, <1>7, <2>1, SubprogramIsTasks
<1> HIDE DEF tasks, sub
<1> QED
  BY <1>1, <1>2, <1>4, <1>8, StepIsKept

LEMMA EnterBodyKeeps == WalkInv /\ EnterBody => WalkInv'
<1> SUFFICES ASSUME WalkInv, EnterBody PROVE WalkInv'
  OBVIOUS
<1> DEFINE task == Head(work)
           d == Depth(task)
           block == BlockTasks(Phrase.block, Here.path)
           leave == Task("Leave", context, Here)
           tasks == block \o <<leave>>
<1>1. /\ At("Body") /\ Continue(tasks) /\ UNCHANGED <<scopes, heap>>
      /\ context'.inSubprogram
  BY DEF EnterBody
<1>2. \E at, faults : Report(at, faults)
  BY Zenon DEF EnterBody
<1>3. crashed' \in BOOLEAN
  BY <1>2 DEF Report
<1>4. /\ work # <<>> /\ IsTask(task, DOMAIN heap) /\ task.step = "Body"
      /\ d \in Nat /\ Len(scopes) = d + 1 /\ IsContext(context, Before(task)[2])
  BY <1>1, AtTask
<1>5. /\ Here.path \in Seq(Nat) /\ Here.k \in Nat /\ Len(Here.path) = d
      /\ IsBlock(Phrase.block) /\ d # 0 /\ Here = task.at
  BY <1>4, ProgramsAreTrees DEF IsTask, Phrase, Here, Depth
<1>6. After(task) = <<d - 1, d - 1>> /\ Before(task) = <<d, d - 1>>
  BY <1>4 DEF After, Before, DeclaresParams
<1>7. IsContext(context, d - 1)
  <2>1. <<d, d - 1>>[2] = d - 1
    OBVIOUS
  <2> QED BY <1>4, <1>6, <2>1
<1>8. /\ IsTask(leave, DOMAIN heap)
      /\ Before(leave) = <<d, d>> /\ After(leave) = <<d - 1, d - 1>>
  <2>1. leave.step = "Leave" /\ leave.phrase = context /\ leave.at = Here
    BY DEF Task
  <2> HIDE DEF leave
  <2>2. Depth(leave) = d
    BY <1>5, <2>1 DEF Depth
  <2>3. IsTask(leave, DOMAIN heap)
    BY <1>5, <1>7, <2>1, <2>2 DEF IsTask, Steps
  <2>4. Before(leave) = <<d, d>> /\ After(leave) = <<d - 1, d - 1>>
    BY <2>1, <2>2 DEF Before, After, DeclaresParams
  <2> QED BY <2>3, <2>4
<1>9. Tasks(block, DOMAIN heap, <<d, d>>) /\ Start(block, <<d, d>>) = <<d, d>>
  BY <1>5, BlockIsTasks
<1>10. /\ Tasks(<<leave>>, DOMAIN heap, After(task))
       /\ Start(<<leave>>, After(task)) = <<d, d>>
  <2> HIDE DEF leave
  <2> QED BY <1>6, <1>8, OneTask
<1> HIDE DEF leave, block
<1>11. Tasks(tasks, DOMAIN heap, After(task)) /\ Start(tasks, After(task)) = <<d, d>>
  <2> DEFINE last == <<leave>>
             here == <<d, d>>
             end == After(task)
  <2>1. Tasks(last, DOMAIN heap, end) /\ Start(last, end) = here
    BY <1>10
  <2>2. Tasks(block, DOMAIN heap, here) /\ Start(block, here) = here
    BY <1>9
  <2> HIDE DEF last, here, end
  <2>3. Tasks(block \o last, DOMAIN heap, end) /\ Start(block \o last, end) = here
    BY <2>1, <2>2, ChainedTasks
  <2> QED BY <2>3 DEF last, here, end
<1>12. IsContext(context', d)
  BY <1>1, <1>5 DEF IsContext
<1>13. <<d, d>>[1] = d /\ <<d, d>>[2] = d
  OBVIOUS
<1> HIDE DEF tasks, task, d
<1>14. Len(scopes) = <<d, d>>[1] + 1 /\ IsContext(context', <<d, d>>[2])
  BY <1>4, <1>12, <1>13
<1> QED
  BY <1>1, <1>3, <1>11, <1>14, ReplacingKeeps DEF task

LEMMA LeaveSubprogramKeeps == WalkInv /\ LeaveSubprogram => WalkInv'
<1> SUFFICES ASSUME WalkInv, LeaveSubprogram PROVE WalkInv'
  OBVIOUS
<1> DEFINE task == Head(work)
           d == Depth(task)
           begin == <<d - 1, d - 1>>
<1>1. /\ At("Leave") /\ Continue(<<>>) /\ context' = task.phrase
      /\ heap' = heap /\ crashed' = crashed /\ scopes' = PopScope(scopes)
  BY DEF LeaveSubprogram, Phrase
<1>2. /\ work # <<>> /\ scopes # <<>> /\ SymbolsInv /\ ScopesInv
      /\ IsTask(task, DOMAIN heap) /\ task.step = "Leave"
      /\ d \in Nat /\ Len(scopes) = d + 1
  BY <1>1, AtTask
<1>3. crashed' \in BOOLEAN /\ SymbolsInv'
  BY <1>1, <1>2 DEF WalkInv, SymbolsInv
<1>4. PICK S : scopes \in Seq(S)
  BY <1>2 DEF ScopesInv
<1>5. /\ scopes' \in Seq(S) /\ Len(scopes') = Len(scopes) - 1
      /\ \A k \in 1..Len(scopes) - 1 : scopes'[k] = scopes[k]
  BY <1>1, <1>2, <1>4, PopAny
<1>6. ScopesInv'
  <2>1. DOMAIN scopes' = 1..Len(scopes) - 1 /\ DOMAIN scopes = 1..Len(scopes)
    BY <1>4, <1>5, LenProperties
  <2>2. \A k \in 1..Len(scopes) - 1 : k \in 1..Len(scopes)
    BY <1>2
  <2> QED BY <1>1, <1>2, <1>5, <2>1, <2>2 DEF ScopesInv
<1>7. After(task) = begin /\ IsContext(task.phrase, d - 1)
  BY <1>2 DEF After, IsTask
<1>8. begin[1] = d - 1 /\ begin[2] = d - 1
  OBVIOUS
<1> HIDE DEF begin
<1>9. Tasks(<<>>, DOMAIN heap', begin) /\ Start(<<>>, begin) = begin
  BY NoTasks
<1>10. Len(scopes') = begin[1] + 1
  <2> HIDE DEF d
  <2> QED BY <1>2, <1>5, <1>8
<1>11. IsContext(context', begin[2])
  BY <1>1, <1>7, <1>8
<1> HIDE DEF d
<1> QED
  BY <1>1, <1>2, <1>3, <1>6, <1>7, <1>9, <1>10, <1>11, StepIsKept

---------------------------------------------------------------------------
(* The outermost scope, before anything is declared in it.                  *)

LEMMA SeedProperties ==
    /\ Len(SeedHeap) = 33 /\ DOMAIN SeedHeap = 1..33
    /\ \E any : SeedHeap \in Seq(any)
    /\ \A k \in 1..33 : IsSymbol(SeedHeap[k])
    /\ \A name \in DOMAIN SeedScope : SeedScope[name] \in 1..33
<1>2. DOMAIN SeedNames = 1..33
  BY DEF SeedNames
<1> DEFINE S == {SeedSymbol(SeedNames[k]) : k \in 1..33}
<1>3. SeedHeap \in [1..33 -> S]
  <2> HIDE DEF SeedNames
  <2> QED BY <1>2 DEF SeedHeap
<1>4. SeedHeap \in Seq(S) /\ Len(SeedHeap) = 33 /\ DOMAIN SeedHeap = 1..33
  <2> HIDE DEF S
  <2>1. SeedHeap \in Seq(S)
    BY <1>3, SeqDef
  <2> QED BY <1>3, <2>1, LenProperties
<1>5. \A k \in 1..33 : SeedHeap[k] = SeedSymbol(SeedNames[k])
  BY <1>2 DEF SeedHeap
<1>6. \A name : IsSymbol(SeedSymbol(name))
  <2> TAKE name
  <2>1. \A type : /\ IsSymbol(Symbol("Type", type)) /\ IsSymbol(Symbol("Const", type))
                  /\ IsSymbol(Symbol("Builtin", type))
    BY SymbolIsSymbol DEF Kinds
  <2>2. \/ SeedSymbol(name) = Symbol("Type", Predefined(SeedTypes[name]))
        \/ SeedSymbol(name) = Symbol("Const", Predefined("Boolean"))
        \/ SeedSymbol(name) = Symbol("Builtin", ErrorType)
    <3>1. CASE name \in DOMAIN SeedTypes /\ name \notin {"true", "false"}
      BY <3>1 DEF SeedSymbol
    <3>2. CASE name \notin DOMAIN SeedTypes /\ name \in {"true", "false"}
      BY <3>2 DEF SeedSymbol
    <3>3. CASE name \notin DOMAIN SeedTypes /\ name \notin {"true", "false"}
      BY <3>3 DEF SeedSymbol
    <3>4. "true" \notin DOMAIN SeedTypes /\ "false" \notin DOMAIN SeedTypes
      BY DEF SeedTypes
    <3> QED BY <3>1, <3>2, <3>3, <3>4
  <2> QED BY <2>1, <2>2
<1>7. ASSUME NEW name \in DOMAIN SeedScope PROVE SeedScope[name] \in 1..33
  <2>1. name \in {SeedNames[k] : k \in 1..33}
    BY <1>2 DEF SeedScope
  <2>2. SeedScope[name] = CHOOSE k \in 1..33 : SeedNames[k] = name
    BY <1>2 DEF SeedScope
  <2>3. \E k \in 1..33 : SeedNames[k] = name
    BY <2>1
  <2> QED BY <2>2, <2>3
<1> QED
  BY <1>4, <1>5, <1>6, <1>7

LEMMA InitWalk == Init => WalkInv
<1> SUFFICES ASSUME Init PROVE WalkInv
  OBVIOUS
<1> DEFINE symbol == Symbol("Program", ErrorType)
           first == <<SeedScope>>
           name == program.name
<1>1. /\ program \in Programs /\ scopes = Declare(first, name, Len(SeedHeap) + 1)
      /\ heap = Append(SeedHeap, symbol) /\ work = BlockTasks(program.block, <<>>)
      /\ context = OutsideSubprogram /\ crashed = FALSE
  BY DEF Init
<1>2. IsSymbol(symbol)
  BY SymbolIsSymbol DEF Kinds
<1> HIDE DEF symbol
<1>3. /\ \E any : heap \in Seq(any)
      /\ DOMAIN heap = 1..33 + 1
      /\ \A j \in 1..33 : heap[j] = SeedHeap[j]
      /\ heap[33 + 1] = symbol
  <2>1. PICK S : SeedHeap \in Seq(S)
    BY SeedProperties
  <2>2. /\ \E any : Append(SeedHeap, symbol) \in Seq(any)
        /\ DOMAIN Append(SeedHeap, symbol) = 1..Len(SeedHeap) + 1
        /\ \A j \in 1..Len(SeedHeap) : Append(SeedHeap, symbol)[j] = SeedHeap[j]
        /\ Append(SeedHeap, symbol)[Len(SeedHeap) + 1] = symbol
    BY <2>1, AppendAny
  <2>3. Len(SeedHeap) = 33
    BY SeedProperties
  <2> QED BY <1>1, <2>2, <2>3
<1>4. SymbolsInv
  <2>1. \A address \in DOMAIN heap : address \in 1..33 \/ address = 33 + 1
    BY <1>3
  <2> QED BY <1>2, <1>3, <2>1, SeedProperties DEF SymbolsInv
<1>5. first \in Seq({SeedScope}) /\ first # <<>> /\ Len(first) = 1 /\ first[1] = SeedScope
  OBVIOUS
<1> HIDE DEF first, name
<1>6. /\ ~IsFree(first, name) => scopes = first
      /\ IsFree(first, name) =>
           /\ \E any : scopes \in Seq(any)
           /\ Len(scopes) = 1
           /\ scopes[1] = With(SeedScope, name, 33 + 1)
  <2>1. scopes = Declare(first, name, 33 + 1)
    BY <1>1, SeedProperties
  <2>2. /\ ~IsFree(first, name) => Declare(first, name, 33 + 1) = first
        /\ IsFree(first, name) =>
             /\ \E any : Declare(first, name, 33 + 1) \in Seq(any)
             /\ Len(Declare(first, name, 33 + 1)) = Len(first)
             /\ Declare(first, name, 33 + 1)[Len(first)] = With(first[Len(first)], name, 33 + 1)
    BY <1>5, DeclareAny
  <2> QED BY <1>5, <2>1, <2>2
<1>7. /\ \E any : scopes \in Seq(any) /\ Len(scopes) = 1
      /\ scopes[1] = SeedScope \/ scopes[1] = With(SeedScope, name, 33 + 1)
  BY <1>5, <1>6
<1>8. ScopesInv
  <2>1. DOMAIN scopes = 1..1
    BY <1>7, LenProperties
  <2>2. \A x \in DOMAIN SeedScope : SeedScope[x] \in DOMAIN heap
    BY <1>3, SeedProperties
  <2>3. 33 + 1 \in DOMAIN heap
    BY <1>3
  <2>4. \A x \in DOMAIN With(SeedScope, name, 33 + 1) :
            With(SeedScope, name, 33 + 1)[x] \in DOMAIN heap
    BY <2>2, <2>3 DEF With
  <2>5. \A x \in DOMAIN scopes[1] : scopes[1][x] \in DOMAIN heap
    BY <1>7, <2>2, <2>4
  <2> QED BY <1>7, <2>1, <2>5 DEF ScopesInv
<1>9. Tasks(work, DOMAIN heap, Outermost) /\ Start(work, Outermost) = Outermost
  <2>1. IsBlock(program.block)
    BY <1>1, ProgramsAreTrees
  <2>2. <<>> \in Seq(Nat) /\ Len(<<>>) = 0
    OBVIOUS
  <2> QED BY <1>1, <2>1, <2>2, BlockIsTasks DEF Outermost
<1>10. Outermost[1] = 0 /\ Outermost[2] = 0
  BY DEF Outermost
<1>11. Len(scopes) = Outermost[1] + 1 /\ IsContext(context, Outermost[2])
  BY <1>1, <1>7, <1>10 DEF IsContext
<1> QED
  BY <1>1, <1>4, <1>8, <1>9, <1>11 DEF WalkInv

LEMMA NextWalk == WalkInv /\ [Next]_vars => WalkInv'
<1> SUFFICES ASSUME WalkInv, [Next]_vars PROVE WalkInv'
  OBVIOUS
<1>1. CASE DeclareConst
  BY <1>1, DeclareConstKeeps
<1>2. CASE DeclareType
  BY <1>2, DeclareTypeKeeps
<1>3. CASE ResolveVars
  BY <1>3, ResolveVarsKeeps
<1>4. CASE DeclareName
  BY <1>4, DeclareNameKeeps
<1>5. CASE DeclareSubprogram
  BY <1>5, DeclareSubprogramKeeps
<1>6. CASE EnterSubprogram
  BY <1>6, EnterSubprogramKeeps
<1>7. CASE ResolveParams
  BY <1>7, ResolveParamsKeeps
<1>8. CASE EnterBody
  BY <1>8, EnterBodyKeeps
<1>9. CASE LeaveSubprogram
  BY <1>9, LeaveSubprogramKeeps
<1>10. CASE CheckStatement
  BY <1>10, CheckStatementKeeps
<1>11. CASE UNCHANGED vars
  BY <1>11 DEF vars, WalkInv, SymbolsInv, ScopesInv
<1> QED
  BY <1>1, <1>2, <1>3, <1>4, <1>5, <1>6, <1>7, <1>8, <1>9, <1>10, <1>11 DEF Next

(* However the walk goes, it is where the tree has it, and the tasks left    *)
(* lead it back to where it began (walkBlock, walkSubprogram).              *)
THEOREM WalkInvariant == Spec => []WalkInv
  BY InitWalk, NextWalk, PTL DEF Spec

(* The table always keeps the scope of the program, every name in it leads  *)
(* to a symbol that exists, and parameters go to one that exists or to none *)
(* (SymbolTable, subSym in walkSubprogram).                                 *)
THEOREM AnalyserTypes == Spec => []TypeOK
<1>1. WalkInv => TypeOK
  <2> SUFFICES ASSUME WalkInv PROVE TypeOK
    OBVIOUS
  <2>1. PICK S : work \in Seq(S)
    BY DEF WalkInv, Tasks
  <2>2. DOMAIN work = 1..Len(work)
    BY <2>1, LenProperties
  <2>3. \A j \in DOMAIN work : IsTask(work[j], DOMAIN heap)
    BY <2>2 DEF WalkInv, Tasks
  <2>4. \A j \in DOMAIN work :
            /\ work[j].step \in Steps
            /\ work[j].step = "Param" => work[j].phrase.subSym \in DOMAIN heap \cup {NoSymbol}
    BY <2>3 DEF IsTask
  <2>5. scopes # <<>>
    <3> DEFINE begin == Start(work, Outermost)
    <3>1. begin[1] \in Nat
      <4>1. CASE Len(work) = 0
        BY <4>1 DEF Start, Outermost
      <4>2. CASE Len(work) # 0
        <5>1. 1 \in 1..Len(work)
          BY <2>1, <4>2, LenProperties
        <5>2. begin = Before(work[1]) /\ work[1].at.path \in Seq(Nat)
          BY <2>2, <2>3, <4>2, <5>1 DEF Start, IsTask
        <5> HIDE DEF begin
        <5> QED BY <5>2, LenProperties DEF Before, Depth
      <4> QED BY <4>1, <4>2
    <3>2. Len(scopes) = begin[1] + 1
      BY DEF WalkInv
    <3> HIDE DEF begin
    <3>3. Len(scopes) # 0
      BY <3>1, <3>2
    <3>4. PICK T : scopes \in Seq(T)
      BY DEF WalkInv, ScopesInv
    <3> QED BY <3>3, <3>4, EmptySeq
  <2> QED BY <2>4, <2>5 DEF TypeOK, WalkInv, SymbolsInv, ScopesInv, IsSymbol
<1> QED
  BY <1>1, WalkInvariant, PTL

(* Wherever the walk is, the scopes open are those of the blocks around that *)
(* place, a statement is checked in the context of its block, and at the end *)
(* both are as they were in the beginning (pushScope, popScope and the       *)
(* context that walkSubprogram saves and restores).                          *)
THEOREM ScopesFollow == Spec => []ScopesFollowTheTree
<1>1. WalkInv => ScopesFollowTheTree
  <2> SUFFICES ASSUME WalkInv PROVE ScopesFollowTheTree
    OBVIOUS
  <2>1. CASE work = <<>>
    <3>1. Len(work) = 0
      BY <2>1
    <3>2. Start(work, Outermost) = Outermost /\ Outermost[1] = 0 /\ Outermost[2] = 0
      BY <3>1 DEF Start, Outermost
    <3>3. Len(scopes) = 1 /\ context = OutsideSubprogram
      BY <3>2 DEF WalkInv, IsContext
    <3> QED BY <2>1, <3>3 DEF ScopesFollowTheTree
  <2>2. CASE work # <<>>
    <3> DEFINE task == Head(work)
    <3>1. Tasks(work, DOMAIN heap, Outermost)
      BY DEF WalkInv
    <3>2. Start(work, Outermost) = Before(task) /\ IsTask(task, DOMAIN heap)
      BY <2>2, <3>1, FirstTask
    <3>3. Len(scopes) = Before(task)[1] + 1 /\ IsContext(context, Before(task)[2])
      BY <3>2 DEF WalkInv
    <3>4. /\ Before(task)[1] = Depth(task)
          /\ task.step = "Statement" => Before(task)[2] = Depth(task)
      BY DEF Before, DeclaresParams
    <3>5. /\ Here.path \in Seq(Nat) /\ Depth(task) = Len(Here.path)
          /\ Here.path = <<>> <=> Depth(task) = 0
      BY <3>2, EmptySeq DEF IsTask, Depth, Here
    <3> QED BY <2>2, <3>3, <3>4, <3>5 DEF ScopesFollowTheTree, IsContext
  <2> QED BY <2>1, <2>2
<1> QED
  BY <1>1, WalkInvariant, PTL

---------------------------------------------------------------------------
(* The table as far as the names in Names are concerned.  Scopes hold other *)
(* names too, but what the blocks see and own is the same without them.     *)

Fits == DOMAIN heap \subseteq Symbols
Tracked(table) ==
    /\ \E any : table \in Seq(any)
    /\ \A k \in DOMAIN table : \A x \in Names \cap DOMAIN table[k] : table[k][x] \in Symbols
Own(scope) == [x \in Names \cap DOMAIN scope |-> scope[x]]
Followed(table) == [k \in 1..Len(table) |-> Own(table[k])]

LEMMA OwnProperties ==
    ASSUME NEW scope
    PROVE  /\ DOMAIN Own(scope) = Names \cap DOMAIN scope
           /\ \A x \in Names \cap DOMAIN scope : Own(scope)[x] = scope[x]
           /\ (\A x \in Names \cap DOMAIN scope : scope[x] \in Symbols) => Own(scope) \in Scope
<1>1. /\ DOMAIN Own(scope) = Names \cap DOMAIN scope
      /\ \A x \in Names \cap DOMAIN scope : Own(scope)[x] = scope[x]
  BY DEF Own
<1>2. ASSUME \A x \in Names \cap DOMAIN scope : scope[x] \in Symbols
      PROVE  Own(scope) \in Scope
  <2> DEFINE some == Names \cap DOMAIN scope
  <2>1. some \in SUBSET Names /\ Own(scope) \in [some -> Symbols]
    BY <1>2 DEF Own
  <2> HIDE DEF some
  <2> QED BY <2>1 DEF Scope
<1> QED
  BY <1>1, <1>2

LEMMA FollowedProperties ==
    ASSUME NEW table, Tracked(table)
    PROVE  /\ Len(table) \in Nat /\ DOMAIN table = 1..Len(table)
           /\ Followed(table) \in Tables /\ Len(Followed(table)) = Len(table)
           /\ \A k \in 1..Len(table) : Followed(table)[k] = Own(table[k])
<1>1. PICK S : table \in Seq(S)
  BY DEF Tracked
<1>2. Len(table) \in Nat /\ DOMAIN table = 1..Len(table)
  BY <1>1, LenProperties
<1>3. \A k \in 1..Len(table) : Own(table[k]) \in Scope
  BY <1>2, OwnProperties DEF Tracked
<1>4. Followed(table) \in [1..Len(table) -> Scope]
  BY <1>3 DEF Followed
<1>5. Followed(table) \in Seq(Scope)
  BY <1>2, <1>4, SeqDef
<1>6. Len(Followed(table)) = Len(table)
  BY <1>2, <1>4, <1>5, LenProperties
<1> QED
  BY <1>2, <1>5, <1>6 DEF Followed, Tables

(* Lookups of the followed names do not notice the others.                  *)
LEMMA FollowedSees ==
    ASSUME NEW table, Tracked(table)
    PROVE  Seen(Followed(table)) = Seen(table) /\ Owned(Followed(table)) = Owned(table)
<1> DEFINE other == Followed(table)
           n == Len(table)
<1>1. /\ n \in Nat /\ DOMAIN table = 1..n
      /\ other \in Tables /\ Len(other) = n
      /\ \A k \in 1..n : other[k] = Own(table[k])
  BY FollowedProperties
<1>2. DOMAIN other = 1..n
  BY <1>1, LenProperties DEF Tables
<1> HIDE DEF other
<1>3. ASSUME NEW k \in 1..n, NEW name \in Names
      PROVE  Lookup(Below(other, k), name) = Lookup(Below(table, k), name)
  <2>1. PICK S : table \in Seq(S)
    BY DEF Tracked
  <2>2. k \in 0..n /\ k \in Nat
    BY <1>1
  <2> DEFINE a == Below(table, k)
             b == Below(other, k)
  <2>3. a \in Seq(S) /\ Len(a) = k /\ \A j \in 1..k : a[j] = table[j]
    BY <2>1, <2>2, BelowAny
  <2>4. b \in Tables /\ Len(b) = k /\ \A j \in 1..k : b[j] = other[j]
    BY <1>1, <2>2, BelowProperties
  <2>5. DOMAIN a = 1..k /\ DOMAIN b = 1..k
    BY <2>3, <2>4, LenProperties DEF Tables
  <2> HIDE DEF a, b
  <2>6. \A j \in 1..k : /\ name \in DOMAIN b[j] <=> name \in DOMAIN a[j]
                        /\ name \in DOMAIN a[j] => b[j][name] = a[j][name]
    <3> TAKE j \in 1..k
    <3>1. j \in 1..n
      BY <1>1
    <3>2. a[j] = table[j] /\ b[j] = Own(table[j])
      BY <1>1, <2>3, <2>4, <3>1
    <3> QED BY <3>2, OwnProperties
  <2> DEFINE levels == Holders(a, name)
  <2>7. levels \in SUBSET (1..k) /\ Holders(b, name) = levels
    BY <2>5, <2>6 DEF Holders
  <2>8. \A j \in levels : b[j][name] = a[j][name]
    BY <2>5, <2>6 DEF Holders
  <2> HIDE DEF levels
  <2>9. Holders(a, name) = levels
    BY DEF levels
  <2>10. /\ levels = {} => Lookup(a, name) = NoSymbol /\ Lookup(b, name) = NoSymbol
         /\ levels # {} => /\ Lookup(a, name) = a[Innermost(levels)][name]
                           /\ Lookup(b, name) = b[Innermost(levels)][name]
    BY <2>7, <2>9 DEF Lookup
  <2>11. levels # {} => b[Innermost(levels)][name] = a[Innermost(levels)][name]
    BY <2>2, <2>7, <2>8, InnermostExists
  <2>12. Lookup(b, name) = Lookup(a, name)
    BY <2>10, <2>11
  <2> QED BY <2>12 DEF a, b
<1>4. Seen(other) = Seen(table)
  <2>1. Seen(other) = [k \in 1..n |-> [name \in Names |-> Lookup(Below(other, k), name)]]
    BY <1>2 DEF Seen
  <2>2. Seen(table) = [k \in 1..n |-> [name \in Names |-> Lookup(Below(table, k), name)]]
    BY <1>1 DEF Seen
  <2> HIDE DEF n
  <2> QED BY <1>3, <2>1, <2>2
<1>5. Owned(other) = Owned(table)
  <2>1. Owned(other) = [k \in 1..n |-> Names \cap DOMAIN other[k]]
    BY <1>2 DEF Owned
  <2>2. Owned(table) = [k \in 1..n |-> Names \cap DOMAIN table[k]]
    BY <1>1 DEF Owned
  <2>3. \A k \in 1..n : Names \cap DOMAIN other[k] = Names \cap DOMAIN table[k]
    <3> TAKE k \in 1..n
    <3>1. DOMAIN other[k] = Names \cap DOMAIN table[k]
      BY <1>1, OwnProperties
    <3> QED BY <3>1
  <2> HIDE DEF n
  <2> QED BY <2>1, <2>2, <2>3
<1> QED
  BY <1>4, <1>5 DEF other

LEMMA SameTables ==
    ASSUME NEW t \in Tables, NEW u \in Tables, Len(t) = Len(u),
           \A k \in 1..Len(t) : /\ DOMAIN t[k] = DOMAIN u[k]
                                /\ \A x \in DOMAIN t[k] : t[k][x] = u[k][x]
    PROVE  t = u
<1>1. \A k \in 1..Len(t) : t[k] = u[k]
  <2> TAKE k \in 1..Len(t)
  <2>1. t[k] \in Scope /\ u[k] \in Scope
    BY ElementOfSeq DEF Tables
  <2>2. t[k] \in [DOMAIN t[k] -> Symbols] /\ u[k] \in [DOMAIN u[k] -> Symbols]
    BY <2>1, ScopeProperties
  <2> QED BY <2>2
<1> QED
  BY <1>1, SeqEqual DEF Tables

(* A step of one table is a step of another that sees and owns the same.    *)
LEMMA SameSteps ==
    ASSUME NEW t, NEW u, NEW t2, NEW u2,
           Seen(t) = Seen(t2), Owned(t) = Owned(t2), Seen(u) = Seen(u2), Owned(u) = Owned(u2)
    PROVE  /\ Opens(t, u) => Opens(t2, u2)
           /\ Closes(t, u) => Closes(t2, u2)
           /\ \A name : Binds(t, u, name) => Binds(t2, u2, name)
<1>1. Opens(t, u) => Opens(t2, u2)
  BY DEF Opens, Inherits
<1>2. Closes(t, u) => Closes(t2, u2)
  BY DEF Closes
<1>3. \A name : Binds(t, u, name) => Binds(t2, u2, name)
  BY DEF Binds
<1> QED
  BY <1>1, <1>2, <1>3

LEMMA TrackedPush ==
    ASSUME NEW table, Tracked(table)
    PROVE  Opens(table, PushScope(table))
<1> DEFINE after == PushScope(table)
           n == Len(table)
           t == Followed(table)
           u == Followed(after)
<1>1. n \in Nat /\ t \in Tables /\ Len(t) = n /\ \A k \in 1..n : t[k] = Own(table[k])
  BY FollowedProperties
<1>2. /\ \E any : after \in Seq(any) /\ Len(after) = n + 1 /\ DOMAIN after = 1..n + 1
      /\ DOMAIN table = 1..n /\ \A k \in 1..n : after[k] = table[k]
      /\ after[n + 1] = EmptyScope
  <2>1. PICK S : table \in Seq(S)
    BY DEF Tracked
  <2>2. \A e : /\ \E any : Append(table, e) \in Seq(any)
              /\ DOMAIN table = 1..Len(table)
              /\ Len(Append(table, e)) = Len(table) + 1
              /\ DOMAIN Append(table, e) = 1..Len(table) + 1
              /\ \A k \in 1..Len(table) : Append(table, e)[k] = table[k]
              /\ Append(table, e)[Len(table) + 1] = e
    <3> HIDE DEF after, n, t, u
    <3> QED BY <2>1, AppendAny
  <2>3. after = Append(table, EmptyScope)
    BY DEF PushScope
  <2> DEFINE e == EmptyScope
  <2> HIDE DEF e, after, n
  <2>4. after = Append(table, e)
    BY <2>3 DEF e
  <2>5. /\ \E any : after \in Seq(any) /\ Len(after) = Len(table) + 1
        /\ DOMAIN after = 1..Len(table) + 1 /\ DOMAIN table = 1..Len(table)
    BY <2>2, <2>4
  <2>6. after[Len(table) + 1] = e /\ \A k \in 1..Len(table) : after[k] = table[k]
    BY <2>2, <2>4
  <2> QED BY <2>5, <2>6 DEF e, n
<1>3. after[n + 1] = EmptyScope
  BY <1>2
<1> HIDE DEF after, n, t, u
<1>4. \A k \in 1..n + 1 : k \in 1..n \/ k = n + 1
  BY <1>1
<1>5. Tracked(after)
  <2>1. \A k \in 1..n : \A x \in Names \cap DOMAIN table[k] : table[k][x] \in Symbols
    BY <1>2 DEF Tracked
  <2>2. \A k \in 1..n + 1 : \A x \in Names \cap DOMAIN after[k] : after[k][x] \in Symbols
    BY <1>2, <1>3, <1>4, <2>1, EmptyScopeProperties
  <2> QED BY <1>2, <2>2 DEF Tracked
<1>6. u \in Tables /\ Len(u) = n + 1 /\ \A k \in 1..n + 1 : u[k] = Own(after[k])
  BY <1>2, <1>5, FollowedProperties DEF u
<1> DEFINE v == PushScope(t)
<1>7. v \in Tables /\ Len(v) = n + 1 /\ (\A k \in 1..n : v[k] = t[k]) /\ v[n + 1] = EmptyScope
  BY <1>1, PushProperties
<1> HIDE DEF v
<1>8. u = v
  <2>1. \A k \in 1..n : u[k] = v[k]
    <3> TAKE k \in 1..n
    <3>1. k \in 1..n + 1
      BY <1>1
    <3> QED BY <1>1, <1>2, <1>6, <1>7, <3>1
  <2>2. DOMAIN u[n + 1] = {} /\ DOMAIN v[n + 1] = {}
    <3>1. n + 1 \in 1..n + 1
      BY <1>1
    <3> QED BY <1>3, <1>6, <1>7, <3>1, OwnProperties, EmptyScopeProperties
  <2>3. \A k \in 1..n + 1 : /\ DOMAIN u[k] = DOMAIN v[k]
                            /\ \A x \in DOMAIN u[k] : u[k][x] = v[k][x]
    BY <1>4, <2>1, <2>2
  <2> QED BY <1>6, <1>7, <2>3, SameTables
<1>9. Opens(t, u)
  BY <1>1, <1>8, PushOpens DEF v
<1>10. /\ Seen(t) = Seen(table) /\ Owned(t) = Owned(table)
       /\ Seen(u) = Seen(after) /\ Owned(u) = Owned(after)
  BY <1>5, FollowedSees DEF t, u
<1>11. Opens(table, after)
  BY <1>9, <1>10, SameSteps
<1> QED
  BY <1>11 DEF after

LEMMA TrackedPop ==
    ASSUME NEW table, Tracked(table), table # <<>>
    PROVE  Closes(table, PopScope(table))
<1> DEFINE after == PopScope(table)
           n == Len(table)
           t == Followed(table)
           u == Followed(after)
<1>1. /\ n \in Nat /\ DOMAIN table = 1..n
      /\ t \in Tables /\ Len(t) = n /\ \A k \in 1..n : t[k] = Own(table[k])
  BY FollowedProperties
<1>2. PICK S : table \in Seq(S)
  BY DEF Tracked
<1>3. /\ n # 0 /\ after \in Seq(S) /\ Len(after) = n - 1
      /\ \A k \in 1..n - 1 : after[k] = table[k]
  BY <1>2, PopAny
<1>4. DOMAIN after = 1..n - 1
  BY <1>3, LenProperties
<1> HIDE DEF after, n, t, u
<1>5. \A k \in 1..n - 1 : k \in 1..n
  BY <1>1
<1>6. Tracked(after)
  <2>1. \A k \in 1..n : \A x \in Names \cap DOMAIN table[k] : table[k][x] \in Symbols
    BY <1>1 DEF Tracked
  <2>2. \A k \in 1..n - 1 : \A x \in Names \cap DOMAIN after[k] : after[k][x] \in Symbols
    BY <1>3, <1>5, <2>1
  <2> QED BY <1>3, <1>4, <2>2 DEF Tracked
<1>7. u \in Tables /\ Len(u) = n - 1 /\ \A k \in 1..n - 1 : u[k] = Own(after[k])
  BY <1>3, <1>6, FollowedProperties DEF u
<1> DEFINE v == PopScope(t)
<1>8. t # <<>> /\ v \in Tables /\ Len(v) = n - 1 /\ \A k \in 1..n - 1 : v[k] = t[k]
  <2>1. t # <<>>
    BY <1>1, <1>3, EmptySeq
  <2> QED BY <1>1, <2>1, PopProperties
<1> HIDE DEF v
<1>9. u = v
  <2>1. \A k \in 1..n - 1 : u[k] = v[k]
    BY <1>1, <1>3, <1>5, <1>7, <1>8
  <2> QED BY <1>7, <1>8, <2>1, SeqEqual DEF Tables
<1>10. Closes(t, u)
  BY <1>1, <1>8, <1>9, PopCloses DEF v
<1>11. /\ Seen(t) = Seen(table) /\ Owned(t) = Owned(table)
       /\ Seen(u) = Seen(after) /\ Owned(u) = Owned(after)
  BY <1>6, FollowedSees DEF t, u
<1>12. Closes(table, after)
  BY <1>10, <1>11, SameSteps
<1> QED
  BY <1>12 DEF after

(* A new name of a followed kind is bound; any other changes nothing that    *)
(* the followed names can see.                                               *)
LEMMA TrackedDeclaration ==
    ASSUME NEW table, Tracked(table), table # <<>>, NEW name, IsFree(table, name),
           NEW symbol \in Symbols
    PROVE  LET after == Declare(table, name, symbol)
           IN  /\ name \in Names => Binds(table, after, name)
               /\ name \notin Names => Seen(after) = Seen(table) /\ Owned(after) = Owned(table)
<1> DEFINE after == Declare(table, name, symbol)
           n == Len(table)
           top == With(table[n], name, symbol)
           t == Followed(table)
           u == Followed(after)
<1>1. /\ n \in Nat /\ DOMAIN table = 1..n
      /\ t \in Tables /\ Len(t) = n /\ \A k \in 1..n : t[k] = Own(table[k])
  BY FollowedProperties
<1>2. PICK S : table \in Seq(S)
  BY DEF Tracked
<1>3. /\ n # 0 /\ name \notin DOMAIN table[n]
      /\ \E any : after \in Seq(any)
      /\ Len(after) = n /\ after[n] = top
      /\ \A k \in 1..n - 1 : after[k] = table[k]
  BY <1>2, DeclareAny
<1>4. DOMAIN after = 1..n
  BY <1>3, LenProperties
<1>5. /\ DOMAIN top = DOMAIN table[n] \cup {name} /\ top[name] = symbol
      /\ \A x \in DOMAIN table[n] : x # name => top[x] = table[n][x]
  <2> DEFINE old == table[n]
  <2> HIDE DEF old
  <2>1. /\ DOMAIN With(old, name, symbol) = DOMAIN old \cup {name}
        /\ With(old, name, symbol)[name] = symbol
        /\ \A x \in DOMAIN old : x # name => With(old, name, symbol)[x] = old[x]
    BY DEF With
  <2> QED BY <2>1 DEF old
<1> HIDE DEF after, n, t, u, top
<1>6. n \in 1..n /\ \A k \in 1..n : k \in 1..n - 1 \/ k = n
  BY <1>1, <1>3
<1>7. Tracked(after)
  <2>1. \A k \in 1..n : \A x \in Names \cap DOMAIN table[k] : table[k][x] \in Symbols
    BY <1>1 DEF Tracked
  <2>2. \A k \in 1..n - 1 : \A x \in Names \cap DOMAIN after[k] : after[k][x] \in Symbols
    <3>1. \A k \in 1..n - 1 : k \in 1..n
      BY <1>1
    <3> QED BY <1>3, <2>1, <3>1
  <2>3. \A x \in Names \cap DOMAIN top : top[x] \in Symbols
    BY <1>5, <1>6, <2>1
  <2>4. \A k \in 1..n : \A x \in Names \cap DOMAIN after[k] : after[k][x] \in Symbols
    BY <1>3, <1>6, <2>2, <2>3
  <2> QED BY <1>3, <1>4, <2>4 DEF Tracked
<1>8. u \in Tables /\ Len(u) = n /\ \A k \in 1..n : u[k] = Own(after[k])
  BY <1>3, <1>7, FollowedProperties DEF u
<1>9. /\ Seen(t) = Seen(table) /\ Owned(t) = Owned(table)
      /\ Seen(u) = Seen(after) /\ Owned(u) = Owned(after)
  BY <1>7, FollowedSees DEF t, u
<1>10. /\ DOMAIN t[n] = Names \cap DOMAIN table[n]
       /\ \A x \in Names \cap DOMAIN table[n] : t[n][x] = table[n][x]
       /\ DOMAIN u[n] = Names \cap DOMAIN top
       /\ \A x \in Names \cap DOMAIN top : u[n][x] = top[x]
  BY <1>1, <1>3, <1>6, <1>8, OwnProperties
<1>11. \A k \in 1..n - 1 : u[k] = t[k] /\ k \in 1..n
  <2>1. \A k \in 1..n - 1 : k \in 1..n
    BY <1>1
  <2> QED BY <1>1, <1>3, <1>8, <2>1
<1>12. ASSUME name \in Names PROVE Binds(table, after, name)
  <2> DEFINE v == Declare(t, name, symbol)
  <2>1. /\ t # <<>> /\ IsFree(t, name)
        /\ v \in Tables /\ Len(v) = n
        /\ \A k \in 1..n - 1 : v[k] = t[k]
        /\ v[n] = With(t[n], name, symbol)
    <3>1. t # <<>>
      BY <1>1, <1>3, EmptySeq
    <3>2. name \notin DOMAIN t[n]
      BY <1>3, <1>10
    <3> QED BY <1>1, <1>12, <3>1, <3>2, DeclareProperties
  <2> HIDE DEF v
  <2>2. /\ DOMAIN v[n] = DOMAIN t[n] \cup {name} /\ v[n][name] = symbol
        /\ \A x \in DOMAIN t[n] : x # name => v[n][x] = t[n][x]
    <3> DEFINE old == t[n]
    <3> HIDE DEF old
    <3>1. /\ DOMAIN With(old, name, symbol) = DOMAIN old \cup {name}
          /\ With(old, name, symbol)[name] = symbol
          /\ \A x \in DOMAIN old : x # name => With(old, name, symbol)[x] = old[x]
      BY DEF With
    <3> QED BY <2>1, <3>1 DEF old
  <2>3. DOMAIN u[n] = DOMAIN v[n] /\ \A x \in DOMAIN u[n] : u[n][x] = v[n][x]
    BY <1>3, <1>5, <1>10, <1>12, <2>2
  <2>4. \A k \in 1..n : /\ DOMAIN u[k] = DOMAIN v[k]
                        /\ \A x \in DOMAIN u[k] : u[k][x] = v[k][x]
    BY <1>6, <1>11, <2>1, <2>3
  <2>5. u = v
    BY <1>8, <2>1, <2>4, SameTables
  <2>6. Binds(t, u, name)
    BY <1>1, <1>12, <2>1, <2>5, DeclarationBinds DEF v
  <2> QED BY <1>9, <2>6, SameSteps
<1>13. ASSUME name \notin Names PROVE Seen(after) = Seen(table) /\ Owned(after) = Owned(table)
  <2>1. DOMAIN u[n] = DOMAIN t[n] /\ \A x \in DOMAIN u[n] : u[n][x] = t[n][x]
    BY <1>5, <1>10, <1>13
  <2>2. \A k \in 1..n : /\ DOMAIN u[k] = DOMAIN t[k]
                        /\ \A x \in DOMAIN u[k] : u[k][x] = t[k][x]
    BY <1>6, <1>11, <2>1
  <2>3. u = t
    BY <1>1, <1>8, <2>2, SameTables
  <2> QED BY <1>9, <2>3
<1> QED
  BY <1>12, <1>13 DEF after

(* What the walk does to the table is one of its operations.                *)
Binding(name) ==
    /\ IsFree(scopes, name)
    /\ scopes' = Declare(scopes, name, Len(heap) + 1) /\ Len(heap) + 1 \in DOMAIN heap'

LEMMA DeclarationIsBinding ==
    ASSUME SymbolsInv, ScopesInv, scopes # <<>>, NEW name, NEW symbol, NEW at, NEW faults,
           DeclareSymbol(name, symbol, at, faults)
    PROVE  scopes' = scopes \/ Binding(name)
<1>1. /\ scopes' = Declare(scopes, name, Len(heap) + 1)
      /\ heap' = IF IsFree(scopes, name) THEN Append(heap, symbol) ELSE heap
  BY DEF DeclareSymbol
<1>2. CASE ~IsFree(scopes, name)
  BY <1>1, <1>2 DEF Declare, Ready
<1>3. CASE IsFree(scopes, name)
  <2>1. PICK S : heap \in Seq(S)
    BY DEF SymbolsInv
  <2>2. \A e : /\ Len(heap) \in Nat
               /\ DOMAIN Append(heap, e) = 1..Len(heap) + 1
    BY <2>1, AppendAny
  <2>3. Len(heap) + 1 \in DOMAIN heap'
    BY <1>1, <1>3, <2>2
  <2> QED BY <1>1, <1>3, <2>3 DEF Binding
<1> QED
  BY <1>2, <1>3

LEMMA WalkSteps ==
    ASSUME WalkInv, [Next]_vars
    PROVE  \/ scopes' = scopes \/ scopes' = PushScope(scopes)
           \/ scopes # <<>> /\ scopes' = PopScope(scopes)
           \/ scopes # <<>> /\ \E name : Binding(name)
<1>1. \A step : At(step) => scopes # <<>> /\ SymbolsInv /\ ScopesInv
  BY AtTask
<1>2. \A name, symbol, at, faults :
          scopes # <<>> /\ SymbolsInv /\ ScopesInv /\ DeclareSymbol(name, symbol, at, faults)
          => scopes' = scopes \/ Binding(name)
  BY DeclarationIsBinding
<1>3. CASE DeclareConst
  <2>1. At("Const") /\ \E name, symbol, at, faults : DeclareSymbol(name, symbol, at, faults)
    BY <1>3, Zenon DEF DeclareConst
  <2> QED BY <1>1, <1>2, <2>1
<1>4. CASE DeclareType
  <2>1. At("Type") /\ \E name, symbol, at, faults : DeclareSymbol(name, symbol, at, faults)
    BY <1>4, Zenon DEF DeclareType
  <2> QED BY <1>1, <1>2, <2>1
<1>5. CASE DeclareName
  <2>1. At("Name") /\ \E name, symbol, at, faults : DeclareSymbol(name, symbol, at, faults)
    BY <1>5, Zenon DEF DeclareName
  <2> QED BY <1>1, <1>2, <2>1
<1>6. CASE DeclareSubprogram
  <2>1. /\ At("Subprogram")
        /\ \E name, symbol, at, faults : DeclareSymbol(name, symbol, at, faults)
    BY <1>6, Zenon DEF DeclareSubprogram
  <2> QED BY <1>1, <1>2, <2>1
<1>7. CASE ResolveVars \/ ResolveParams \/ EnterBody \/ CheckStatement \/ UNCHANGED vars
  BY <1>7, Zenon DEF ResolveVars, ResolveParams, EnterBody, CheckStatement, vars
<1>8. CASE EnterSubprogram
  BY <1>8 DEF EnterSubprogram
<1>9. CASE LeaveSubprogram
  BY <1>1, <1>9 DEF LeaveSubprogram
<1> QED
  BY <1>3, <1>4, <1>5, <1>6, <1>7, <1>8, <1>9 DEF Next

LEMMA WalkIsTracked == WalkInv /\ Fits => Tracked(scopes)
  BY DEF WalkInv, ScopesInv, Fits, Tracked

(* Nothing is declared yet of the names that are followed.                  *)
LEMMA InitSees ==
    ASSUME Init, Tracked(scopes)
    PROVE  Seen(scopes) = <<Blocks!Everywhere>> /\ Owned(scopes) = <<{}>>
<1> DEFINE first == <<SeedScope>>
           name == program.name
           symbol == Len(SeedHeap) + 1
<1>1. program \in Programs /\ scopes = Declare(first, name, symbol)
  BY DEF Init
<1>2. first \in Seq({SeedScope}) /\ first # <<>> /\ Len(first) = 1 /\ first[1] = SeedScope
  OBVIOUS
<1>3. Names \cap DOMAIN SeedScope = {} /\ name \notin Names
  BY <1>1, OwnNames
<1> HIDE DEF first, name, symbol
<1>4. /\ ~IsFree(first, name) => scopes = first
      /\ IsFree(first, name) => Len(scopes) = 1 /\ scopes[1] = With(SeedScope, name, symbol)
  <2>1. /\ ~IsFree(first, name) => Declare(first, name, symbol) = first
        /\ IsFree(first, name) =>
             /\ Len(Declare(first, name, symbol)) = Len(first)
             /\ Declare(first, name, symbol)[Len(first)] = With(first[Len(first)], name, symbol)
    BY <1>2, DeclareAny
  <2> QED BY <1>1, <1>2, <2>1
<1>5. Len(scopes) = 1 /\ Names \cap DOMAIN scopes[1] = {}
  <2>1. DOMAIN With(SeedScope, name, symbol) = DOMAIN SeedScope \cup {name}
    BY DEF With
  <2>2. Names \cap DOMAIN With(SeedScope, name, symbol) = {}
    BY <1>3, <2>1
  <2> QED BY <1>2, <1>3, <1>4, <2>2
<1> DEFINE t == Followed(scopes)
<1>6. t \in Tables /\ Len(t) = 1 /\ DOMAIN t[1] = {}
  <2>1. t \in Tables /\ Len(t) = 1 /\ t[1] = Own(scopes[1])
    BY <1>5, FollowedProperties
  <2> QED BY <1>5, <2>1, OwnProperties
<1> HIDE DEF t
<1>7. NewTable \in Tables /\ Len(NewTable) = 1 /\ NewTable[1] = EmptyScope
  BY EmptyScopeProperties DEF NewTable, Tables
<1>8. t = NewTable
  <2> HIDE DEF NewTable
  <2>1. \A k \in 1..Len(t) : k = 1
    BY <1>6
  <2>2. \A k \in 1..Len(t) : /\ DOMAIN t[k] = DOMAIN NewTable[k]
                             /\ \A x \in DOMAIN t[k] : t[k][x] = NewTable[k][x]
    BY <1>6, <1>7, <2>1, EmptyScopeProperties
  <2> QED BY <1>6, <1>7, <2>2, SameTables
<1> QED
  BY <1>8, NewTableSees, FollowedSees DEF t

(* What the analyser does with its table is block structure: whatever the    *)
(* program, a name means what the innermost subprogram around the place that *)
(* declares it says, and the end of a subprogram brings back what every name *)
(* meant before it (walkBlock and walkSubprogram as the callers of declare,  *)
(* pushScope and popScope).  Symbols has to have room for those declared.    *)
THEOREM AnalysisIsBlockStructured == Spec /\ []Fits => ImplementsEnvironment
<1>1. Init /\ WalkInv /\ Fits => Blocks!Init
  BY WalkIsTracked, InitSees DEF Blocks!Init
<1>2. WalkInv /\ Fits /\ Fits' /\ [Next]_vars
      => Blocks!Next \/ (Seen(scopes') = Seen(scopes) /\ Owned(scopes') = Owned(scopes))
  <2> SUFFICES ASSUME WalkInv, Fits, Fits', [Next]_vars
               PROVE  \/ Blocks!Next
                      \/ Seen(scopes') = Seen(scopes) /\ Owned(scopes') = Owned(scopes)
    OBVIOUS
  <2>1. Tracked(scopes)
    BY WalkIsTracked
  <2>2. CASE scopes' = scopes
    BY <2>2
  <2>3. CASE scopes' = PushScope(scopes)
    <3>1. Opens(scopes, scopes')
      BY <2>1, <2>3, TrackedPush
    <3> QED BY <3>1, StepsOfBlocks DEF Blocks!Next
  <2>4. CASE scopes # <<>> /\ scopes' = PopScope(scopes)
    <3>1. Closes(scopes, scopes')
      BY <2>1, <2>4, TrackedPop
    <3> QED BY <3>1, StepsOfBlocks DEF Blocks!Next
  <2>5. CASE scopes # <<>> /\ \E name : Binding(name)
    <3>1. PICK name : Binding(name)
      BY <2>5
    <3>2. Len(heap) + 1 \in Symbols
      BY <3>1 DEF Binding, Fits
    <3>3. /\ name \in Names => Binds(scopes, scopes', name)
          /\ name \notin Names => Seen(scopes') = Seen(scopes) /\ Owned(scopes') = Owned(scopes)
      <4> DEFINE symbol == Len(heap) + 1
                 after == Declare(scopes, name, symbol)
      <4>1. scopes' = after /\ IsFree(scopes, name)
        BY <3>1 DEF Binding
      <4> HIDE DEF symbol
      <4>2. symbol \in Symbols
        BY <3>2 DEF symbol
      <4>3. /\ name \in Names => Binds(scopes, after, name)
            /\ name \notin Names => Seen(after) = Seen(scopes) /\ Owned(after) = Owned(scopes)
        BY <2>1, <2>5, <4>1, <4>2, TrackedDeclaration
      <4> QED BY <4>1, <4>3
    <3> QED BY <3>3, StepsOfBlocks DEF Blocks!Next
  <2> QED BY <2>2, <2>3, <2>4, <2>5, WalkSteps
<1>3. WalkInv /\ Fits /\ Fits' /\ [Next]_vars => [Blocks!Next]_<<Seen(scopes), Owned(scopes)>>
  BY <1>2
<1> QED
  BY <1>1, <1>3, WalkInvariant, PTL DEF Spec, ImplementsEnvironment, Blocks!Spec
================================================================================
