------------------------------ MODULE LoopLemmas ------------------------------
(***************************************************************************)
(* What the proofs about loops and recursions use: a set of positions has  *)
(* a least and a greatest element, so that a claim about all positions is  *)
(* proved at the first or the last one at which it would fail; and a       *)
(* function defined by recursion satisfies its equation, because one does. *)
(***************************************************************************)
EXTENDS Integers, WellFoundedInduction, NaturalsInduction, TLAPS

LEMMA LeastExists ==
    ASSUME NEW S \in SUBSET Nat, S # {}
    PROVE  \E k \in S : \A j \in S : k <= j
<1> DEFINE R == OpToRel(<, Nat)
<1>1. \E x \in S : \A y \in S : ~ (<<y, x>> \in R)
  <2> HIDE DEF R
  <2> QED BY NatLessThanWellFounded, WFMin DEF R
<1>2. \A x, y \in S : y < x => <<y, x>> \in R
  BY DEF OpToRel
<1>3. PICK x \in S : \A y \in S : ~ (<<y, x>> \in R)
  <2> HIDE DEF R
  <2> QED BY <1>1
<1>4. \A y \in S : ~ (y < x)
  <2> HIDE DEF R
  <2> QED BY <1>2, <1>3
<1> QED
  BY <1>4

LEMMA GreatestExists ==
    ASSUME NEW S \in SUBSET Int, S # {}, NEW n \in Int, \A k \in S : k <= n
    PROVE  \E k \in S : \A j \in S : j <= k
<1> DEFINE T == {n - k : k \in S}
<1>1. T \in SUBSET Nat /\ T # {}
  <2>1. \A k \in S : n - k \in Nat
    OBVIOUS
  <2> QED BY <2>1
<1>2. PICK d \in T : \A e \in T : d <= e
  <2> HIDE DEF T
  <2> QED BY <1>1, LeastExists
<1>3. PICK k \in S : d = n - k
  OBVIOUS
<1> QED
  BY <1>2, <1>3

(* A function defined by recursion towards larger arguments exists.         *)
HasRecursiveFunction(a, b, S, base, next, step) ==
    \E f \in [a..b -> S] : \A k \in a..b :
        f[k] = IF k < next[k] /\ next[k] <= b THEN step[k][f[next[k]]] ELSE base[k]

LEMMA RecursionExists ==
    ASSUME NEW a \in Int, NEW b \in Int, NEW S, NEW base \in [a..b -> S],
           NEW next \in [a..b -> Int], NEW step \in [a..b -> [S -> S]]
    PROVE  HasRecursiveFunction(a, b, S, base, next, step)
<1> USE DEF HasRecursiveFunction
<1> DEFINE Value(f, k) == IF k < next[k] /\ next[k] <= b THEN step[k][f[next[k]]] ELSE base[k]
           From(m) == \E f \in [m..b -> S] : \A k \in m..b : f[k] = Value(f, k)
           Bad == {d \in Nat : b + 1 - d >= a /\ ~From(b + 1 - d)}
<1>1. CASE a <= b + 1
  <2>1. SUFFICES Bad = {}
    <3>1. b + 1 - a \in Nat /\ b + 1 - (b + 1 - a) = a
      BY <1>1
    <3>2. From(a)
      <4>1. b + 1 - a \notin Bad
        BY <2>1
      <4> HIDE DEF From
      <4> QED BY <3>1, <4>1
    <3> QED BY <3>2
  <2> SUFFICES ASSUME Bad # {} PROVE FALSE
    OBVIOUS
  <2>2. PICK d \in Bad : \A e \in Bad : d <= e
    <3>1. Bad \in SUBSET Nat
      OBVIOUS
    <3> HIDE DEF Bad
    <3> QED BY <3>1, LeastExists
  <2> DEFINE m == b + 1 - d
  <2>3. d \in Nat /\ m \in Int /\ m >= a /\ ~From(m)
    <3> HIDE DEF From
    <3> QED BY <2>2
  <2>4. d # 0
    <3> SUFFICES ASSUME d = 0 PROVE FALSE
      OBVIOUS
    <3>1. m..b = {}
      BY <2>3
    <3>2. [k \in {} |-> base[a]] \in [{} -> S]
      OBVIOUS
    <3> QED BY <2>3, <3>1, <3>2
  <2>5. From(m + 1)
    <3>1. d - 1 \in Nat /\ ~(d <= d - 1) /\ b + 1 - (d - 1) = m + 1 /\ m + 1 >= a
      BY <2>3, <2>4
    <3>2. d - 1 \notin Bad
      <4> HIDE DEF Bad, m
      <4> QED BY <2>2, <3>1
    <3> HIDE DEF From, m
    <3> QED BY <3>1, <3>2
  <2>6. PICK f \in [m + 1..b -> S] : \A k \in m + 1..b : f[k] = Value(f, k)
    BY <2>5
  <2> DEFINE g == [k \in m..b |-> IF k = m THEN Value(f, m) ELSE f[k]]
  <2>7. m \in a..b /\ m + 1..b = {k \in m..b : k > m} /\ m..b \subseteq a..b
    BY <2>3, <2>4
  <2>8. m < next[m] /\ next[m] <= b => next[m] \in m + 1..b
    BY <2>7
  <2>9. Value(f, m) \in S
    BY <2>7, <2>8
  <2>10. g \in [m..b -> S]
    <3> HIDE DEF Value
    <3> QED BY <2>7, <2>9
  <2>11. \A k \in m + 1..b : g[k] = f[k]
    BY <2>7
  <2>12. \A k \in m..b : g[k] = Value(f, k)
    <3>1. \A k \in m..b : k = m \/ k \in m + 1..b
      BY <2>7
    <3>2. g[m] = Value(f, m)
      <4> HIDE DEF Value
      <4> QED BY <2>7
    <3> HIDE DEF Value, g
    <3> QED BY <2>6, <2>11, <3>1, <3>2
  <2>13. \A k \in m..b : k < next[k] /\ next[k] <= b => next[k] \in m + 1..b
    BY <2>7
  <2>14. \A k \in m..b : Value(f, k) = Value(g, k)
    <3> HIDE DEF g
    <3> QED BY <2>11, <2>13
  <2>15. From(m)
    <3> HIDE DEF g, Value
    <3> QED BY <2>10, <2>12, <2>14
  <2> QED BY <2>3, <2>15
<1>2. CASE ~(a <= b + 1)
  <2>1. a..b = {}
    BY <1>2
  <2> QED BY <2>1
<1> QED BY <1>1, <1>2
===============================================================================
