--------------------------- MODULE SequentialProofs ---------------------------
(***************************************************************************)
(* The slots, the handles and the loops of the generated code add up to    *)
(* the sequential file of PascalFile, whatever the files hold, whatever    *)
(* the program reads and writes, wherever its runs end, and whatever a     *)
(* component consists of.                                                  *)
(***************************************************************************)
EXTENDS FilesAreSequential, FileProofs, LoopLemmas

---------------------------------------------------------------------------
(* Quotients and remainders.                                                *)

LEMMA DivMod ==
    ASSUME NEW F \in Nat, F > 0, NEW a \in Int
    PROVE  /\ a = F * (a \div F) + (a % F)
           /\ a \div F \in Int /\ a % F \in 0..F - 1
  OBVIOUS

LEMMA SmallMultiple ==
    ASSUME NEW F \in Nat, F > 0, NEW q \in Int, NEW d \in Int, d = F * q, d < F, -F < d
    PROVE  q = 0
<1>1. q >= 1 => F * q >= F
  OBVIOUS
<1>2. q =< -1 => F * q =< -F
  OBVIOUS
<1> QED
  BY <1>1, <1>2

LEMMA DivUnique ==
    ASSUME NEW F \in Nat, F > 0, NEW q \in Int, NEW r \in 0..F - 1
    PROVE  (F * q + r) % F = r /\ (F * q + r) \div F = q
<1> DEFINE a == F * q + r
<1>1. a \in Int
  OBVIOUS
<1>2. a = F * (a \div F) + (a % F) /\ a \div F \in Int /\ a % F \in 0..F - 1
  <2> HIDE DEF a
  <2> QED BY <1>1, DivMod
<1>3. PICK u, m \in Int : u = a \div F /\ m = a % F
  BY <1>2
<1>4. F * (u - q) = r - m
  <2>1. F * q + r = F * u + m
    BY <1>2, <1>3
  <2>2. F * (u - q) = F * u - F * q
    OBVIOUS
  <2> QED BY <2>1, <2>2
<1>5. u - q = 0
  <2>1. r - m < F /\ -F < r - m /\ u - q \in Int /\ r - m \in Int
    BY <1>2, <1>3
  <2> QED BY <2>1, <1>4, SmallMultiple
<1>6. u = q /\ m = r
  BY <1>3, <1>4, <1>5
<1> QED
  BY <1>3, <1>6

---------------------------------------------------------------------------
(* Functions defined by recursion over a sequence.                          *)

HasPrimitiveRecursion(n, S, base, step) ==
    \E g \in [0..n -> S] :
        \A k \in 0..n : g[k] = IF k = 0 THEN base ELSE step[k][g[k - 1]]

LEMMA PrimitiveRecursionExists ==
    ASSUME NEW n \in Nat, NEW S, NEW base \in S, NEW step \in [1..n -> [S -> S]]
    PROVE  HasPrimitiveRecursion(n, S, base, step)
<1> DEFINE bases == [k \in -n..0 |-> base]
           next == [k \in -n..0 |-> k + 1]
           steps == [k \in -n..0 |-> IF k = 0 THEN [v \in S |-> v] ELSE step[0 - k]]
<1>1. bases \in [-n..0 -> S] /\ next \in [-n..0 -> Int]
  OBVIOUS
<1>2. steps \in [-n..0 -> [S -> S]]
  <2>1. \A k \in -n..0 : k # 0 => 0 - k \in 1..n
    OBVIOUS
  <2>2. [v \in S |-> v] \in [S -> S]
    OBVIOUS
  <2> QED BY <2>1, <2>2
<1>3. PICK f \in [-n..0 -> S] : \A k \in -n..0 :
          f[k] = IF k < next[k] /\ next[k] <= 0 THEN steps[k][f[next[k]]] ELSE bases[k]
  <2>1. -n \in Int /\ 0 \in Int
    OBVIOUS
  <2> HIDE DEF bases, next, steps
  <2>2. HasRecursiveFunction(-n, 0, S, bases, next, steps)
    BY <1>1, <1>2, <2>1, RecursionExists
  <2> QED BY <2>2 DEF HasRecursiveFunction
<1> DEFINE g == [k \in 0..n |-> f[0 - k]]
<1>4. \A k \in 0..n : 0 - k \in -n..0
  OBVIOUS
<1>5. g \in [0..n -> S]
  BY <1>4
<1>6. ASSUME NEW k \in 0..n
      PROVE  g[k] = IF k = 0 THEN base ELSE step[k][g[k - 1]]
  <2>1. g[k] = f[0 - k] /\ 0 - k \in -n..0
    BY <1>4
  <2>2. CASE k = 0
    <3>1. 0 \in -n..0 /\ 0 - k = 0
      BY <2>1, <2>2
    <3>2. next[0] = 1 /\ bases[0] = base
      BY <3>1
    <3>3. f[0] = base
      <4> HIDE DEF bases, next, steps, g
      <4> QED BY <1>3, <3>1, <3>2
    <3> QED BY <2>1, <2>2, <3>1, <3>3
  <2>3. CASE k # 0
    <3>1. next[0 - k] = 0 - (k - 1) /\ 0 - k < 0 - (k - 1) /\ 0 - (k - 1) <= 0 /\ k - 1 \in 0..n
      BY <2>3, <2>1
    <3>2. steps[0 - k] = step[k]
      BY <2>1, <2>3
    <3>3. f[0 - k] = step[k][f[0 - (k - 1)]]
      <4> HIDE DEF bases, next, steps, g
      <4> QED BY <1>3, <2>1, <3>1, <3>2
    <3>4. g[k - 1] = f[0 - (k - 1)]
      BY <3>1
    <3> QED BY <2>1, <2>3, <3>3, <3>4
  <2> QED BY <2>2, <2>3
<1> HIDE DEF g
<1> QED
  BY <1>5, <1>6 DEF HasPrimitiveRecursion

---------------------------------------------------------------------------
(* The fields of a component.                                               *)

LEMMA ComponentFacts ==
    /\ Len(Component) \in Nat \ {0} /\ DOMAIN Component = 1..Len(Component)
    /\ \A k \in 1..Len(Component) :
         /\ Component[k] \in FieldSorts
         /\ Width(Component[k]) \in Nat \ {0}
<1>1. Component \in Seq(FieldSorts) /\ Component # <<>> /\ FieldWidth \in Nat \ {0}
  BY TypedAssumption
<1>2. Len(Component) \in Nat /\ DOMAIN Component = 1..Len(Component)
  BY <1>1, LenProperties
<1>3. Len(Component) # 0
  BY <1>1, EmptySeq
<1>4. \A k \in 1..Len(Component) : Component[k] \in FieldSorts
  BY <1>1, ElementOfSeq
<1>5. \A sort \in FieldSorts : Width(sort) \in Nat \ {0}
  BY <1>1 DEF Width, FieldSorts
<1> QED
  BY <1>2, <1>3, <1>4, <1>5

LEMMA OffsetEquation ==
    /\ Offset \in [0..Len(Component) -> Nat]
    /\ \A k \in 0..Len(Component) :
         Offset[k] = IF k = 0 THEN 0 ELSE Offset[k - 1] + Width(Component[k])
<1> DEFINE n == Len(Component)
           w(k) == Width(Component[k])
           Value(f, k) == IF k = 0 THEN 0 ELSE f[k - 1] + w(k)
           Equation(f) == f = [k \in 0..n |-> Value(f, k)]
           step == [k \in 1..n |-> [v \in Nat |-> v + w(k)]]
<1>1. n \in Nat /\ \A k \in 1..n : w(k) \in Nat
  BY ComponentFacts
<1> HIDE DEF n, w
<1>2. step \in [1..n -> [Nat -> Nat]]
  BY <1>1
<1>3. PICK g \in [0..n -> Nat] :
          \A k \in 0..n : g[k] = IF k = 0 THEN 0 ELSE step[k][g[k - 1]]
  <2>1. 0 \in Nat
    OBVIOUS
  <2> HIDE DEF step
  <2>2. HasPrimitiveRecursion(n, Nat, 0, step)
    BY <1>1, <1>2, <2>1, PrimitiveRecursionExists
  <2> QED BY <2>2 DEF HasPrimitiveRecursion
<1>4. \A k \in 0..n : k # 0 => k \in 1..n /\ k - 1 \in 0..n
  BY <1>1
<1>5. \A k \in 0..n : g[k] = Value(g, k)
  <2> SUFFICES ASSUME NEW k \in 0..n, k # 0 PROVE g[k] = g[k - 1] + w(k)
    BY <1>3
  <2>1. k \in 1..n /\ k - 1 \in 0..n /\ g[k - 1] \in Nat
    BY <1>4
  <2>2. step[k][g[k - 1]] = g[k - 1] + w(k)
    BY <2>1
  <2> HIDE DEF step
  <2> QED BY <1>3, <2>2
<1>6. Equation(g)
  <2> DEFINE h == [k \in 0..n |-> Value(g, k)]
  <2> HIDE DEF Value
  <2>1. g = [k \in 0..n |-> g[k]]
    OBVIOUS
  <2>2. [k \in 0..n |-> g[k]] = h
    BY <1>5
  <2> QED BY <2>1, <2>2
<1>7. Offset = CHOOSE f : Equation(f)
  BY DEF Offset, n, w
<1>8. Equation(Offset)
  <2> HIDE DEF Equation
  <2> QED BY <1>6, <1>7
<1>9. \A k \in 0..n : Offset[k] = Value(Offset, k)
  BY <1>8
<1>10. Offset \in [0..n -> Nat]
  <2> DEFINE Bad == {k \in 0..n : Offset[k] \notin Nat}
  <2>1. SUFFICES Bad = {}
    <3>1. Offset = [k \in 0..n |-> Offset[k]]
      <4>1. DOMAIN Offset = 0..n
        BY <1>8
      <4> QED BY <1>8, <4>1
    <3> QED BY <2>1, <3>1
  <2> SUFFICES ASSUME Bad # {} PROVE FALSE
    OBVIOUS
  <2>2. PICK k \in Bad : \A j \in Bad : k <= j
    <3>1. Bad \in SUBSET Nat
      OBVIOUS
    <3> HIDE DEF Bad
    <3> QED BY <3>1, LeastExists
  <2>3. k # 0
    BY <1>9
  <2>4. k - 1 \in 0..n /\ k \in 1..n
    BY <1>4, <2>3
  <2>5. Offset[k - 1] \in Nat
    BY <2>2, <2>4
  <2>6. Offset[k] = Offset[k - 1] + w(k)
    BY <1>9, <2>3
  <2> QED BY <1>1, <2>4, <2>5, <2>6
<1> QED
  BY <1>9, <1>10 DEF n, w

LEMMA OffsetsAreIncreasing ==
    /\ \A k \in 0..Len(Component) : Offset[k] \in Nat
    /\ \A k \in 1..Len(Component) : Offset[k] = Offset[k - 1] + Width(Component[k])
    /\ \A j, k \in 0..Len(Component) : j =< k => Offset[j] =< Offset[k]
    /\ Offset[0] = 0 /\ Size \in Nat \ {0}
<1> DEFINE n == Len(Component)
           w(k) == Width(Component[k])
<1>1. n \in Nat \ {0} /\ \A k \in 1..n : w(k) \in Nat \ {0}
  BY ComponentFacts
<1>2. /\ \A k \in 0..n : Offset[k] \in Nat
      /\ \A k \in 0..n : Offset[k] = IF k = 0 THEN 0 ELSE Offset[k - 1] + w(k)
  BY OffsetEquation
<1>3. Size = Offset[n]
  BY DEF Size
<1> HIDE DEF n, w
<1>4. Offset[0] = 0 /\ \A k \in 1..n : Offset[k] = Offset[k - 1] + w(k)
  BY <1>1, <1>2
<1>5. \A j, k \in 0..n : j =< k => Offset[j] =< Offset[k]
  <2> SUFFICES ASSUME NEW j \in 0..n PROVE \A k \in 0..n : j =< k => Offset[j] =< Offset[k]
    OBVIOUS
  <2> DEFINE Bad == {k \in 0..n : j =< k /\ ~(Offset[j] =< Offset[k])}
  <2> SUFFICES ASSUME Bad # {} PROVE FALSE
    OBVIOUS
  <2>1. PICK k \in Bad : \A i \in Bad : k <= i
    <3>1. Bad \in SUBSET Nat
      OBVIOUS
    <3> HIDE DEF Bad
    <3> QED BY <3>1, LeastExists
  <2>2. k # j /\ k \in 0..n /\ j =< k
    BY <1>2
  <2>3. k \in 1..n /\ k - 1 \in 0..n /\ j =< k - 1
    BY <1>1, <2>2
  <2>4. Offset[j] =< Offset[k - 1]
    BY <2>1, <2>3
  <2> QED BY <1>1, <1>2, <1>4, <2>1, <2>3, <2>4
<1>6. Size \in Nat \ {0}
  <2>1. n \in 1..n /\ n - 1 \in 0..n /\ n \in 0..n
    BY <1>1
  <2>2. Offset[n] = Offset[n - 1] + w(n) /\ Offset[n - 1] \in Nat /\ w(n) \in Nat \ {0}
    BY <1>1, <1>2, <1>4, <2>1
  <2> QED BY <1>3, <2>2
<1> QED
  BY <1>2, <1>4, <1>5, <1>6 DEF n, w

(* Every place in a component is in one of its fields.                      *)
LEMMA FieldOfPlace ==
    ASSUME NEW x \in Nat, x < Size
    PROVE  \E k \in 1..Len(Component) : Offset[k - 1] =< x /\ x < Offset[k]
<1> DEFINE n == Len(Component)
           Past == {k \in 1..n : x < Offset[k]}
<1>1. /\ n \in Nat \ {0} /\ \A k \in 0..n : Offset[k] \in Nat
      /\ Offset[0] = 0 /\ Size = Offset[n]
  BY ComponentFacts, OffsetsAreIncreasing DEF Size
<1>2. Past # {} /\ Past \in SUBSET Nat
  BY <1>1
<1>3. PICK k \in Past : \A j \in Past : k <= j
  <2> HIDE DEF Past
  <2> QED BY <1>2, LeastExists
<1>4. k \in 1..n /\ x < Offset[k]
  OBVIOUS
<1>5. k - 1 \notin Past
  BY <1>3, <1>4
<1>6. Offset[k - 1] =< x
  <2>1. CASE k = 1
    BY <1>1, <2>1
  <2>2. CASE k # 1
    BY <1>1, <1>4, <1>5, <2>2
  <2> QED BY <2>1, <2>2
<1> QED
  BY <1>4, <1>6

(* The places of two fields are different.                                  *)
LEMMA OneFieldPerPlace ==
    ASSUME NEW j \in 1..Len(Component), NEW k \in 1..Len(Component), NEW x \in Int,
           Offset[j - 1] < x, x =< Offset[j], Offset[k - 1] < x, x =< Offset[k]
    PROVE  j = k
<1> DEFINE n == Len(Component)
<1>1. /\ n \in Nat /\ j - 1 \in 0..n /\ k - 1 \in 0..n /\ j \in 0..n /\ k \in 0..n
      /\ \A i \in 0..n : Offset[i] \in Nat
      /\ \A i, m \in 0..n : i =< m => Offset[i] =< Offset[m]
  BY ComponentFacts, OffsetsAreIncreasing
<1> HIDE DEF n
<1>2. ~(j =< k - 1)
  BY <1>1
<1>3. ~(k =< j - 1)
  BY <1>1
<1> QED
  BY <1>2, <1>3

---------------------------------------------------------------------------
(* Words, lines and numbers.                                                *)

NoneIn(stops, from, to) == \A i \in from + 1..to : i \notin stops

LEMMA FirstFacts ==
    ASSUME NEW s \in Seq(Byte), NEW from \in 0..Len(s), NEW stops
    PROVE  LET k == Sequential!First(s, from, stops)
           IN  /\ k \in from..Len(s)
               /\ k = Len(s) \/ k + 1 \in stops
               /\ NoneIn(stops, from, k)
<1> DEFINE Stop(k) == k = Len(s) \/ k + 1 \in stops
           Stops == {k \in from..Len(s) : Stop(k)}
<1>1. Len(s) \in Nat /\ from \in Nat /\ Len(s) \in Stops /\ Stops \in SUBSET Nat
  BY LenProperties
<1>2. PICK k \in Stops : \A j \in Stops : k <= j
  <2> HIDE DEF Stops
  <2> QED BY <1>1, LeastExists
<1>3. NoneIn(stops, from, k)
  <2> SUFFICES ASSUME NEW i \in from + 1..k, i \in stops PROVE FALSE
    BY DEF NoneIn
  <2>1. i - 1 \in from..Len(s) /\ ~(k <= i - 1) /\ (i - 1) + 1 = i
    BY <1>1
  <2>2. i - 1 \in Stops
    BY <2>1
  <2> QED BY <1>2, <2>1, <2>2
<1>4. k \in from..Len(s) /\ (k = Len(s) \/ k + 1 \in stops)
  OBVIOUS
<1>5. \E m \in from..Len(s) : /\ m = Len(s) \/ m + 1 \in stops
                              /\ \A i \in from + 1..m : i \notin stops
  BY <1>3, <1>4 DEF NoneIn
<1>6. Sequential!First(s, from, stops) =
          CHOOSE m \in from..Len(s) : /\ m = Len(s) \/ m + 1 \in stops
                                      /\ \A i \in from + 1..m : i \notin stops
  BY DEF Sequential!First
<1> QED
  BY <1>5, <1>6 DEF NoneIn

LEMMA FirstIs ==
    ASSUME NEW s \in Seq(Byte), NEW from \in 0..Len(s), NEW stops, NEW k \in from..Len(s),
           k = Len(s) \/ k + 1 \in stops, NoneIn(stops, from, k)
    PROVE  Sequential!First(s, from, stops) = k
<1> DEFINE f == Sequential!First(s, from, stops)
<1>1. f \in from..Len(s) /\ (f = Len(s) \/ f + 1 \in stops) /\ NoneIn(stops, from, f)
  BY FirstFacts
<1>2. Len(s) \in Nat
  BY LenProperties
<1> HIDE DEF f
<1>3. ~(f < k)
  <2> SUFFICES ASSUME f < k PROVE FALSE
    OBVIOUS
  <2>1. f + 1 \in from + 1..k /\ f # Len(s)
    BY <1>1, <1>2
  <2> QED BY <1>1, <2>1 DEF NoneIn
<1>4. ~(k < f)
  <2> SUFFICES ASSUME k < f PROVE FALSE
    OBVIOUS
  <2>1. k + 1 \in from + 1..f /\ k # Len(s)
    BY <1>1, <1>2
  <2> QED BY <1>1, <2>1 DEF NoneIn
<1>5. f = k
  BY <1>1, <1>2, <1>3, <1>4
<1> QED
  BY <1>5 DEF f

LEMMA TextFacts ==
    ASSUME NEW s \in Seq(Byte)
    PROVE  /\ Len(s) \in Nat /\ DOMAIN s = 1..Len(s)
           /\ \A i \in 1..Len(s) : s[i] \in Byte /\ s[i] \in Nat
<1>1. Len(s) \in Nat /\ DOMAIN s = 1..Len(s)
  BY LenProperties
<1>2. \A i \in 1..Len(s) : s[i] \in Byte
  BY ElementOfSeq
<1>3. Byte \subseteq Nat
  BY FileAssumption DEF Byte
<1> QED
  BY <1>1, <1>2, <1>3

LEMMA PieceFacts ==
    ASSUME NEW s \in Seq(Byte), NEW a \in Nat, NEW b \in Nat, b =< Len(s)
    PROVE  /\ SubSeq(s, a + 1, b) \in Seq(Byte)
           /\ Len(SubSeq(s, a + 1, b)) = IF a < b THEN b - a ELSE 0
           /\ \A i \in 1..b - a : SubSeq(s, a + 1, b)[i] = s[a + i]
<1>1. \A i \in a + 1..b : s[i] \in Byte
  BY TextFacts
<1>2. /\ SubSeq(s, a + 1, b) \in Seq(Byte)
      /\ Len(SubSeq(s, a + 1, b)) = IF a + 1 <= b THEN b - (a + 1) + 1 ELSE 0
      /\ \A i \in 1..b - (a + 1) + 1 : SubSeq(s, a + 1, b)[i] = s[(a + 1) + i - 1]
  BY <1>1, SubSeqProperties
<1>3. /\ a + 1 <= b <=> a < b
      /\ b - (a + 1) + 1 = b - a /\ \A i \in 1..b - a : (a + 1) + i - 1 = a + i
  OBVIOUS
<1> QED
  BY <1>2, <1>3

(* A piece grows by the next byte.                                          *)
LEMMA PieceGrows ==
    ASSUME NEW s \in Seq(Byte), NEW a \in Nat, NEW b \in Nat, a =< b, b < Len(s)
    PROVE  SubSeq(s, a + 1, b) \o <<s[b + 1]>> = SubSeq(s, a + 1, b + 1)
<1>1. Len(s) \in Nat
  BY TextFacts
<1>2. a + 1 \in 1..Len(s) /\ b + 1 \in a + 1..Len(s) /\ (b + 1) - 1 = b
  BY <1>1
<1>3. SubSeq(s, a + 1, b + 1) = SubSeq(s, a + 1, (b + 1) - 1) \o <<s[b + 1]>>
  BY <1>2, SubSeqRecursiveSecond
<1> QED
  BY <1>2, <1>3

LEMMA NoPiece ==
    ASSUME NEW s, NEW a \in Nat
    PROVE  SubSeq(s, a + 1, a) = <<>>
  BY SubSeqEmpty

LEMMA PlaceAfterFacts ==
    ASSUME NEW s \in Seq(Byte), NEW k \in 0..Len(s), NEW sort \in TextSorts, NEW whole
    PROVE  /\ Sequential!PlaceAfter(s, k, sort, whole) \in k..Len(s)
           /\ Sequential!ValueAt(s, k, sort, whole) \in Seq(Nat)
<1> DEFINE p == Sequential!PlaceAfter(s, k, sort, whole)
           v == Sequential!ValueAt(s, k, sort, whole)
<1>1. Len(s) \in Nat /\ k \in Nat /\ \A i \in 1..Len(s) : s[i] \in Nat
  BY TextFacts
<1>2. Byte \subseteq Nat
  BY FileAssumption DEF Byte
<1>3. ASSUME NEW a \in Nat, NEW b \in Nat, b =< Len(s) PROVE SubSeq(s, a + 1, b) \in Seq(Nat)
  <2>1. SubSeq(s, a + 1, b) \in Seq(Byte)
    BY <1>3, PieceFacts
  <2> QED BY <1>2, <2>1, SeqMonotonic
<1>4. Sequential!LineEnd(s, k) \in k..Len(s)
  BY FirstFacts DEF Sequential!LineEnd
<1>5. Sequential!WordEnd(s, k) \in k..Len(s)
  <2>1. k = Len(s) \/ k + 1 \in 0..Len(s)
    BY <1>1
  <2>2. k # Len(s) => Sequential!First(s, k + 1, Sequential!Blanks(s)) \in k + 1..Len(s)
    BY <2>1, FirstFacts
  <2> QED BY <1>1, <2>2 DEF Sequential!WordEnd
<1>6. Sequential!NumberStart(s, k) \in k..Len(s)
  BY FirstFacts DEF Sequential!NumberStart
<1>7. Sequential!NumberEnd(s, k) \in Sequential!NumberStart(s, k)..Len(s)
  <2>1. Sequential!NumberStart(s, k) \in 0..Len(s)
    BY <1>1, <1>6
  <2> QED BY <2>1, FirstFacts DEF Sequential!NumberEnd
<1>8. CASE sort = "char"
  <2>1. p = IF k = Len(s) THEN k ELSE k + 1
    BY <1>8 DEF Sequential!PlaceAfter
  <2>2. v = IF k = Len(s) THEN <<0>> ELSE <<s[k + 1]>>
    BY <1>8 DEF Sequential!ValueAt
  <2>3. k # Len(s) => s[k + 1] \in Nat
    BY <1>1
  <2> QED BY <1>1, <2>1, <2>2, <2>3
<1>9. CASE sort = "string"
  <2>1. p = IF whole THEN Sequential!LineEnd(s, k) ELSE Sequential!WordEnd(s, k)
    BY <1>9 DEF Sequential!PlaceAfter
  <2>2. v = SubSeq(s, k + 1, p)
    BY <1>9 DEF Sequential!ValueAt
  <2>3. p \in k..Len(s)
    BY <1>4, <1>5, <2>1
  <2> QED BY <1>1, <1>3, <2>2, <2>3
<1>10. CASE sort = "number"
  <2>1. p = Sequential!NumberEnd(s, k)
    BY <1>10 DEF Sequential!PlaceAfter
  <2>2. v = SubSeq(s, Sequential!NumberStart(s, k) + 1, Sequential!NumberEnd(s, k))
    BY <1>10 DEF Sequential!ValueAt
  <2> DEFINE a == Sequential!NumberStart(s, k)
             b == Sequential!NumberEnd(s, k)
  <2>3. a \in Nat /\ b \in Nat /\ b =< Len(s) /\ k =< a /\ a =< b
    BY <1>1, <1>6, <1>7
  <2>4. SubSeq(s, a + 1, b) \in Seq(Nat)
    <3> HIDE DEF a, b
    <3> QED BY <1>3, <2>3
  <2> QED BY <1>1, <2>1, <2>2, <2>3, <2>4
<1> QED
  BY <1>8, <1>9, <1>10 DEF TextSorts

LEMMA PlacesEquation ==
    ASSUME NEW s \in Seq(Byte), NEW start \in 0..Len(s), NEW sorts \in Seq(TextSorts), NEW whole
    PROVE  LET place == Sequential!Places(s, start, sorts, whole)
           IN  /\ place[0] = start
               /\ \A k \in 0..Len(sorts) : place[k] \in 0..Len(s)
               /\ \A k \in 1..Len(sorts) :
                    place[k] = Sequential!PlaceAfter(s, place[k - 1], sorts[k], whole)
<1> DEFINE n == Len(sorts)
           S == 0..Len(s)
           After(k, p) == Sequential!PlaceAfter(s, p, sorts[k], whole)
           Value(f, k) == IF k = 0 THEN start ELSE After(k, f[k - 1])
           Equation(f) == f = [k \in 0..n |-> Value(f, k)]
           step == [k \in 1..n |-> [p \in S |-> After(k, p)]]
           place == Sequential!Places(s, start, sorts, whole)
<1>1. n \in Nat /\ \A k \in 1..n : sorts[k] \in TextSorts
  BY LenProperties, ElementOfSeq
<1>2. \A k \in 1..n, p \in S : After(k, p) \in S
  <2> SUFFICES ASSUME NEW k \in 1..n, NEW p \in S PROVE After(k, p) \in S
    OBVIOUS
  <2>1. sorts[k] \in TextSorts /\ Len(s) \in Nat
    BY <1>1, TextFacts
  <2>2. After(k, p) \in p..Len(s)
    BY <2>1, PlaceAfterFacts
  <2> HIDE DEF After
  <2> QED BY <2>1, <2>2
<1>3. place = CHOOSE f : Equation(f)
  BY DEF Sequential!Places
<1>4. start \in S
  OBVIOUS
<1> HIDE DEF n, S, After, place
<1>5. step \in [1..n -> [S -> S]]
  BY <1>2
<1>6. PICK g \in [0..n -> S] :
          \A k \in 0..n : g[k] = IF k = 0 THEN start ELSE step[k][g[k - 1]]
  <2> HIDE DEF step
  <2>1. HasPrimitiveRecursion(n, S, start, step)
    BY <1>1, <1>4, <1>5, PrimitiveRecursionExists
  <2> QED BY <2>1 DEF HasPrimitiveRecursion
<1>7. \A k \in 0..n : k # 0 => k \in 1..n /\ k - 1 \in 0..n
  BY <1>1
<1>8. \A k \in 0..n : g[k] = Value(g, k)
  <2> SUFFICES ASSUME NEW k \in 0..n, k # 0 PROVE g[k] = After(k, g[k - 1])
    BY <1>6
  <2>1. k \in 1..n /\ k - 1 \in 0..n /\ g[k - 1] \in S
    BY <1>7
  <2>2. step[k][g[k - 1]] = After(k, g[k - 1])
    BY <2>1
  <2> HIDE DEF step
  <2> QED BY <1>6, <2>2
<1>9. Equation(g)
  <2> DEFINE h == [k \in 0..n |-> Value(g, k)]
  <2> HIDE DEF Value
  <2>1. g = [k \in 0..n |-> g[k]]
    OBVIOUS
  <2>2. [k \in 0..n |-> g[k]] = h
    BY <1>8
  <2> QED BY <2>1, <2>2
<1>10. Equation(place)
  <2> HIDE DEF Equation
  <2> QED BY <1>3, <1>9
<1>11. \A k \in 0..n : place[k] = Value(place, k)
  BY <1>10
<1>12. 0 \in 0..n /\ \A k \in 1..n : k \in 0..n /\ k # 0
  BY <1>1
<1>13. place[0] = start /\ \A k \in 1..n : place[k] = After(k, place[k - 1])
  BY <1>11, <1>12
<1>14. \A k \in 0..n : place[k] \in S
  <2> DEFINE Bad == {k \in 0..n : place[k] \notin S}
  <2> SUFFICES ASSUME Bad # {} PROVE FALSE
    OBVIOUS
  <2>1. PICK k \in Bad : \A j \in Bad : k <= j
    <3>1. Bad \in SUBSET Nat
      OBVIOUS
    <3> HIDE DEF Bad
    <3> QED BY <3>1, LeastExists
  <2>2. k # 0
    BY <1>4, <1>13
  <2>3. k - 1 \in 0..n /\ k \in 1..n
    BY <1>7, <2>2
  <2>4. place[k - 1] \in S
    BY <2>1, <2>3
  <2>5. place[k] = After(k, place[k - 1])
    BY <1>13, <2>3
  <2> QED BY <1>2, <2>3, <2>4, <2>5
<1> QED
  BY <1>13, <1>14 DEF n, S, After, place

---------------------------------------------------------------------------
(* A statement that reads a text: what it has done so far, as a condition   *)
(* on the text s, the place it began at, the variables it reads and whether *)
(* it reads the line to its end, how many variables it has read, the job j  *)
(* and the place it has reached.                                            *)

(* The variable that is being read: what of it has been taken, from a place *)
(* on.                                                                      *)
TokenSoFar(s, from, whole, j, here) ==
    /\ j.at \in {"tread", "tread.cont"} => j.acc = SubSeq(s, from + 1, here)
    /\ j.at = "char" => here = from
    /\ j.at = "tread" =>
         IF whole THEN NoneIn(Sequential!LineEnds(s), from, here)
         ELSE here = from \/ /\ s[from + 1] # Newline /\ here < Len(s)
                             /\ NoneIn(Sequential!Blanks(s), from + 1, here + 1)
    /\ j.at = "tread.cont" => /\ ~whole /\ from < here /\ s[from + 1] # Newline
                              /\ NoneIn(Sequential!Blanks(s), from + 1, here)
    /\ j.at = "ti.skip" => /\ j.acc = <<>>
                           /\ NoneIn(DOMAIN s \ Sequential!Blanks(s), from, here)
    /\ j.at = "ti.acc" =>
         /\ Sequential!NumberStart(s, from) \in from..here
         /\ j.acc = SubSeq(s, Sequential!NumberStart(s, from) + 1, here)
         /\ NoneIn(Sequential!Blanks(s), Sequential!NumberStart(s, from), here)
    /\ j.at = "rln" => NoneIn(Sequential!LineEnds(s), from, here)
LabelsOf == [char |-> {"char"}, string |-> {"tread", "tread.cont"},
             number |-> {"ti.skip", "ti.acc"}]
(* What was read of the variables before it.                                *)
ValuesUpTo(s, start, sorts, whole, n) ==
    [k \in 1..n |-> Sequential!ValueAt(s, Sequential!Places(s, start, sorts, whole)[k - 1],
                                       sorts[k], whole)]
AtLabel(sorts, whole, n, at) ==
    IF n = Len(sorts) THEN at = "rln" /\ whole = TRUE ELSE at \in LabelsOf[sorts[n + 1]]
TextJob(s, start, sorts, whole, n, j, here) ==
    LET from == Sequential!Places(s, start, sorts, whole)[n]
    IN  /\ n \in 0..Len(sorts) /\ j.whole = whole
        /\ j.got = ValuesUpTo(s, start, sorts, whole, n)
        /\ j.left = SubSeq(sorts, n + 1, Len(sorts))
        /\ AtLabel(sorts, whole, n, j.at)
        /\ from \in 0..here /\ here \in 0..Len(s)
        /\ TokenSoFar(s, from, whole, j, here)
(* All variables have been read, and the line if it was to be.              *)
ReadDone(s, start, sorts, whole, j, here) ==
    LET last == Sequential!Places(s, start, sorts, whole)[Len(sorts)]
    IN  /\ j.got = Sequential!ValuesRead(s, start, sorts, whole)
        /\ here = IF whole THEN Sequential!NextLine(s, last) ELSE last
(* The statement goes on, perhaps with the next variable, or is done.       *)
Goes(s, start, sorts, whole, n, j, here) ==
    IF j.at = "idle" THEN ReadDone(s, start, sorts, whole, j, here)
    ELSE TextJob(s, start, sorts, whole, n, j, here)

LEMMA FreshToken ==
    ASSUME NEW s, NEW p \in Nat, NEW whole, NEW j, j.acc = <<>>,
           j.at \in {"char", "tread", "ti.skip", "rln"}
    PROVE  TokenSoFar(s, p, whole, j, p)
<1>1. SubSeq(s, p + 1, p) = <<>>
  BY NoPiece
<1>2. \A stops : NoneIn(stops, p, p)
  <2>1. p + 1..p = {}
    OBVIOUS
  <2> QED BY <2>1 DEF NoneIn
<1> QED
  BY <1>1, <1>2 DEF TokenSoFar

LEMMA ReadingLabel ==
    ASSUME NEW sort \in TextSorts
    PROVE  /\ LabelOf[sort] \in {"char", "tread", "ti.skip"}
           /\ LabelOf[sort] \in LabelsOf[sort]
           /\ LabelsOf[sort] \subseteq {"char", "tread", "tread.cont", "ti.skip", "ti.acc"}
           /\ "char" \in LabelsOf[sort] => sort = "char"
           /\ "tread" \in LabelsOf[sort] \/ "tread.cont" \in LabelsOf[sort] => sort = "string"
           /\ "ti.skip" \in LabelsOf[sort] \/ "ti.acc" \in LabelsOf[sort] => sort = "number"
  BY DEF TextSorts, LabelOf, LabelsOf

(* After n variables: the label of the next one, of the rest of the line,   *)
(* or the end of the statement.                                             *)
LEMMA NextLabelFacts ==
    ASSUME NEW sorts \in Seq(TextSorts), NEW whole \in BOOLEAN, NEW n \in 0..Len(sorts)
    PROVE  LET at == NextLabel(SubSeq(sorts, n + 1, Len(sorts)), whole)
           IN  IF at = "idle" THEN n = Len(sorts) /\ whole = FALSE
               ELSE /\ AtLabel(sorts, whole, n, at)
                    /\ at \in {"char", "tread", "ti.skip", "rln"}
<1> DEFINE m == Len(sorts)
           left == SubSeq(sorts, n + 1, m)
           at == NextLabel(left, whole)
<1>1. m \in Nat /\ \A k \in 1..m : sorts[k] \in TextSorts
  BY LenProperties, ElementOfSeq
<1>2. CASE n = m
  <2>1. left = <<>>
    BY <1>1, <1>2, SubSeqEmpty
  <2>2. at = IF whole THEN "rln" ELSE "idle"
    BY <2>1 DEF NextLabel
  <2> QED BY <1>2, <2>2 DEF AtLabel
<1>3. CASE n # m
  <2>1. n + 1 \in 1..m /\ m \in n + 1..m
    BY <1>1, <1>3
  <2>2. Head(left) = sorts[n + 1]
    BY <2>1, HeadTailOfSubSeq
  <2>3. left # <<>>
    <3>1. \A i \in n + 1..m : sorts[i] \in TextSorts
      BY <1>1
    <3>2. n + 1 \in Int /\ m \in Int /\ n + 1 <= m
      BY <1>1, <2>1
    <3>3. Len(left) = m - (n + 1) + 1
      <4> HIDE DEF m
      <4> QED BY <1>1, <3>1, <3>2, SubSeqProperties DEF m
    <3>4. m - (n + 1) + 1 # 0
      BY <3>2
    <3> QED BY <3>3, <3>4, EmptySeq
  <2>4. at = LabelOf[sorts[n + 1]] /\ sorts[n + 1] \in TextSorts
    BY <1>1, <2>1, <2>2, <2>3 DEF NextLabel
  <2>5. at \in {"char", "tread", "ti.skip"} /\ at \in LabelsOf[sorts[n + 1]]
    BY <2>4, ReadingLabel
  <2>6. at # "idle" /\ at \in {"char", "tread", "ti.skip", "rln"}
    BY <2>5
  <2> HIDE DEF at, left
  <2> QED BY <1>3, <2>5, <2>6 DEF AtLabel, at, left
<1> QED
  BY <1>2, <1>3

(* Between two variables: the next one begins, or the rest of the line, or  *)
(* the statement is done.                                                   *)
LEMMA NextVariable ==
    ASSUME NEW s \in Seq(Byte), NEW start \in 0..Len(s), NEW sorts \in Seq(TextSorts),
           NEW whole \in BOOLEAN, NEW n \in 0..Len(sorts), NEW j, NEW here,
           j.whole = whole, j.acc = <<>>,
           j.got = ValuesUpTo(s, start, sorts, whole, n),
           j.left = SubSeq(sorts, n + 1, Len(sorts)),
           j.at = NextLabel(j.left, whole),
           here = Sequential!Places(s, start, sorts, whole)[n]
    PROVE  Goes(s, start, sorts, whole, n, j, here)
<1>1. IF j.at = "idle" THEN n = Len(sorts) /\ whole = FALSE
      ELSE AtLabel(sorts, whole, n, j.at) /\ j.at \in {"char", "tread", "ti.skip", "rln"}
  BY NextLabelFacts
<1>2. here \in 0..Len(s) /\ here \in Nat
  <2>1. Sequential!Places(s, start, sorts, whole)[n] \in 0..Len(s)
    BY PlacesEquation
  <2> QED BY <2>1
<1>3. CASE j.at = "idle"
  <2>1. DOMAIN sorts = 1..Len(sorts)
    BY LenProperties
  <2>2. j.got = Sequential!ValuesRead(s, start, sorts, whole)
    BY <1>1, <1>3, <2>1 DEF Sequential!ValuesRead, ValuesUpTo
  <2> QED BY <1>1, <1>3, <2>2 DEF Goes, ReadDone
<1>4. CASE j.at # "idle"
  <2>1. TokenSoFar(s, here, whole, j, here)
    BY <1>1, <1>2, <1>4, FreshToken
  <2>2. here \in 0..here
    BY <1>2
  <2> QED BY <1>1, <1>2, <1>4, <2>1, <2>2 DEF Goes, TextJob
<1> QED
  BY <1>3, <1>4

(* A statement that begins.                                                 *)
LEMMA ReadBegins ==
    ASSUME NEW s \in Seq(Byte), NEW start \in 0..Len(s), NEW sorts \in Seq(TextSorts),
           NEW whole \in BOOLEAN, sorts # <<>> \/ whole, NEW j,
           j = [NoJob EXCEPT !.at = NextLabel(sorts, whole), !.left = sorts, !.whole = whole]
    PROVE  TextJob(s, start, sorts, whole, 0, j, start)
<1>1. /\ j.at = NextLabel(sorts, whole) /\ j.left = sorts /\ j.whole = whole
      /\ j.got = <<>> /\ j.acc = <<>>
  BY DEF NoJob
<1>2. Sequential!Places(s, start, sorts, whole)[0] = start
  BY PlacesEquation
<1>3. 0 \in 0..Len(sorts) /\ Len(sorts) \in Nat
  BY LenProperties
<1>4. j.got = ValuesUpTo(s, start, sorts, whole, 0)
  BY <1>1 DEF ValuesUpTo
<1>5. j.left = SubSeq(sorts, 0 + 1, Len(sorts))
  BY <1>1, SubSeqFull
<1>6. j.at = NextLabel(j.left, whole)
  BY <1>1
<1>7. Goes(s, start, sorts, whole, 0, j, start)
  BY <1>1, <1>2, <1>3, <1>4, <1>5, <1>6, NextVariable
<1>8. j.at # "idle"
  <2>1. IF j.at = "idle" THEN 0 = Len(sorts) /\ whole = FALSE
        ELSE j.at \in {"char", "tread", "ti.skip", "rln"}
    BY <1>3, <1>5, <1>6, NextLabelFacts
  <2>2. 0 = Len(sorts) => sorts = <<>>
    BY EmptySeq
  <2> QED BY <2>1, <2>2
<1> QED
  BY <1>7, <1>8 DEF Goes

(* A variable is complete.                                                  *)
LEMMA DeliveredGoes ==
    ASSUME NEW s \in Seq(Byte), NEW start \in 0..Len(s), NEW sorts \in Seq(TextSorts),
           NEW whole \in BOOLEAN, NEW n \in 0..Len(sorts) - 1,
           NEW j, NEW value, NEW reached, NEW here, DOMAIN j = DOMAIN NoJob,
           TextJob(s, start, sorts, whole, n, j, here),
           value = Sequential!ValueAt(s, Sequential!Places(s, start, sorts, whole)[n],
                                      sorts[n + 1], whole),
           reached = Sequential!PlaceAfter(s, Sequential!Places(s, start, sorts, whole)[n],
                                           sorts[n + 1], whole)
    PROVE  Goes(s, start, sorts, whole, n + 1, Delivered(j, value), reached)
<1> DEFINE m == Len(sorts)
           place == Sequential!Places(s, start, sorts, whole)
           V(k) == Sequential!ValueAt(s, place[k - 1], sorts[k], whole)
           d == Delivered(j, value)
<1>1. m \in Nat /\ n + 1 \in 1..m /\ n \in Nat /\ (n + 1) - 1 = n /\ n + 1 \in 0..m
  BY LenProperties
<1>2. /\ j.whole = whole /\ j.left = SubSeq(sorts, n + 1, m)
      /\ j.got = [k \in 1..n |-> V(k)]
  BY DEF TextJob, ValuesUpTo
<1>3. /\ d.got = Append(j.got, value) /\ d.left = Tail(j.left) /\ d.acc = <<>>
      /\ d.at = NextLabel(Tail(j.left), whole) /\ d.whole = whole
  BY <1>2 DEF Delivered, NoJob
<1>4. /\ \A k \in 0..m : place[k] \in 0..Len(s)
      /\ \A k \in 1..m : place[k] = Sequential!PlaceAfter(s, place[k - 1], sorts[k], whole)
  BY PlacesEquation
<1>5. \A k \in 1..m : V(k) \in Seq(Nat)
  <2> SUFFICES ASSUME NEW k \in 1..m PROVE V(k) \in Seq(Nat)
    OBVIOUS
  <2>1. place[k - 1] \in 0..Len(s) /\ sorts[k] \in TextSorts
    BY <1>1, <1>4, ElementOfSeq
  <2> QED BY <2>1, PlaceAfterFacts
<1>6. value = V(n + 1)
  BY <1>1
<1>7. reached = place[n + 1]
  BY <1>1, <1>4
<1>8. d.got = ValuesUpTo(s, start, sorts, whole, n + 1)
  <2> HIDE DEF V, place, m, d
  <2>1. \A k \in 1..n : V(k) \in Seq(Nat)
    BY <1>1, <1>5
  <2>2. j.got \in Seq(Seq(Nat)) /\ Len(j.got) = n
    BY <1>1, <1>2, <2>1
  <2>3. /\ Append(j.got, value) \in Seq(Seq(Nat))
        /\ Len(Append(j.got, value)) = n + 1
        /\ \A k \in 1..n : Append(j.got, value)[k] = j.got[k]
        /\ Append(j.got, value)[n + 1] = value
    BY <1>1, <1>5, <1>6, <2>2, AppendProperties
  <2>4. \A k \in 1..n + 1 : Append(j.got, value)[k] = V(k)
    <3>1. \A k \in 1..n + 1 : k \in 1..n \/ k = n + 1
      BY <1>1
    <3> QED BY <1>2, <1>6, <2>3, <3>1
  <2>5. Append(j.got, value) = [k \in 1..n + 1 |-> Append(j.got, value)[k]]
    BY <2>3, LenProperties
  <2>6. Append(j.got, value) = [k \in 1..n + 1 |-> V(k)]
    BY <2>4, <2>5
  <2> QED BY <1>3, <2>6 DEF ValuesUpTo, V, place
<1>9. d.left = SubSeq(sorts, (n + 1) + 1, m)
  <2>1. m \in n + 1..m
    BY <1>1
  <2>2. Tail(SubSeq(sorts, n + 1, m)) = SubSeq(sorts, (n + 1) + 1, m)
    BY <1>1, <2>1, HeadTailOfSubSeq
  <2> QED BY <1>2, <1>3, <2>2
<1>10. d.at = NextLabel(d.left, whole)
  BY <1>3
<1> HIDE DEF d, place, m, V
<1>11. n + 1 \in 0..Len(sorts)
  BY <1>1 DEF m
<1>12. Goes(s, start, sorts, whole, n + 1, d, reached)
  BY <1>3, <1>7, <1>8, <1>9, <1>10, <1>11, NextVariable DEF place, m
<1> QED
  BY <1>12 DEF d

---------------------------------------------------------------------------
(* The rounds of the loops, on what the buffer shows once it is filled.     *)

Sees(s, here, f) ==
    /\ here \in 0..Len(s)
    /\ f.eof = IF here = Len(s) THEN 1 ELSE 0
    /\ f.peek = IF here = Len(s) THEN <<>> ELSE <<s[here + 1]>>
    /\ f.eoln = IF here = Len(s) THEN 1 ELSE Flag(s[here + 1] = Newline)
Reading(s, start, sorts, whole, n, j, here, f) ==
    /\ s \in Seq(Byte) /\ start \in 0..Len(s)
    /\ sorts \in Seq(TextSorts) /\ whole \in BOOLEAN
    /\ DOMAIN j = DOMAIN NoJob
    /\ TextJob(s, start, sorts, whole, n, j, here)
    /\ Sees(s, here, f)

(* The variable that is being read, and where it begins.                    *)
LEMMA TokenFacts ==
    ASSUME NEW s, NEW start, NEW sorts, NEW whole, NEW n, NEW j, NEW here, NEW f,
           Reading(s, start, sorts, whole, n, j, here, f)
    PROVE  LET from == Sequential!Places(s, start, sorts, whole)[n]
           IN  /\ from \in 0..here /\ from \in 0..Len(s) /\ from \in Nat
               /\ here \in from..Len(s) /\ here \in Nat /\ Len(s) \in Nat
               /\ TokenSoFar(s, from, whole, j, here)
               /\ j.at = "rln" => n = Len(sorts)
               /\ j.at # "rln" => /\ n \in 0..Len(sorts) - 1
                                  /\ sorts[n + 1] \in TextSorts
                                  /\ j.at \in LabelsOf[sorts[n + 1]]
<1> DEFINE from == Sequential!Places(s, start, sorts, whole)[n]
           m == Len(sorts)
<1>1. /\ s \in Seq(Byte) /\ sorts \in Seq(TextSorts) /\ n \in 0..m
      /\ from \in 0..here /\ here \in 0..Len(s) /\ TokenSoFar(s, from, whole, j, here)
      /\ AtLabel(sorts, whole, n, j.at)
  BY DEF Reading, TextJob
<1>2. Len(s) \in Nat /\ m \in Nat
  BY <1>1, LenProperties
<1>3. n # m => n \in 0..m - 1 /\ sorts[n + 1] \in TextSorts
  <2>1. n # m => n \in 0..m - 1 /\ n + 1 \in 1..m
    BY <1>1, <1>2
  <2> QED BY <1>1, <2>1, ElementOfSeq
<1>4. n = m => j.at = "rln"
  BY <1>1 DEF AtLabel
<1>5. n # m => j.at \in LabelsOf[sorts[n + 1]]
  BY <1>1 DEF AtLabel
<1>6. n # m => j.at # "rln"
  <2> SUFFICES ASSUME n # m PROVE j.at # "rln"
    OBVIOUS
  <2>1. sorts[n + 1] \in TextSorts
    BY <1>3
  <2>2. LabelsOf[sorts[n + 1]] \subseteq {"char", "tread", "tread.cont", "ti.skip", "ti.acc"}
    BY <2>1, ReadingLabel
  <2> QED BY <1>5, <2>2
<1> HIDE DEF from, m
<1>7. from \in Nat /\ from \in 0..Len(s) /\ here \in from..Len(s) /\ here \in Nat
  BY <1>1, <1>2
<1> QED
  BY <1>1, <1>2, <1>3, <1>4, <1>5, <1>6, <1>7 DEF from, m

(* The same variable is read on.                                            *)
LEMMA SameVariable ==
    ASSUME NEW s, NEW start, NEW sorts, NEW whole, NEW n, NEW j, NEW here, NEW f,
           Reading(s, start, sorts, whole, n, j, here, f),
           NEW j2, NEW here2 \in here..Len(s),
           j2.got = j.got, j2.left = j.left, j2.whole = j.whole,
           AtLabel(sorts, whole, n, j2.at), j2.at # "idle",
           TokenSoFar(s, Sequential!Places(s, start, sorts, whole)[n], whole, j2, here2)
    PROVE  Goes(s, start, sorts, whole, n, j2, here2)
<1> DEFINE from == Sequential!Places(s, start, sorts, whole)[n]
<1>1. from \in 0..here /\ here \in Nat /\ Len(s) \in Nat
  BY TokenFacts
<1>2. from \in 0..here2 /\ here2 \in 0..Len(s)
  <2> HIDE DEF from
  <2> QED BY <1>1
<1>3. TextJob(s, start, sorts, whole, n, j, here)
  BY DEF Reading
<1> QED
  BY <1>2, <1>3 DEF TextJob, Goes

(* The variable is complete.                                                *)
LEMMA VariableDone ==
    ASSUME NEW s, NEW start, NEW sorts, NEW whole, NEW n, NEW j, NEW here, NEW f,
           Reading(s, start, sorts, whole, n, j, here, f), j.at # "rln",
           NEW value, NEW reached,
           LET from == Sequential!Places(s, start, sorts, whole)[n]
           IN  /\ value = Sequential!ValueAt(s, from, sorts[n + 1], whole)
               /\ reached = Sequential!PlaceAfter(s, from, sorts[n + 1], whole)
    PROVE  \E n2 \in Nat : Goes(s, start, sorts, whole, n2, Delivered(j, value), reached)
<1>1. n \in 0..Len(sorts) - 1
  BY TokenFacts
<1>2. n + 1 \in Nat
  BY <1>1
<1>3. /\ s \in Seq(Byte) /\ start \in 0..Len(s) /\ sorts \in Seq(TextSorts)
      /\ whole \in BOOLEAN /\ DOMAIN j = DOMAIN NoJob
      /\ TextJob(s, start, sorts, whole, n, j, here)
  BY DEF Reading
<1>4. Goes(s, start, sorts, whole, n + 1, Delivered(j, value), reached)
  BY <1>1, <1>3, DeliveredGoes
<1> QED
  BY <1>2, <1>4

LEMMA CharIsRead ==
    ASSUME NEW s, NEW start, NEW sorts, NEW whole, NEW n, NEW j, NEW here, NEW f,
           Reading(s, start, sorts, whole, n, j, here, f), j.at = "char"
    PROVE  \E n2 \in Nat :
               Goes(s, start, sorts, whole, n2, Delivered(j, <<SeqOf(f.peek)>>),
                    IF here = Len(s) THEN here ELSE here + 1)
<1> DEFINE from == Sequential!Places(s, start, sorts, whole)[n]
<1>1. from = here /\ sorts[n + 1] = "char"
  <2>1. TokenSoFar(s, from, whole, j, here) /\ sorts[n + 1] \in TextSorts
        /\ j.at \in LabelsOf[sorts[n + 1]]
    BY TokenFacts
  <2>2. sorts[n + 1] = "char"
    BY <2>1, ReadingLabel
  <2> QED BY <2>1, <2>2 DEF TokenSoFar
<1>2. SeqOf(f.peek) = IF here = Len(s) THEN 0 ELSE s[here + 1]
  <2>1. f.peek = IF here = Len(s) THEN <<>> ELSE <<s[here + 1]>>
    BY DEF Reading, Sees
  <2>2. <<s[here + 1]>> # <<>> /\ <<s[here + 1]>>[1] = s[here + 1]
    OBVIOUS
  <2> QED BY <2>1, <2>2 DEF SeqOf
<1>3. <<SeqOf(f.peek)>> = Sequential!ValueAt(s, from, sorts[n + 1], whole)
  <2>1. Sequential!ValueAt(s, from, "char", whole)
            = IF from = Len(s) THEN <<0>> ELSE <<s[from + 1]>>
    BY DEF Sequential!ValueAt
  <2> HIDE DEF from
  <2> QED BY <1>1, <1>2, <2>1
<1>4. (IF here = Len(s) THEN here ELSE here + 1)
          = Sequential!PlaceAfter(s, from, sorts[n + 1], whole)
  <2>1. Sequential!PlaceAfter(s, from, "char", whole)
            = IF from = Len(s) THEN from ELSE from + 1
    BY DEF Sequential!PlaceAfter
  <2> HIDE DEF from
  <2> QED BY <1>1, <2>1
<1>5. j.at # "rln"
  OBVIOUS
<1> QED
  BY <1>3, <1>4, <1>5, VariableDone

(* What the buffer tells of the next character.                             *)
LEMMA StopsSeen ==
    ASSUME NEW s \in Seq(Byte), NEW here, NEW f, Sees(s, here, f)
    PROVE  /\ f.eof = 1 <=> here = Len(s)
           /\ f.eof = 0 <=> here # Len(s)
           /\ f.eof = 1 \/ f.eoln = 1 <=>
                  here = Len(s) \/ here + 1 \in Sequential!LineEnds(s)
           /\ f.eof = 0 /\ f.eoln = 0 <=>
                  here # Len(s) /\ here + 1 \notin Sequential!LineEnds(s)
           /\ here # Len(s) => /\ here + 1 \in DOMAIN s
                               /\ IsBlank(f) <=> here + 1 \in Sequential!Blanks(s)
                               /\ f.peek = <<s[here + 1]>> /\ SeqOf(f.peek) = s[here + 1]
<1>1. Len(s) \in Nat /\ DOMAIN s = 1..Len(s) /\ here \in 0..Len(s)
  BY TextFacts DEF Sees
<1>2. here # Len(s) => here + 1 \in DOMAIN s
  <2>1. here \in 0..Len(s) /\ Len(s) \in Nat
    BY <1>1
  <2>2. here # Len(s) => here + 1 \in 1..Len(s)
    BY <2>1
  <2> QED BY <1>1, <2>2
<1>3. here # Len(s) => (here + 1 \in Sequential!LineEnds(s) <=> s[here + 1] = Newline)
  BY <1>2 DEF Sequential!LineEnds
<1>4. f.eof = 1 <=> here = Len(s)
  BY DEF Sees
<1>5. f.eof = 0 <=> here # Len(s)
  BY DEF Sees
<1>6. here # Len(s) => f.eoln = IF s[here + 1] = Newline THEN 1 ELSE 0
  BY DEF Sees, Flag
<1>7. here # Len(s) => f.peek = <<s[here + 1]>> /\ SeqOf(f.peek) = s[here + 1]
  <2>1. <<s[here + 1]>> # <<>> /\ <<s[here + 1]>>[1] = s[here + 1]
    OBVIOUS
  <2> QED BY <2>1 DEF Sees, SeqOf
<1>8. here # Len(s) => (IsBlank(f) <=> here + 1 \in Sequential!Blanks(s))
  BY <1>2, <1>7 DEF IsBlank, Sequential!Blanks
<1> QED
  BY <1>2, <1>3, <1>4, <1>5, <1>6, <1>7, <1>8

(* The line or the word ends where the loop stops.                          *)
LEMMA StringIsRead ==
    ASSUME NEW s, NEW start, NEW sorts, NEW whole, NEW n, NEW j, NEW here, NEW f,
           Reading(s, start, sorts, whole, n, j, here, f),
           \/ j.at = "tread" /\ (f.eof = 1 \/ f.eoln = 1)
           \/ j.at = "tread.cont" /\ (SeqOf(f.peek) = Space \/ f.eof = 1 \/ f.eoln = 1)
    PROVE  \E n2 \in Nat : Goes(s, start, sorts, whole, n2, Delivered(j, j.acc), here)
<1> DEFINE from == Sequential!Places(s, start, sorts, whole)[n]
<1>1. j.at # "rln" /\ j.at \in {"tread", "tread.cont"}
  OBVIOUS
<1>2. /\ from \in 0..Len(s) /\ from \in Nat /\ here \in from..Len(s) /\ here \in Nat
      /\ Len(s) \in Nat /\ TokenSoFar(s, from, whole, j, here)
      /\ sorts[n + 1] \in TextSorts /\ j.at \in LabelsOf[sorts[n + 1]]
  BY <1>1, TokenFacts
<1>3. sorts[n + 1] = "string"
  BY <1>1, <1>2, ReadingLabel
<1>4. s \in Seq(Byte) /\ Sees(s, here, f) /\ whole \in BOOLEAN
  BY DEF Reading
<1>5. /\ f.eof = 1 \/ f.eoln = 1 <=> here = Len(s) \/ here + 1 \in Sequential!LineEnds(s)
      /\ here # Len(s) => here + 1 \in DOMAIN s /\ SeqOf(f.peek) = s[here + 1]
  BY <1>4, StopsSeen
<1>6. \A i : i \in Sequential!Blanks(s) <=> i \in DOMAIN s /\ (s[i] = Space \/ s[i] = Newline)
  BY DEF Sequential!Blanks
<1>7. \A i : i \in Sequential!LineEnds(s) <=> i \in DOMAIN s /\ s[i] = Newline
  BY DEF Sequential!LineEnds
<1>8. Sequential!PlaceAfter(s, from, "string", whole)
          = IF whole THEN Sequential!LineEnd(s, from) ELSE Sequential!WordEnd(s, from)
  BY DEF Sequential!PlaceAfter
<1> HIDE DEF from
<1>9. Sequential!PlaceAfter(s, from, "string", whole) = here
  <2>1. CASE j.at = "tread" /\ whole
    <3>1. NoneIn(Sequential!LineEnds(s), from, here)
      BY <1>2, <2>1 DEF TokenSoFar
    <3>2. here = Len(s) \/ here + 1 \in Sequential!LineEnds(s)
      BY <1>5, <2>1
    <3>3. Sequential!First(s, from, Sequential!LineEnds(s)) = here
      BY <1>2, <1>4, <3>1, <3>2, FirstIs
    <3> QED BY <1>8, <2>1, <3>3 DEF Sequential!LineEnd
  <2>2. CASE j.at = "tread" /\ ~whole
    <3>1. here = Len(s) \/ here + 1 \in Sequential!LineEnds(s)
      BY <1>5, <2>2
    <3>2. here = from \/ /\ here < Len(s)
                         /\ NoneIn(Sequential!Blanks(s), from + 1, here + 1)
      BY <1>2, <2>2 DEF TokenSoFar
    <3>3. here = from
      <4> SUFFICES ASSUME here # from PROVE FALSE
        OBVIOUS
      <4>1. here # Len(s) /\ here + 1 \in (from + 1) + 1..here + 1
        BY <1>2, <3>2
      <4>2. here + 1 \in Sequential!Blanks(s)
        BY <1>6, <1>7, <3>1, <4>1
      <4>3. NoneIn(Sequential!Blanks(s), from + 1, here + 1)
        BY <3>2
      <4> QED BY <4>1, <4>2, <4>3 DEF NoneIn
    <3>4. Sequential!WordEnd(s, from) = from
      BY <1>7, <3>1, <3>3 DEF Sequential!WordEnd
    <3> QED BY <1>8, <2>2, <3>3, <3>4
  <2>3. CASE j.at = "tread.cont"
    <3>1. /\ ~whole /\ from < here /\ s[from + 1] # Newline
          /\ NoneIn(Sequential!Blanks(s), from + 1, here)
      BY <1>2, <2>3 DEF TokenSoFar
    <3>2. here = Len(s) \/ here + 1 \in Sequential!Blanks(s)
      <4>1. SeqOf(f.peek) = Space \/ f.eof = 1 \/ f.eoln = 1
        BY <2>3
      <4> QED BY <1>5, <1>6, <1>7, <4>1
    <3>3. from + 1 \in 0..Len(s) /\ here \in from + 1..Len(s) /\ from # Len(s)
      BY <1>2, <3>1
    <3>4. Sequential!First(s, from + 1, Sequential!Blanks(s)) = here
      BY <1>4, <3>1, <3>2, <3>3, FirstIs
    <3>5. Sequential!WordEnd(s, from) = here
      BY <3>1, <3>3, <3>4 DEF Sequential!WordEnd
    <3> QED BY <1>8, <3>1, <3>5
  <2> QED BY <1>1, <1>4, <2>1, <2>2, <2>3
<1>10. j.acc = Sequential!ValueAt(s, from, "string", whole)
  <2>1. j.acc = SubSeq(s, from + 1, here)
    BY <1>1, <1>2 DEF TokenSoFar
  <2>2. Sequential!ValueAt(s, from, "string", whole)
            = SubSeq(s, from + 1, Sequential!PlaceAfter(s, from, "string", whole))
    BY DEF Sequential!ValueAt
  <2> QED BY <1>9, <2>1, <2>2
<1> QED
  BY <1>1, <1>3, <1>9, <1>10, VariableDone DEF from

(* A character of a line or a word is taken.                                *)
LEMMA CharacterIsTaken ==
    ASSUME NEW s, NEW start, NEW sorts, NEW whole, NEW n, NEW j, NEW here, NEW f,
           Reading(s, start, sorts, whole, n, j, here, f),
           j.at = "tread", f.eof = 0, f.eoln = 0
    PROVE  Goes(s, start, sorts, whole, n,
                [Took(j, f) EXCEPT !.at = IF j.whole THEN "tread" ELSE "tread.cont"], here + 1)
<1> DEFINE from == Sequential!Places(s, start, sorts, whole)[n]
           j2 == [Took(j, f) EXCEPT !.at = IF j.whole THEN "tread" ELSE "tread.cont"]
<1>1. /\ from \in Nat /\ here \in from..Len(s) /\ here \in Nat
      /\ Len(s) \in Nat /\ TokenSoFar(s, from, whole, j, here)
      /\ n \in 0..Len(sorts) - 1
      /\ sorts[n + 1] \in TextSorts /\ j.at \in LabelsOf[sorts[n + 1]]
  BY TokenFacts
<1>2. s \in Seq(Byte) /\ Sees(s, here, f) /\ j.whole = whole /\ whole \in BOOLEAN
      /\ DOMAIN j = DOMAIN NoJob
  BY DEF Reading, TextJob
<1>3. /\ here # Len(s) /\ here + 1 \notin Sequential!LineEnds(s)
      /\ here + 1 \in DOMAIN s /\ f.peek = <<s[here + 1]>>
  BY <1>2, StopsSeen
<1>4. /\ j2.at = IF whole THEN "tread" ELSE "tread.cont"
      /\ j2.acc = j.acc \o f.peek
      /\ j2.got = j.got /\ j2.left = j.left /\ j2.whole = j.whole
  BY <1>2 DEF Took, NoJob
<1>5. sorts[n + 1] = "string"
  BY <1>1, ReadingLabel
<1> HIDE DEF from, j2
<1>6. here < Len(s) /\ from =< here /\ here + 1 \in here..Len(s) /\ n # Len(sorts)
  BY <1>1, <1>3
<1>7. j2.acc = SubSeq(s, from + 1, here + 1)
  <2>1. j.acc = SubSeq(s, from + 1, here)
    BY <1>1 DEF TokenSoFar
  <2> QED BY <1>1, <1>2, <1>3, <1>4, <1>6, <2>1, PieceGrows
<1>8. whole => TokenSoFar(s, from, whole, j2, here + 1)
  <2> HAVE whole
  <2>1. NoneIn(Sequential!LineEnds(s), from, here)
    BY <1>1 DEF TokenSoFar
  <2>2. NoneIn(Sequential!LineEnds(s), from, here + 1)
    <3>1. \A i \in from + 1..here + 1 : i \in from + 1..here \/ i = here + 1
      BY <1>1
    <3> QED BY <1>3, <2>1, <3>1 DEF NoneIn
  <2>3. j2.at = "tread"
    BY <1>4
  <2> QED BY <1>7, <2>2, <2>3 DEF TokenSoFar
<1>9. ~whole => TokenSoFar(s, from, whole, j2, here + 1)
  <2> HAVE ~whole
  <2>1. s[here + 1] # Newline
    BY <1>3 DEF Sequential!LineEnds
  <2>2. here = from \/ /\ s[from + 1] # Newline
                       /\ NoneIn(Sequential!Blanks(s), from + 1, here + 1)
    BY <1>1 DEF TokenSoFar
  <2>3. s[from + 1] # Newline
    BY <2>1, <2>2
  <2>4. NoneIn(Sequential!Blanks(s), from + 1, here + 1)
    <3>1. CASE here = from
      <4>1. (from + 1) + 1..here + 1 = {}
        BY <1>1, <3>1
      <4> QED BY <4>1 DEF NoneIn
    <3> QED BY <2>2, <3>1
  <2>5. from < here + 1
    BY <1>1, <1>6
  <2>6. j2.at = "tread.cont"
    BY <1>4
  <2> QED BY <1>7, <2>3, <2>4, <2>5, <2>6 DEF TokenSoFar
<1>10. AtLabel(sorts, whole, n, j2.at) /\ j2.at # "idle"
  BY <1>4, <1>5, <1>6 DEF AtLabel, LabelsOf
<1>11. TokenSoFar(s, from, whole, j2, here + 1)
  BY <1>2, <1>8, <1>9
<1>12. Goes(s, start, sorts, whole, n, j2, here + 1)
  BY <1>4, <1>6, <1>10, <1>11, SameVariable DEF from
<1> QED
  BY <1>12 DEF j2

(* A word that does not end here goes on with another character.            *)
LEMMA WordContinues ==
    ASSUME NEW s, NEW start, NEW sorts, NEW whole, NEW n, NEW j, NEW here, NEW f,
           Reading(s, start, sorts, whole, n, j, here, f),
           j.at = "tread.cont", ~(SeqOf(f.peek) = Space \/ f.eof = 1 \/ f.eoln = 1)
    PROVE  Goes(s, start, sorts, whole, n, [j EXCEPT !.at = "tread"], here)
<1> DEFINE from == Sequential!Places(s, start, sorts, whole)[n]
           j2 == [j EXCEPT !.at = "tread"]
<1>1. /\ from \in Nat /\ here \in from..Len(s) /\ here \in Nat
      /\ Len(s) \in Nat /\ TokenSoFar(s, from, whole, j, here)
      /\ n \in 0..Len(sorts) - 1
      /\ sorts[n + 1] \in TextSorts /\ j.at \in LabelsOf[sorts[n + 1]]
  BY TokenFacts
<1>2. s \in Seq(Byte) /\ Sees(s, here, f) /\ DOMAIN j = DOMAIN NoJob
  BY DEF Reading
<1>3. /\ here # Len(s) /\ here + 1 \in DOMAIN s /\ SeqOf(f.peek) = s[here + 1]
      /\ here + 1 \notin Sequential!LineEnds(s)
  BY <1>2, StopsSeen
<1>4. /\ j2.at = "tread" /\ j2.acc = j.acc
      /\ j2.got = j.got /\ j2.left = j.left /\ j2.whole = j.whole
  BY <1>2 DEF NoJob
<1>5. sorts[n + 1] = "string"
  BY <1>1, ReadingLabel
<1> HIDE DEF from, j2
<1>6. here < Len(s) /\ here \in here..Len(s) /\ n # Len(sorts)
  BY <1>1, <1>3
<1>7. /\ j.acc = SubSeq(s, from + 1, here) /\ ~whole /\ s[from + 1] # Newline
      /\ NoneIn(Sequential!Blanks(s), from + 1, here)
  BY <1>1 DEF TokenSoFar
<1>8. NoneIn(Sequential!Blanks(s), from + 1, here + 1)
  <2>1. \A i \in (from + 1) + 1..here + 1 : i \in (from + 1) + 1..here \/ i = here + 1
    BY <1>1
  <2>2. here + 1 \notin Sequential!Blanks(s)
    BY <1>3 DEF Sequential!Blanks, Sequential!LineEnds
  <2> QED BY <1>7, <2>1, <2>2 DEF NoneIn
<1>9. AtLabel(sorts, whole, n, j2.at) /\ j2.at # "idle"
  BY <1>4, <1>5, <1>6 DEF AtLabel, LabelsOf
<1>10. TokenSoFar(s, from, whole, j2, here)
  BY <1>4, <1>6, <1>7, <1>8 DEF TokenSoFar
<1>11. Goes(s, start, sorts, whole, n, j2, here)
  BY <1>4, <1>6, <1>9, <1>10, SameVariable DEF from
<1> QED
  BY <1>11 DEF j2

(* The blanks before a number are skipped.                                  *)
LEMMA BlanksAreSkipped ==
    ASSUME NEW s, NEW start, NEW sorts, NEW whole, NEW n, NEW j, NEW here, NEW f,
           Reading(s, start, sorts, whole, n, j, here, f), j.at = "ti.skip"
    PROVE  /\ f.eof = 1 =>
                \E n2 \in Nat : Goes(s, start, sorts, whole, n2, Delivered(j, j.acc), here)
           /\ f.eof # 1 /\ IsBlank(f) => Goes(s, start, sorts, whole, n, j, here + 1)
           /\ f.eof # 1 /\ ~IsBlank(f) =>
                Goes(s, start, sorts, whole, n, [j EXCEPT !.at = "ti.acc"], here)
<1> DEFINE from == Sequential!Places(s, start, sorts, whole)[n]
           Stops == DOMAIN s \ Sequential!Blanks(s)
           j2 == [j EXCEPT !.at = "ti.acc"]
<1>1. /\ from \in Nat /\ from \in 0..Len(s) /\ here \in from..Len(s) /\ here \in Nat
      /\ Len(s) \in Nat /\ TokenSoFar(s, from, whole, j, here)
      /\ n \in 0..Len(sorts) - 1
      /\ sorts[n + 1] \in TextSorts /\ j.at \in LabelsOf[sorts[n + 1]]
      /\ j.at # "rln"
  BY TokenFacts
<1>2. s \in Seq(Byte) /\ Sees(s, here, f) /\ DOMAIN j = DOMAIN NoJob
      /\ AtLabel(sorts, whole, n, j.at)
  BY DEF Reading, TextJob
<1>3. /\ f.eof = 1 <=> here = Len(s)
      /\ here # Len(s) => /\ here + 1 \in DOMAIN s
                          /\ IsBlank(f) <=> here + 1 \in Sequential!Blanks(s)
  BY <1>2, StopsSeen
<1>4. sorts[n + 1] = "number"
  BY <1>1, ReadingLabel
<1>5. j.acc = <<>> /\ NoneIn(Stops, from, here)
  BY <1>1 DEF TokenSoFar
<1>6. Sequential!NumberStart(s, from) = Sequential!First(s, from, Stops)
  BY DEF Sequential!NumberStart
<1>7. /\ Sequential!PlaceAfter(s, from, "number", whole) = Sequential!NumberEnd(s, from)
      /\ Sequential!ValueAt(s, from, "number", whole)
             = SubSeq(s, Sequential!NumberStart(s, from) + 1, Sequential!NumberEnd(s, from))
      /\ Sequential!NumberEnd(s, from)
             = Sequential!First(s, Sequential!NumberStart(s, from), Sequential!Blanks(s))
  BY DEF Sequential!PlaceAfter, Sequential!ValueAt, Sequential!NumberEnd
<1> HIDE DEF from, Stops, j2
<1>8. NoneIn(Sequential!Blanks(s), here, here)
  <2>1. here + 1..here = {}
    BY <1>1
  <2> QED BY <2>1 DEF NoneIn
<1>9. here = Len(s) => \E n2 \in Nat :
          Goes(s, start, sorts, whole, n2, Delivered(j, j.acc), here)
  <2> HAVE here = Len(s)
  <2>1. Sequential!NumberStart(s, from) = here
    BY <1>1, <1>2, <1>5, <1>6, FirstIs
  <2>2. here \in 0..Len(s) /\ here \in here..Len(s)
    BY <1>1
  <2>3. Sequential!NumberEnd(s, from) = here
    BY <1>2, <1>7, <1>8, <2>1, <2>2, FirstIs
  <2>4. SubSeq(s, here + 1, here) = <<>>
    BY <1>1, NoPiece
  <2>5. Sequential!ValueAt(s, from, "number", whole) = j.acc
    BY <1>5, <1>7, <2>1, <2>3, <2>4
  <2> QED BY <1>1, <1>4, <1>7, <2>3, <2>5, VariableDone DEF from
<1>10. here # Len(s) /\ here + 1 \in Sequential!Blanks(s) =>
          Goes(s, start, sorts, whole, n, j, here + 1)
  <2> HAVE here # Len(s) /\ here + 1 \in Sequential!Blanks(s)
  <2>1. here + 1 \in here..Len(s)
    BY <1>1
  <2>2. NoneIn(Stops, from, here + 1)
    <3>1. \A i \in from + 1..here + 1 : i \in from + 1..here \/ i = here + 1
      BY <1>1
    <3>2. here + 1 \notin Stops
      BY DEF Stops
    <3> QED BY <1>5, <3>1, <3>2 DEF NoneIn
  <2>3. TokenSoFar(s, from, whole, j, here + 1)
    BY <1>5, <2>2 DEF TokenSoFar, Stops
  <2>4. j.at # "idle"
    OBVIOUS
  <2> QED BY <1>2, <2>1, <2>3, <2>4, SameVariable DEF from
<1>11. here # Len(s) /\ here + 1 \notin Sequential!Blanks(s) =>
          Goes(s, start, sorts, whole, n, j2, here)
  <2> HAVE here # Len(s) /\ here + 1 \notin Sequential!Blanks(s)
  <2>1. here \in here..Len(s) /\ n # Len(sorts)
    BY <1>1
  <2>2. /\ j2.at = "ti.acc" /\ j2.acc = j.acc
        /\ j2.got = j.got /\ j2.left = j.left /\ j2.whole = j.whole
    BY <1>2 DEF NoJob, j2
  <2>3. here + 1 \in Stops
    BY <1>3 DEF Stops
  <2>4. Sequential!NumberStart(s, from) = here
    BY <1>1, <1>2, <1>5, <1>6, <2>3, FirstIs
  <2>5. here \in from..here
    BY <1>1
  <2>6. SubSeq(s, here + 1, here) = <<>>
    BY <1>1, NoPiece
  <2>7. TokenSoFar(s, from, whole, j2, here)
    BY <1>5, <1>8, <2>2, <2>4, <2>5, <2>6 DEF TokenSoFar
  <2>8. AtLabel(sorts, whole, n, j2.at) /\ j2.at # "idle"
    BY <1>4, <2>1, <2>2 DEF AtLabel, LabelsOf
  <2> QED BY <2>1, <2>2, <2>7, <2>8, SameVariable DEF from
<1> QED
  BY <1>3, <1>9, <1>10, <1>11 DEF j2

(* A number is taken character by character, up to a blank.                 *)
LEMMA NumberIsTaken ==
    ASSUME NEW s, NEW start, NEW sorts, NEW whole, NEW n, NEW j, NEW here, NEW f,
           Reading(s, start, sorts, whole, n, j, here, f), j.at = "ti.acc"
    PROVE  /\ f.eof = 1 \/ IsBlank(f) =>
                \E n2 \in Nat : Goes(s, start, sorts, whole, n2, Delivered(j, j.acc), here)
           /\ ~(f.eof = 1 \/ IsBlank(f)) =>
                Goes(s, start, sorts, whole, n, Took(j, f), here + 1)
<1> DEFINE from == Sequential!Places(s, start, sorts, whole)[n]
           first == Sequential!NumberStart(s, from)
           j2 == Took(j, f)
<1>1. /\ from \in Nat /\ from \in 0..Len(s) /\ here \in from..Len(s) /\ here \in Nat
      /\ Len(s) \in Nat /\ TokenSoFar(s, from, whole, j, here)
      /\ n \in 0..Len(sorts) - 1
      /\ sorts[n + 1] \in TextSorts /\ j.at \in LabelsOf[sorts[n + 1]]
      /\ j.at # "rln"
  BY TokenFacts
<1>2. s \in Seq(Byte) /\ Sees(s, here, f) /\ DOMAIN j = DOMAIN NoJob
      /\ AtLabel(sorts, whole, n, j.at)
  BY DEF Reading, TextJob
<1>3. /\ f.eof = 1 <=> here = Len(s)
      /\ here # Len(s) => /\ here + 1 \in DOMAIN s
                          /\ IsBlank(f) <=> here + 1 \in Sequential!Blanks(s)
                          /\ f.peek = <<s[here + 1]>>
  BY <1>2, StopsSeen
<1>4. sorts[n + 1] = "number"
  BY <1>1, ReadingLabel
<1>5. /\ first \in from..here /\ j.acc = SubSeq(s, first + 1, here)
      /\ NoneIn(Sequential!Blanks(s), first, here)
  BY <1>1 DEF TokenSoFar
<1>6. /\ Sequential!PlaceAfter(s, from, "number", whole) = Sequential!NumberEnd(s, from)
      /\ Sequential!ValueAt(s, from, "number", whole)
             = SubSeq(s, first + 1, Sequential!NumberEnd(s, from))
      /\ Sequential!NumberEnd(s, from) = Sequential!First(s, first, Sequential!Blanks(s))
  BY DEF Sequential!PlaceAfter, Sequential!ValueAt, Sequential!NumberEnd
<1> HIDE DEF from, first, j2
<1>7. here = Len(s) \/ here + 1 \in Sequential!Blanks(s) => \E n2 \in Nat :
          Goes(s, start, sorts, whole, n2, Delivered(j, j.acc), here)
  <2> HAVE here = Len(s) \/ here + 1 \in Sequential!Blanks(s)
  <2>1. first \in 0..Len(s) /\ here \in first..Len(s)
    BY <1>1, <1>5
  <2>2. Sequential!NumberEnd(s, from) = here
    BY <1>2, <1>5, <1>6, <2>1, FirstIs
  <2>3. Sequential!ValueAt(s, from, "number", whole) = j.acc
    BY <1>5, <1>6, <2>2
  <2> QED BY <1>1, <1>4, <1>6, <2>2, <2>3, VariableDone DEF from
<1>8. here # Len(s) /\ here + 1 \notin Sequential!Blanks(s) =>
          Goes(s, start, sorts, whole, n, j2, here + 1)
  <2> HAVE here # Len(s) /\ here + 1 \notin Sequential!Blanks(s)
  <2>1. here + 1 \in here..Len(s) /\ first \in Nat /\ first =< here /\ here < Len(s)
        /\ first \in from..here + 1
    BY <1>1, <1>5
  <2>2. /\ j2.at = "ti.acc" /\ j2.acc = j.acc \o f.peek
        /\ j2.got = j.got /\ j2.left = j.left /\ j2.whole = j.whole
    BY <1>2 DEF NoJob, j2, Took
  <2>3. j2.acc = SubSeq(s, first + 1, here + 1)
    BY <1>1, <1>2, <1>3, <1>5, <2>1, <2>2, PieceGrows
  <2>4. NoneIn(Sequential!Blanks(s), first, here + 1)
    <3>1. \A i \in first + 1..here + 1 : i \in first + 1..here \/ i = here + 1
      BY <1>1, <2>1
    <3> QED BY <1>5, <3>1 DEF NoneIn
  <2>5. TokenSoFar(s, from, whole, j2, here + 1)
    BY <2>1, <2>2, <2>3, <2>4 DEF TokenSoFar, first
  <2>6. AtLabel(sorts, whole, n, j2.at) /\ j2.at # "idle"
    BY <1>2, <2>2
  <2> QED BY <2>1, <2>2, <2>5, <2>6, SameVariable DEF from
<1>9. f.eof = 1 \/ IsBlank(f) <=> here = Len(s) \/ here + 1 \in Sequential!Blanks(s)
  BY <1>3
<1> QED
  BY <1>7, <1>8, <1>9 DEF j2

(* What is left of a line is passed over, its end included.                 *)
LEMMA LineIsPassed ==
    ASSUME NEW s, NEW start, NEW sorts, NEW whole, NEW n, NEW j, NEW here, NEW f,
           Reading(s, start, sorts, whole, n, j, here, f), j.at = "rln"
    PROVE  Goes(s, start, sorts, whole, n,
                IF f.eof = 1 \/ f.eoln = 1 THEN [j EXCEPT !.at = "idle"] ELSE j,
                IF f.eof = 1 THEN here ELSE here + 1)
<1> DEFINE from == Sequential!Places(s, start, sorts, whole)[n]
           j2 == [j EXCEPT !.at = "idle"]
<1>1. /\ from \in Nat /\ from \in 0..Len(s) /\ here \in from..Len(s) /\ here \in Nat
      /\ Len(s) \in Nat /\ TokenSoFar(s, from, whole, j, here)
      /\ n = Len(sorts)
  BY TokenFacts
<1>2. s \in Seq(Byte) /\ Sees(s, here, f) /\ DOMAIN j = DOMAIN NoJob
      /\ AtLabel(sorts, whole, n, j.at) /\ sorts \in Seq(TextSorts)
      /\ j.got = ValuesUpTo(s, start, sorts, whole, n)
  BY DEF Reading, TextJob
<1>0. whole = TRUE
  BY <1>1, <1>2 DEF AtLabel
<1>3. /\ f.eof = 1 <=> here = Len(s)
      /\ f.eof = 1 \/ f.eoln = 1 <=> here = Len(s) \/ here + 1 \in Sequential!LineEnds(s)
  BY <1>2, StopsSeen
<1>4. NoneIn(Sequential!LineEnds(s), from, here)
  BY <1>1 DEF TokenSoFar
<1>5. j2.at = "idle" /\ j2.got = Sequential!ValuesRead(s, start, sorts, whole)
  <2>1. j2.at = "idle" /\ j2.got = j.got
    BY <1>2 DEF NoJob
  <2>2. DOMAIN sorts = 1..n
    BY <1>1, <1>2, LenProperties
  <2> HIDE DEF j2
  <2> QED BY <1>2, <2>1, <2>2 DEF ValuesUpTo, Sequential!ValuesRead
<1>6. from = Sequential!Places(s, start, sorts, whole)[Len(sorts)]
  BY <1>1
<1>7. Sequential!NextLine(s, from)
        = IF Sequential!LineEnd(s, from) = Len(s) THEN Len(s)
          ELSE Sequential!LineEnd(s, from) + 1
  BY DEF Sequential!NextLine
<1> HIDE DEF from, j2
<1>8. here = Len(s) \/ here + 1 \in Sequential!LineEnds(s) =>
          Goes(s, start, sorts, whole, n, j2, IF here = Len(s) THEN here ELSE here + 1)
  <2> HAVE here = Len(s) \/ here + 1 \in Sequential!LineEnds(s)
  <2>1. Sequential!LineEnd(s, from) = here
    BY <1>1, <1>2, <1>4, FirstIs DEF Sequential!LineEnd
  <2>2. (IF here = Len(s) THEN here ELSE here + 1) = Sequential!NextLine(s, from)
    BY <1>7, <2>1
  <2> QED BY <1>0, <1>5, <1>6, <2>2 DEF Goes, ReadDone
<1>9. here # Len(s) /\ here + 1 \notin Sequential!LineEnds(s) =>
          Goes(s, start, sorts, whole, n, j, here + 1)
  <2> HAVE here # Len(s) /\ here + 1 \notin Sequential!LineEnds(s)
  <2>1. here + 1 \in here..Len(s)
    BY <1>1
  <2>2. NoneIn(Sequential!LineEnds(s), from, here + 1)
    <3>1. \A i \in from + 1..here + 1 : i \in from + 1..here \/ i = here + 1
      BY <1>1
    <3> QED BY <1>4, <3>1 DEF NoneIn
  <2>3. TokenSoFar(s, from, whole, j, here + 1)
    BY <2>2 DEF TokenSoFar
  <2>4. j.at # "idle"
    OBVIOUS
  <2> QED BY <1>2, <2>1, <2>3, <2>4, SameVariable DEF from
<1>10. CASE here = Len(s) \/ here + 1 \in Sequential!LineEnds(s)
  BY <1>3, <1>8, <1>10 DEF j2
<1>11. CASE ~(here = Len(s) \/ here + 1 \in Sequential!LineEnds(s))
  BY <1>3, <1>9, <1>11
<1> QED
  BY <1>10, <1>11

---------------------------------------------------------------------------
(* A statement that reads a component.                                      *)

(* The bytes of an integer that have been read.                             *)
SumLE(s, from, n) ==
    (IF n > 0 THEN s[from + 1] ELSE 0) + (IF n > 1 THEN s[from + 2] * Radix ELSE 0)
    + (IF n > 2 THEN s[from + 3] * (Radix * Radix) ELSE 0)
    + (IF n > 3 THEN s[from + 4] * (Radix * Radix * Radix) ELSE 0)
FieldAt(s, start, k) ==
    Field(Component[k], SubSeq(s, start + Offset[k - 1] + 1, start + Offset[k]))
FieldsUpTo(s, start, n) == [k \in 1..n |-> FieldAt(s, start, k)]
(* There is a component where the statement began; or a part of one, or     *)
(* nothing.                                                                 *)
Whole(s, start) == start % Size = 0 /\ start + Size =< Len(s)
FieldsJob(s, start, n, j, pos, eof, eof0) ==
    /\ n \in 0..Len(Component) - 1
    /\ j.left = SubSeq(Component, n + 1, Len(Component))
    /\ j.at = LabelOfField[Component[n + 1]]
    /\ start \in 0..Len(s) /\ (start % Size = 0 \/ start = Len(s))
    /\ j.byte \in 0..3 /\ (j.at # "ri32" => j.byte = 0)
    /\ pos = Smaller(start + Offset[n] + j.byte, Len(s))
    /\ eof \in {eof0, 1}
    /\ start = Len(s) /\ (n > 0 \/ j.byte > 0) => eof = 1
    /\ Whole(s, start) =>
         /\ eof = eof0
         /\ j.got = FieldsUpTo(s, start, n)
         /\ j.at = "ri32" => j.value = Wrapped(SumLE(s, start + Offset[n], j.byte))

---------------------------------------------------------------------------
(* A statement that writes a component.                                     *)

(* The bytes that a component becomes.                                      *)
Encoded(sort, v) ==
    CASE sort = "integer" -> [i \in 1..4 |-> IntPieces(v[1])[i][1]]
      [] sort = "char" -> v
      [] sort = "real" -> Padded(v)
EncodedUpTo(s, base, v) ==
    \A k \in 1..Len(Component) : \A i \in 1..Width(Component[k]) :
        base + Offset[k - 1] + i =< Len(s) =>
            s[base + Offset[k - 1] + i] = Encoded(Component[k], v[k])[i]
WriteJob(s, base, v, m, j) ==
    /\ base % Size = 0 /\ base \in 0..Len(s) /\ Len(s) < base + Size
    /\ m \in 0..Len(Component)
    /\ j.left = SubSeq(Component, m + 1, Len(Component))
    /\ j.got = SubSeq(v, m + 1, Len(Component))
    /\ IF j.out = <<>> THEN m < Len(Component) /\ Len(s) = base + Offset[m]
       ELSE /\ m > 0 /\ Component[m] = "integer" /\ Len(j.out) \in 1..3
            /\ j.out = SubSeq(IntPieces(v[m][1]), 5 - Len(j.out), 4)
            /\ Len(s) = base + Offset[m - 1] + 4 - Len(j.out)
    /\ EncodedUpTo(s, base, v)

---------------------------------------------------------------------------
(* The inductive invariant: where the file that is open has been read to,   *)
(* and what the statement in progress has done.                             *)

Bytes == Content(streams, file)
At == Pos(streams, file)
InReach ==
    /\ Readable(streams, file) => At =< Len(Bytes)
    /\ Writable(streams, file) => At = 0 /\ file.eof = 0
    /\ file.h = 0 /\ Busy => before.pos = 0
TextReadSoFar ==
    job.at \in TextLabels /\ Readable(streams, file) =>
        \E sorts \in Requests, whole \in BOOLEAN, n \in Nat :
            before.pos \in 0..Len(Bytes) /\ TextJob(Bytes, before.pos, sorts, whole, n, job, Here)
AtAComponent ==
    kind = "typed" /\ Readable(streams, file) /\ ~Busy => At % Size = 0 \/ At = Len(Bytes)
FieldsReadSoFar ==
    job.at \in FieldLabels /\ Readable(streams, file) =>
        \E n \in Nat : FieldsJob(Bytes, before.pos, n, job, At, file.eof, before.eof)
WholeComponents ==
    kind = "typed" /\ Writable(streams, file) /\ job.at # "write" => Len(Bytes) % Size = 0
WrittenSoFar ==
    job.at = "write" /\ Writable(streams, file) =>
        /\ before = NoPlace
        /\ \E v \in Values, base \in Nat, m \in Nat : WriteJob(Bytes, base, v, m, job)
SequenceInv ==
    /\ InReach /\ TextReadSoFar /\ AtAComponent /\ FieldsReadSoFar /\ WholeComponents
    /\ WrittenSoFar

---------------------------------------------------------------------------
(* What the buffer shows, once it is filled, is what comes next in the      *)
(* file.                                                                    *)

ReadingText == kind = "text" /\ Readable(streams, file)

LEMMA LengthFacts ==
    ASSUME FileInv, Readable(streams, file)
    PROVE  /\ Bytes \in Seq(Byte) /\ Len(Bytes) \in Nat /\ At \in Nat
           /\ file \in Slots /\ Len(file.peek) \in Nat /\ file.h # 0
           /\ Here = At - Len(file.peek)
           /\ AtEnd(streams, file) <=> At >= Len(Bytes)
<1>1. Bytes \in Seq(Byte) /\ At \in Nat
  BY ReadFacts DEF Bytes, At
<1>2. file \in Slots /\ file.peek \in Seq(Byte)
  BY DEF FileInv, SlotsTypeOK, Slots
<1>3. Len(Bytes) \in Nat /\ Len(file.peek) \in Nat
  BY <1>1, <1>2, LenProperties
<1>4. file.h # 0 /\ Here = At - Len(file.peek)
  BY DEF Readable, Here, At
<1>5. AtEnd(streams, file) <=> At >= Len(Bytes)
  BY DEF AtEnd, At, Bytes
<1> QED
  BY <1>1, <1>2, <1>3, <1>4, <1>5

LEMMA FetchSees ==
    ASSUME FileInv, BufferAgrees, InReach, ReadingText
    PROVE  LET t == FillStream(streams, file)
           IN  /\ Sees(Bytes, Here, Filled)
               /\ Pos(t, file) =< Len(Bytes)
               /\ Pos(t, file) - Len(Filled.peek) = Here
               /\ Pos(t, file) - Len(Consumed(Filled).peek) =
                      IF Here = Len(Bytes) THEN Here ELSE Here + 1
<1> DEFINE t == FillStream(streams, file)
           p == Pos(t, file)
           b == Bytes[At + 1]
<1>0. Readable(streams, file)
  BY DEF ReadingText
<1>1. /\ Bytes \in Seq(Byte) /\ Len(Bytes) \in Nat /\ At \in Nat /\ file \in Slots
      /\ Here = At - Len(file.peek)
      /\ AtEnd(streams, file) <=> At >= Len(Bytes)
  BY <1>0, LengthFacts
<1>2. At =< Len(Bytes)
  BY <1>0 DEF InReach
<1>3. Agrees(streams, file)
  BY DEF BufferAgrees, Agrees, ReadingText
<1>4. file.eof \in {0, 1} /\ file.peek \in Seq(Byte)
  BY <1>1 DEF Slots
<1>5. Filled \in Slots
  BY <1>0, FillFacts DEF CanFill
<1>6. Consumed(Filled).peek = <<>>
  BY <1>5 DEF Consumed, Slots
<1>7. Len(<<>>) = 0 /\ \A x : Len(<<x>>) = 1
  BY EmptySeq
<1>8. CASE NeedsByte(file) /\ AtEnd(streams, file)
  <2>1. file.peek = <<>> /\ file.eof = 0 /\ t = Advanced(streams, file, 1)
    BY <1>8 DEF NeedsByte, FillStream
  <2>2. Chunk(streams, file, 1) = <<>>
    BY <1>0, <1>8, NextByte
  <2>3. Filled = [file EXCEPT !.eof = 1, !.eoln = 1]
    BY <1>8, <2>2 DEF Filled, FillSlots
  <2>4. Filled.eof = 1 /\ Filled.eoln = 1 /\ Filled.peek = <<>>
    BY <1>1, <2>1, <2>3 DEF Slots
  <2>5. At = Len(Bytes) /\ Here = At
    BY <1>1, <1>2, <1>7, <1>8, <2>1
  <2>6. p = ReadEnd(streams, file, 1)
    BY <1>0, <2>1, ReadFacts
  <2>7. p = Len(Bytes)
    <3>1. ReadEnd(streams, file, 1) = IF At + 1 < Len(Bytes) THEN At + 1 ELSE Len(Bytes)
      BY DEF ReadEnd, Smaller, At, Bytes
    <3> QED BY <1>1, <2>5, <2>6, <3>1
  <2> HIDE DEF p, t
  <2>8. Here \in 0..Len(Bytes)
    BY <1>1, <2>5
  <2>9. Sees(Bytes, Here, Filled)
    BY <2>4, <2>5, <2>8 DEF Sees
  <2>10. /\ p - Len(Filled.peek) = Here /\ p - Len(Consumed(Filled).peek) = Here
         /\ p =< Len(Bytes) /\ Here = Len(Bytes)
    BY <1>1, <1>6, <1>7, <2>4, <2>5, <2>7
  <2> QED BY <2>9, <2>10 DEF p, t
<1>9. CASE NeedsByte(file) /\ ~AtEnd(streams, file)
  <2>1. file.peek = <<>> /\ file.eof = 0 /\ t = Advanced(streams, file, 1)
    BY <1>9 DEF NeedsByte, FillStream
  <2>2. Chunk(streams, file, 1) = <<b>> /\ p = At + 1 /\ Chunk(streams, file, 1) # <<>>
    BY <1>0, <1>9, <2>1, NextByte DEF At, Bytes
  <2>3. Filled = [file EXCEPT !.peek = <<b>>, !.eoln = Flag(<<b>> = <<Newline>>)]
    BY <1>9, <2>2 DEF Filled, FillSlots
  <2> HIDE DEF p, t, b
  <2>4. Filled.eof = 0 /\ Filled.eoln = Flag(b = Newline) /\ Filled.peek = <<b>>
    BY <1>1, <2>1, <2>3 DEF Slots, Flag
  <2>5. Here = At /\ At < Len(Bytes)
    BY <1>1, <1>2, <1>7, <1>9, <2>1
  <2>6. Here \in 0..Len(Bytes) /\ Here # Len(Bytes) /\ b = Bytes[Here + 1]
    <3>1. b = Bytes[Here + 1]
      BY <2>5 DEF b
    <3>2. Here \in 0..Len(Bytes) /\ Here # Len(Bytes)
      BY <1>1, <2>5
    <3> QED BY <3>1, <3>2
  <2>7. Sees(Bytes, Here, Filled)
    BY <2>4, <2>6 DEF Sees
  <2>8. p - Len(Filled.peek) = Here /\ p - Len(Consumed(Filled).peek) = Here + 1
        /\ p =< Len(Bytes)
    <3>1. Len(Filled.peek) = 1 /\ Len(Consumed(Filled).peek) = 0
      BY <1>6, <1>7, <2>4
    <3>2. p = Here + 1 /\ p =< Len(Bytes) /\ Here \in Int
      <4>1. p = At + 1 /\ Here = At /\ At \in Nat
        BY <1>1, <2>2, <2>5
      <4>2. At < Len(Bytes) /\ Len(Bytes) \in Nat
        BY <1>1, <2>5
      <4>3. At + 1 =< Len(Bytes)
        BY <4>1, <4>2
      <4> QED BY <4>1, <4>3
    <3> QED BY <3>1, <3>2
  <2> QED BY <2>6, <2>7, <2>8 DEF p, t
<1>10. CASE ~NeedsByte(file) /\ file.peek = <<>>
  <2>1. file.eof = 1 /\ t = streams /\ Filled = file
    BY <1>4, <1>10 DEF NeedsByte, FillStream, Filled, FillSlots
  <2>2. file.eoln = 1 /\ AtEnd(streams, file)
    BY <1>3, <2>1 DEF Agrees
  <2>3. Here = Len(Bytes) /\ At = Len(Bytes) /\ Here \in 0..Len(Bytes)
    BY <1>1, <1>2, <1>7, <1>10, <2>2
  <2>4. Sees(Bytes, Here, Filled)
    BY <1>10, <2>1, <2>2, <2>3 DEF Sees
  <2>5. p = At
    BY <2>1 DEF At
  <2> HIDE DEF p, t
  <2>6. p - Len(Filled.peek) = Here /\ p - Len(Consumed(Filled).peek) = Here
        /\ p =< Len(Bytes)
    BY <1>1, <1>6, <1>7, <1>10, <2>1, <2>3, <2>5
  <2> QED BY <2>3, <2>4, <2>6 DEF p, t
<1>11. CASE ~NeedsByte(file) /\ file.peek # <<>>
  <2>1. t = streams /\ Filled = file
    BY <1>11 DEF FillStream, Filled, FillSlots
  <2>2. /\ Len(file.peek) =< 1 /\ At >= 1 /\ file.peek[1] = Bytes[At]
        /\ file.eoln = Flag(file.peek[1] = Newline) /\ file.eof # 1
    BY <1>3, <1>11 DEF Agrees, At, Bytes
  <2>3. Len(file.peek) = 1
    <3>1. Len(file.peek) \in Nat /\ Len(file.peek) # 0
      BY <1>4, <1>11, LenProperties, EmptySeq
    <3>2. Len(file.peek) =< 1
      BY <2>2
    <3>3. \A l \in Nat : l # 0 /\ l =< 1 => l = 1
      OBVIOUS
    <3> QED BY <3>1, <3>2, <3>3, Zenon
  <2>4. file.peek = <<file.peek[1]>>
    BY <1>4, <2>3, Singleton
  <2>5. Here = At - 1 /\ Here \in 0..Len(Bytes) /\ Here # Len(Bytes) /\ Here + 1 = At
    BY <1>1, <1>2, <2>2, <2>3
  <2>6. file.eof = 0
    BY <1>4, <2>2
  <2>7. Sees(Bytes, Here, Filled)
    BY <2>1, <2>2, <2>4, <2>5, <2>6 DEF Sees
  <2>8. p = At
    BY <2>1 DEF At
  <2> HIDE DEF p, t
  <2>9. p - Len(Filled.peek) = Here /\ p - Len(Consumed(Filled).peek) = Here + 1
        /\ p =< Len(Bytes)
    BY <1>1, <1>2, <1>6, <1>7, <2>1, <2>3, <2>5, <2>8
  <2> QED BY <2>5, <2>7, <2>9 DEF p, t
<1> QED
  BY <1>8, <1>9, <1>10, <1>11

(* A step that fetches stays on the file, at most at its end, and has       *)
(* passed the buffered byte when it was consumed.                           *)
LEMMA FetchReaches ==
    ASSUME FileInv, BufferAgrees, InReach, ReadingText,
           NEW at, Fetch(at), file' = Filled \/ file' = Consumed(Filled)
    PROVE  /\ Moved /\ Bytes' = Bytes /\ Readable(streams, file)'
           /\ At' =< Len(Bytes)
           /\ file' = Filled => Here' = Here
           /\ file' = Consumed(Filled) =>
                Here' = IF Here = Len(Bytes) THEN Here ELSE Here + 1
<1> DEFINE t == FillStream(streams, file)
<1>1. Readable(streams, file) /\ file.h # 0 /\ file.h \in Handles
  BY DEF ReadingText, Readable, FileInv, SlotsTypeOK, Slots
<1>2. Moved /\ streams' = t
  BY FetchMoves DEF Fetch
<1>3. Bytes' = Bytes
  BY <1>1, <1>2 DEF Moved, Bytes, Content
<1>4. Readable(streams, file)'
  BY <1>1, <1>2 DEF Moved, Readable
<1>5. Pos(streams', file') = Pos(t, file) /\ file'.h # 0
  BY <1>1, <1>2 DEF Moved, Pos
<1> HIDE DEF t
<1>6. /\ Pos(t, file) =< Len(Bytes)
      /\ Pos(t, file) - Len(Filled.peek) = Here
      /\ Pos(t, file) - Len(Consumed(Filled).peek) =
             IF Here = Len(Bytes) THEN Here ELSE Here + 1
  BY FetchSees DEF t
<1>7. At' = Pos(t, file)
  BY <1>5 DEF At, Pos
<1>8. Here' = Pos(t, file) - Len(file'.peek)
  BY <1>5 DEF Here, Pos
<1>9. file' = Filled => Here' = Pos(t, file) - Len(Filled.peek)
  BY <1>8
<1>10. file' = Consumed(Filled) => Here' = Pos(t, file) - Len(Consumed(Filled).peek)
  BY <1>8
<1> QED
  BY <1>2, <1>3, <1>4, <1>6, <1>7, <1>9, <1>10

(* A round of a loop takes the statement where the definition of what it    *)
(* reads says.                                                              *)
LEMMA TextRound ==
    ASSUME FileInv, BufferAgrees, InReach, ReadingText, ReadStep,
           NEW sorts, NEW whole, NEW n,
           Reading(Bytes, before.pos, sorts, whole, n, job, Here, Filled)
    PROVE  /\ Moved /\ Bytes' = Bytes /\ Readable(streams, file)' /\ At' =< Len(Bytes)
           /\ \E j : /\ Continue(j)
                     /\ \E n2 \in Nat : Goes(Bytes, before.pos, sorts, whole, n2, j, Here')
<1> DEFINE Result == /\ Moved /\ Bytes' = Bytes /\ Readable(streams, file)'
                     /\ At' =< Len(Bytes)
           Next1 == IF Here = Len(Bytes) THEN Here ELSE Here + 1
           G(j, h) == \E n2 \in Nat : Goes(Bytes, before.pos, sorts, whole, n2, j, h)
<1>1. ASSUME NEW at, Fetch(at), file' = Filled \/ file' = Consumed(Filled)
      PROVE  /\ Result
             /\ file' = Filled => Here' = Here
             /\ file' = Consumed(Filled) => Here' = Next1
  BY <1>1, FetchReaches
<1>2. Sees(Bytes, Here, Filled) /\ Bytes \in Seq(Byte) /\ n \in Nat
  BY DEF Reading, TextJob
<1>3. /\ Filled.eof = 1 <=> Here = Len(Bytes)
      /\ Filled.eof = 0 <=> Here # Len(Bytes)
  BY <1>2, StopsSeen
<1>4. \A j, h : Goes(Bytes, before.pos, sorts, whole, n, j, h) => G(j, h)
  BY <1>2
<1> HIDE DEF Result, G, Next1
<1> SUFFICES Result /\ \E j : Continue(j) /\ G(j, Here')
  BY DEF Result, G
<1>5. CASE ReadChar
  <2> DEFINE j == Delivered(job, <<SeqOf(Filled.peek)>>)
  <2>1. Fetch("char") /\ file' = Consumed(Filled) /\ Continue(j) /\ job.at = "char"
    BY <1>5 DEF ReadChar, Fetch
  <2>2. G(j, Next1)
    BY <2>1, CharIsRead DEF G, Next1
  <2> HIDE DEF j
  <2> QED BY <1>1, <2>1, <2>2
<1>6. CASE StringEnds
  <2> DEFINE j == Delivered(job, job.acc)
  <2>1. /\ Fetch("tread") /\ file' = Filled /\ Continue(j) /\ job.at = "tread"
        /\ Filled.eof = 1 \/ Filled.eoln = 1
    BY <1>6 DEF StringEnds, Fetch
  <2>2. G(j, Here)
    BY <2>1, StringIsRead DEF G
  <2> HIDE DEF j
  <2> QED BY <1>1, <2>1, <2>2
<1>7. CASE TakeCharacter
  <2> DEFINE j == [Took(job, Filled) EXCEPT !.at = IF job.whole THEN "tread" ELSE "tread.cont"]
  <2>1. /\ Fetch("tread") /\ file' = Consumed(Filled) /\ Continue(j) /\ job.at = "tread"
        /\ Filled.eof = 0 /\ Filled.eoln = 0
    BY <1>7 DEF TakeCharacter, Fetch
  <2>2. G(j, Here + 1)
    BY <1>4, <2>1, CharacterIsTaken
  <2> HIDE DEF j
  <2>3. Next1 = Here + 1
    BY <1>3, <2>1 DEF Next1
  <2> QED BY <1>1, <2>1, <2>2, <2>3
<1>8. CASE WordGoesOn
  <2> DEFINE ends == SeqOf(Filled.peek) = Space \/ Filled.eof = 1 \/ Filled.eoln = 1
             j1 == Delivered(job, job.acc)
             j2 == [job EXCEPT !.at = "tread"]
  <2>1. /\ Fetch("tread.cont") /\ file' = Filled /\ job.at = "tread.cont"
        /\ Continue(IF ends THEN j1 ELSE j2)
    BY <1>8 DEF WordGoesOn, Fetch
  <2>2. ends => G(j1, Here)
    BY <2>1, StringIsRead DEF G
  <2>3. ~ends => G(j2, Here)
    BY <1>4, <2>1, WordContinues
  <2> HIDE DEF ends, j1, j2
  <2> QED BY <1>1, <2>1, <2>2, <2>3
<1>9. CASE SkipBlanks
  <2> DEFINE j1 == Delivered(job, job.acc)
             j2 == [job EXCEPT !.at = "ti.acc"]
  <2>1. /\ Fetch("ti.skip") /\ job.at = "ti.skip"
        /\ IF Filled.eof = 1 THEN file' = Filled /\ Continue(j1)
           ELSE IF IsBlank(Filled) THEN file' = Consumed(Filled) /\ Continue(job)
           ELSE file' = Filled /\ Continue(j2)
    BY <1>9 DEF SkipBlanks, Fetch
  <2>2. /\ Filled.eof = 1 => G(j1, Here)
        /\ Filled.eof # 1 /\ IsBlank(Filled) => G(job, Here + 1)
        /\ Filled.eof # 1 /\ ~IsBlank(Filled) => G(j2, Here)
    <3>1. /\ Filled.eof = 1 => \E n2 \in Nat :
                Goes(Bytes, before.pos, sorts, whole, n2, j1, Here)
          /\ Filled.eof # 1 /\ IsBlank(Filled) =>
                Goes(Bytes, before.pos, sorts, whole, n, job, Here + 1)
          /\ Filled.eof # 1 /\ ~IsBlank(Filled) =>
                Goes(Bytes, before.pos, sorts, whole, n, j2, Here)
      BY <2>1, BlanksAreSkipped
    <3> HIDE DEF j1, j2
    <3> QED BY <1>4, <3>1 DEF G
  <2> HIDE DEF j1, j2
  <2>3. Filled.eof # 1 => Next1 = Here + 1
    BY <1>3 DEF Next1
  <2> QED BY <1>1, <2>1, <2>2, <2>3
<1>10. CASE TakeNumber
  <2> DEFINE ends == Filled.eof = 1 \/ IsBlank(Filled)
             j1 == Delivered(job, job.acc)
             j2 == Took(job, Filled)
  <2>1. /\ Fetch("ti.acc") /\ job.at = "ti.acc"
        /\ IF ends THEN file' = Filled /\ Continue(j1)
           ELSE file' = Consumed(Filled) /\ Continue(j2)
    BY <1>10 DEF TakeNumber, Fetch
  <2>2. (ends => G(j1, Here)) /\ (~ends => G(j2, Here + 1))
    <3>1. /\ ends => \E n2 \in Nat : Goes(Bytes, before.pos, sorts, whole, n2, j1, Here)
          /\ ~ends => Goes(Bytes, before.pos, sorts, whole, n, j2, Here + 1)
      BY <2>1, NumberIsTaken
    <3> HIDE DEF j1, j2, ends
    <3> QED BY <1>4, <3>1 DEF G
  <2>3. ~ends => Next1 = Here + 1
    BY <1>3 DEF Next1
  <2> HIDE DEF ends, j1, j2
  <2> QED BY <1>1, <2>1, <2>2, <2>3
<1>11. CASE SkipLine
  <2> DEFINE j == IF Filled.eof = 1 \/ Filled.eoln = 1 THEN [job EXCEPT !.at = "idle"] ELSE job
  <2>1. /\ Fetch("rln") /\ job.at = "rln" /\ Continue(j)
        /\ file' = IF Filled.eof = 1 THEN Filled ELSE Consumed(Filled)
    BY <1>11 DEF SkipLine, Fetch
  <2>2. G(j, IF Filled.eof = 1 THEN Here ELSE Here + 1)
    BY <1>4, <2>1, LineIsPassed
  <2> HIDE DEF j
  <2>3. Filled.eof # 1 => Next1 = Here + 1
    BY <1>3 DEF Next1
  <2>4. G(j, Here')
    BY <1>1, <2>1, <2>2, <2>3
  <2>5. Result
    BY <1>1, <2>1
  <2> QED BY <2>1, <2>4, <2>5
<1> QED
  BY <1>5, <1>6, <1>7, <1>8, <1>9, <1>10, <1>11 DEF ReadStep

---------------------------------------------------------------------------
(* What the sequential file sees of the slots.                              *)

LEMMA SameContents ==
    ASSUME kind' = kind, disk' = disk
    PROVE  Contents' = Contents /\ CutFiles' = CutFiles
  BY DEF Contents, CutFiles, Elements

LEMMA SameOpen == ASSUME FileInv, Moved PROVE OpenOn' = OpenOn
<1>1. file.h # 0 => file.h \in Handles
  BY DEF FileInv, SlotsTypeOK, Slots
<1> QED
  BY <1>1 DEF Moved, OpenOn

LEMMA OpenFacts ==
    ASSUME FileInv, Readable(streams, file) \/ Writable(streams, file)
    PROVE  /\ file.h # 0 /\ file.h \in Handles
           /\ OpenOn.path = streams[file.h].path /\ OpenOn.mode = streams[file.h].mode
           /\ OpenOn.path \in Paths /\ disk[OpenOn.path] = Bytes
           /\ Bytes \in Seq(Byte) /\ Bytes # Missing
           /\ Contents[OpenOn.path] = IF kind = "text" THEN Bytes ELSE Components(Bytes)
<1>1. file.h # 0 /\ file.h \in Handles
  BY DEF Readable, Writable, FileInv, SlotsTypeOK, Slots
<1>2. OpenOn = [path |-> streams[file.h].path, mode |-> streams[file.h].mode]
  BY <1>1 DEF OpenOn
<1>3. OpenOn.path = streams[file.h].path /\ OpenOn.mode = streams[file.h].mode
  BY <1>2
<1>4. OpenOn.path \in Paths /\ disk[OpenOn.path] \in Seq(Byte)
  BY <1>1, <1>3 DEF FileInv, OnAFile
<1>5. disk[OpenOn.path] = Bytes
  BY <1>3 DEF Bytes, Content
<1>6. Bytes # Missing
  BY <1>4, <1>5, FileAssumption
<1>7. Contents[OpenOn.path] = IF kind = "text" THEN Bytes ELSE Components(Bytes)
  BY <1>4, <1>5, <1>6 DEF Contents, Elements
<1> QED
  BY <1>1, <1>3, <1>4, <1>5, <1>6, <1>7

LEMMA TextView ==
    ASSUME FileInv, ReadingText
    PROVE  Sequential!Text = Bytes /\ Sequential!Reading /\ Sequential!Length = Len(Bytes)
<1>1. Readable(streams, file) /\ kind = "text"
  BY DEF ReadingText
<1>2. Sequential!Text = Bytes /\ Bytes # Missing
  BY <1>1, OpenFacts DEF Sequential!Text
<1>3. OpenOn.mode = "reading"
  BY <1>1, OpenFacts DEF Readable
<1> QED
  BY <1>2, <1>3 DEF Sequential!Reading, Sequential!Length

(* The file is closed, read or written.                                     *)
LEMMA Directions ==
    ASSUME FileInv
    PROVE  /\ file.h = 0 \/ Readable(streams, file) \/ Writable(streams, file)
           /\ ~(Readable(streams, file) /\ Writable(streams, file))
           /\ file.h = 0 => ~Readable(streams, file) /\ ~Writable(streams, file)
           /\ file.h = 0 => OpenOn = Sequential!Closed
<1>1. file.h # 0 => streams[file.h].mode = IF file.rd = 1 THEN "reading" ELSE "writing"
  BY DEF FileInv, HandlesAreOwned
<1> QED
  BY <1>1 DEF Readable, Writable, OpenOn, Sequential!Closed

(* Of a text only what is read of it matters, of a typed file only its      *)
(* components.                                                              *)
LEMMA TextInv ==
    ASSUME FileInv', kind' = "text", InReach', TextReadSoFar'
    PROVE  SequenceInv'
  BY DEF FileInv, JobOK, SequenceInv, AtAComponent, FieldsReadSoFar, WholeComponents, WrittenSoFar
LEMMA TypedInv ==
    ASSUME FileInv', kind' = "typed", InReach', AtAComponent', FieldsReadSoFar',
           WholeComponents', WrittenSoFar'
    PROVE  SequenceInv'
  BY DEF FileInv, JobOK, SequenceInv, TextReadSoFar

LEMMA NoneLeftOfText == ASSUME kind = "text", kind' = kind PROVE NoneLeft' = NoneLeft
<1>1. ~NoneLeft /\ ~NoneLeft'
  BY DEF NoneLeft
<1> QED
  BY <1>1 DEF NoneLeft

LEMMA SamePath ==
    ASSUME FileInv, file' = Filled \/ file' = Consumed(Filled)
    PROVE  file'.path = file.path
<1>1. file \in Slots
  BY DEF FileInv, SlotsTypeOK
<1>2. DOMAIN Filled = DOMAIN file /\ Filled.path = file.path
  BY <1>1 DEF Filled, FillSlots, Slots
<1>3. Consumed(Filled).path = Filled.path
  BY <1>1, <1>2 DEF Consumed, Slots
<1> QED
  BY <1>2, <1>3

(* The step the sequential file takes.                                      *)
Implements == [Sequential!Next]_(Sequential!vars)
LEMMA Stutters ==
    ASSUME UNCHANGED <<kind, Contents, CutFiles, file.path, OpenOn, ElementsRead, NoneLeft, answer>>
    PROVE  Implements
  BY DEF Implements, Sequential!vars

---------------------------------------------------------------------------
(* A statement on a text.                                                   *)

SeqInvs == FileInv /\ BufferAgrees /\ WorkInv /\ SequenceInv

LEMMA ReadJob ==
    ASSUME SeqInvs, ReadStep, Readable(streams, file)
    PROVE  /\ ReadingText
           /\ \E sorts \in Requests, whole \in BOOLEAN, n \in Nat :
                  Reading(Bytes, before.pos, sorts, whole, n, job, Here, Filled)
<1>1. job.at \in TextLabels /\ kind = "text" /\ DOMAIN job = DOMAIN NoJob
  <2>1. job.at \in TextLabels
    BY DEF ReadStep, ReadChar, StringEnds, TakeCharacter, WordGoesOn, SkipBlanks, TakeNumber,
           SkipLine, Fetch, TextLabels
  <2> QED BY <2>1 DEF SeqInvs, FileInv, JobOK
<1>2. ReadingText
  BY <1>1 DEF ReadingText
<1>3. PICK sorts \in Requests, whole \in BOOLEAN, n \in Nat :
          before.pos \in 0..Len(Bytes) /\ TextJob(Bytes, before.pos, sorts, whole, n, job, Here)
  BY <1>1 DEF SeqInvs, SequenceInv, TextReadSoFar
<1>4. sorts \in Seq(TextSorts)
  BY TextAssumption
<1>5. Bytes \in Seq(Byte)
  BY OpenFacts DEF SeqInvs
<1>6. Sees(Bytes, Here, Filled)
  BY <1>2, FetchSees DEF SeqInvs, SequenceInv
<1> QED
  BY <1>1, <1>2, <1>3, <1>4, <1>5, <1>6 DEF Reading

LEMMA ReadStepFetches ==
    ASSUME ReadStep
    PROVE  /\ \E at \in TextLabels : Fetch(at) /\ job.at = at
           /\ file' = Filled \/ file' = Consumed(Filled)
           /\ \E j : Continue(j)
<1>1. \E at \in TextLabels : Fetch(at) /\ job.at = at
  BY DEF ReadStep, ReadChar, StringEnds, TakeCharacter, WordGoesOn, SkipBlanks, TakeNumber,
         SkipLine, Fetch, TextLabels
<1>2. file' = Filled \/ file' = Consumed(Filled)
  BY DEF ReadStep, ReadChar, StringEnds, TakeCharacter, WordGoesOn, SkipBlanks, TakeNumber,
         SkipLine
<1>3. \E j : Continue(j)
  BY DEF ReadStep, ReadChar, StringEnds, TakeCharacter, WordGoesOn, SkipBlanks, TakeNumber,
         SkipLine
<1> QED
  BY <1>1, <1>2, <1>3

LEMMA ReadStepImplements ==
    ASSUME SeqInvs, FileInv', ReadStep, Readable(streams, file)
    PROVE  SequenceInv' /\ Implements
<1>1. PICK sorts \in Requests, whole \in BOOLEAN, n \in Nat :
          Reading(Bytes, before.pos, sorts, whole, n, job, Here, Filled)
  BY ReadJob
<1>2. ReadingText /\ FileInv /\ BufferAgrees /\ InReach /\ kind = "text"
  BY ReadJob DEF SeqInvs, SequenceInv, ReadingText
<1>3. /\ Moved /\ Bytes' = Bytes /\ Readable(streams, file)' /\ At' =< Len(Bytes)
      /\ \E j : /\ Continue(j)
                /\ \E n2 \in Nat : Goes(Bytes, before.pos, sorts, whole, n2, j, Here')
  BY <1>1, <1>2, TextRound
<1>4. PICK j : /\ Continue(j)
               /\ \E n2 \in Nat : Goes(Bytes, before.pos, sorts, whole, n2, j, Here')
  BY <1>3
<1>5. PICK n2 \in Nat : Goes(Bytes, before.pos, sorts, whole, n2, j, Here')
  BY <1>4
<1>6. kind' = kind /\ disk' = disk /\ file'.path = file.path
  BY <1>2, <1>3, SamePath, ReadStepFetches DEF Moved
<1>7. Contents' = Contents /\ CutFiles' = CutFiles /\ OpenOn' = OpenOn
  BY <1>2, <1>3, <1>6, SameContents, SameOpen
<1>8. job.at \in TextLabels /\ Busy
  BY ReadStepFetches DEF Busy, TextLabels
<1>9. ElementsRead = before.pos /\ before.pos \in 0..Len(Bytes)
  BY <1>1, <1>2, <1>8 DEF ElementsRead, Place, Reading
<1>10. InReach'
  <2>1. ~Writable(streams, file)' /\ file'.h # 0
    BY <1>3 DEF Readable, Writable
  <2>2. (At =< Len(Bytes))'
    BY <1>3
  <2> QED BY <2>1, <2>2 DEF InReach
<1>11. NoneLeft' = NoneLeft
  BY <1>2, <1>6, NoneLeftOfText
<1>12. CASE j.at = "idle"
  <2>1. job' = NoJob /\ answer' = Answer("read", j.got) /\ before' = NoPlace
    BY <1>4, <1>12 DEF Continue
  <2>2. job'.at = "idle" /\ ~Busy'
    BY <2>1 DEF NoJob, Busy
  <2>3. SequenceInv'
    <3>1. TextReadSoFar'
      BY <2>2 DEF TextReadSoFar, TextLabels
    <3>2. kind' = "text"
      BY <1>2, <1>6
    <3> QED BY <1>10, <3>1, <3>2, TextInv
  <2>4. ElementsRead' = Here'
    <3>1. ElementsRead' = Place'.pos /\ Place' = [pos |-> Here', eof |-> file'.eof]
      BY <1>2, <1>6, <2>2 DEF ElementsRead, Place
    <3> QED BY <3>1
  <2>5. ReadDone(Bytes, before.pos, sorts, whole, j, Here')
    BY <1>5, <1>12 DEF Goes
  <2>6. Sequential!Text = Bytes /\ Sequential!Reading
    BY <1>2, TextView
  <2>7. Sequential!ReadText
    <3> DEFINE last == Sequential!Places(Bytes, before.pos, sorts, whole)[Len(sorts)]
    <3>1. ElementsRead' = IF whole THEN Sequential!NextLine(Bytes, last) ELSE last
      BY <2>4, <2>5 DEF ReadDone
    <3>2. answer' = [what |-> "read",
                     values |-> Sequential!ValuesRead(Bytes, before.pos, sorts, whole)]
      BY <2>1, <2>5 DEF ReadDone, Answer
    <3>3. \E ss \in Requests, wholeLine \in BOOLEAN :
             LET end == Sequential!Places(Sequential!Text, ElementsRead, ss, wholeLine)[Len(ss)]
             IN  /\ ElementsRead' = IF wholeLine THEN Sequential!NextLine(Sequential!Text, end)
                                    ELSE end
                 /\ Sequential!Answered("read",
                        Sequential!ValuesRead(Sequential!Text, ElementsRead, ss, wholeLine))
      BY <1>9, <2>6, <3>1, <3>2 DEF Sequential!Answered
    <3>4. kind = "text" /\ kind' = kind
          /\ UNCHANGED <<Contents, CutFiles, file.path, OpenOn, NoneLeft>>
      BY <1>2, <1>6, <1>7, <1>11
    <3> QED BY <2>6, <3>3, <3>4 DEF Sequential!ReadText, Sequential!Kept
  <2>8. Implements
    BY <2>7 DEF Implements, Sequential!Next
  <2> QED BY <2>3, <2>8
<1>13. CASE j.at # "idle"
  <2>1. job' = j /\ answer' = answer /\ before' = before
    BY <1>4, <1>13 DEF Continue
  <2>2. Busy'
    BY <1>13, <2>1 DEF Busy
  <2>3. TextJob(Bytes', before'.pos, sorts, whole, n2, job', Here')
    BY <1>3, <1>5, <1>13, <2>1 DEF Goes
  <2>4. before'.pos \in 0..Len(Bytes')
    BY <1>3, <1>9, <2>1
  <2>5. TextReadSoFar'
    BY <2>3, <2>4 DEF TextReadSoFar
  <2>6. SequenceInv'
    <3>1. kind' = "text"
      BY <1>2, <1>6
    <3> QED BY <1>10, <2>5, <3>1, TextInv
  <2>7. ElementsRead' = ElementsRead
    BY <1>6, <1>8, <2>1, <2>2 DEF ElementsRead, Place
  <2>8. Implements
    BY <1>6, <1>7, <1>11, <2>1, <2>7, Stutters
  <2> QED BY <2>6, <2>8
<1> QED
  BY <1>12, <1>13

(* A text that is closed reads as nothing; it stays closed.                 *)
LEMMA ClosedText ==
    ASSUME SeqInvs, kind = "text", NEW at, Fetch(at), file' = Filled \/ file' = Consumed(Filled),
           ~Readable(streams, file)
    PROVE  /\ Moved /\ file.h = 0 /\ file'.h = 0 /\ Here = 0 /\ Here' = 0
           /\ kind' = kind /\ file'.path = file.path
           /\ UNCHANGED <<Contents, CutFiles, OpenOn, NoneLeft>>
           /\ OpenOn = Sequential!Closed
           /\ ~Readable(streams, file)' /\ ~Writable(streams, file)'
<1>1. Moved /\ kind' = kind /\ disk' = disk
  BY FetchMoves DEF SeqInvs, Moved
<1>2. file.h = 0
  <2> SUFFICES ASSUME file.h # 0 PROVE FALSE
    OBVIOUS
  <2>1. Writable(streams, file)
    BY Directions DEF SeqInvs
  <2>2. file.peek = <<>> /\ file.eof = 0
    BY <2>1 DEF SeqInvs, WorkInv, PeekIsRead
  <2> QED BY <2>2 DEF Fetch, CanFill, NeedsByte
<1>3. file'.h = 0
  BY <1>1, <1>2 DEF Moved
<1>4. Here = 0 /\ Here' = 0 /\ ~Readable(streams, file)' /\ ~Writable(streams, file)'
  BY <1>2, <1>3 DEF Here, Readable, Writable
<1>5. UNCHANGED <<Contents, CutFiles, OpenOn, NoneLeft>>
  BY <1>1, SameContents, SameOpen, NoneLeftOfText DEF SeqInvs
<1>6. file'.path = file.path
  BY SamePath DEF SeqInvs
<1>7. OpenOn = Sequential!Closed
  BY <1>2, Directions DEF SeqInvs
<1> QED
  BY <1>1, <1>2, <1>3, <1>4, <1>5, <1>6, <1>7

LEMMA ClosedReadImplements ==
    ASSUME SeqInvs, FileInv', ReadStep, ~Readable(streams, file)
    PROVE  SequenceInv' /\ Implements
<1>1. PICK at \in TextLabels : Fetch(at) /\ job.at = at
  BY ReadStepFetches
<1>2. PICK j : Continue(j)
  BY ReadStepFetches
<1>3. kind = "text" /\ Busy
  BY <1>1 DEF SeqInvs, FileInv, JobOK, Busy, TextLabels
<1>4. /\ Moved /\ file.h = 0 /\ file'.h = 0 /\ Here = 0 /\ Here' = 0
      /\ kind' = kind /\ file'.path = file.path
      /\ UNCHANGED <<Contents, CutFiles, OpenOn, NoneLeft>>
      /\ OpenOn = Sequential!Closed
      /\ ~Readable(streams, file)' /\ ~Writable(streams, file)'
  BY <1>1, <1>3, ClosedText, ReadStepFetches
<1>5. before.pos = 0
  BY <1>3, <1>4 DEF SeqInvs, SequenceInv, InReach
<1>6. before'.pos = 0
  BY <1>2, <1>5 DEF Continue, NoPlace
<1>7. InReach'
  BY <1>4, <1>6 DEF InReach
<1>8. TextReadSoFar'
  BY <1>4 DEF TextReadSoFar
<1>9. SequenceInv'
  <2>1. kind' = "text"
    BY <1>3, <1>4
  <2> QED BY <1>7, <1>8, <2>1, TextInv
<1>10. ElementsRead = 0 /\ ElementsRead' = 0
  <2>1. Place.pos = 0
    BY <1>3, <1>5 DEF Place
  <2>2. (Place.pos)' = 0
    BY <1>4, <1>6 DEF Place
  <2> QED BY <1>3, <1>4, <2>1, <2>2 DEF ElementsRead
<1>11. Sequential!Undefined
  BY <1>4, <1>10 DEF Sequential!Undefined, Sequential!Kept
<1> QED
  BY <1>9, <1>11 DEF Implements, Sequential!Next

LEMMA BeginReadImplements ==
    ASSUME SeqInvs, FileInv', BeginRead
    PROVE  SequenceInv' /\ Implements
<1>1. PICK sorts \in Requests, whole \in BOOLEAN :
          (sorts # <<>> \/ whole) /\ Begin(NextLabel(sorts, whole), sorts, whole)
  BY DEF BeginRead
<1>2. kind = "text" /\ ~Busy /\ UNCHANGED <<kind, disk, streams, file, answer>>
  BY DEF BeginRead, Idle, Busy, slotVars
<1>3. /\ job' = [NoJob EXCEPT !.at = NextLabel(sorts, whole), !.left = sorts, !.whole = whole]
      /\ before' = [pos |-> Here, eof |-> file.eof]
  BY <1>1 DEF Begin
<1>4. Here' = Here /\ Bytes' = Bytes /\ At' = At
  BY <1>2 DEF Here, Bytes, At, Content, Pos
<1>5. InReach'
  <2>1. file.h = 0 => before'.pos = 0
    BY <1>3 DEF Here
  <2> QED BY <1>2, <1>4, <2>1 DEF SeqInvs, SequenceInv, InReach, Readable, Writable
<1>6. ASSUME Readable(streams, file)
      PROVE  Here \in 0..Len(Bytes) /\ TextJob(Bytes, Here, sorts, whole, 0, job', Here)
  <2>1. Sees(Bytes, Here, Filled)
    BY <1>2, <1>6, FetchSees DEF SeqInvs, SequenceInv, ReadingText
  <2>2. Bytes \in Seq(Byte) /\ sorts \in Seq(TextSorts) /\ Here \in 0..Len(Bytes)
    BY <1>6, <2>1, OpenFacts, TextAssumption DEF SeqInvs, Sees
  <2>3. PICK j : j = [NoJob EXCEPT !.at = NextLabel(sorts, whole), !.left = sorts,
                                   !.whole = whole]
    OBVIOUS
  <2>4. TextJob(Bytes, Here, sorts, whole, 0, j, Here)
    BY <1>1, <2>2, <2>3, ReadBegins
  <2>5. job' = j
    BY <1>3, <2>3
  <2> QED BY <2>2, <2>4, <2>5
<1>7. TextReadSoFar'
  <2> SUFFICES ASSUME Readable(streams, file)'
               PROVE  \E ss \in Requests, w \in BOOLEAN, n \in Nat :
                          /\ before'.pos \in 0..Len(Bytes')
                          /\ TextJob(Bytes', before'.pos, ss, w, n, job', Here')
    BY DEF TextReadSoFar
  <2>1. Readable(streams, file)
    BY <1>2 DEF Readable
  <2>2. before'.pos = Here
    BY <1>3
  <2>3. Here \in 0..Len(Bytes) /\ TextJob(Bytes, Here, sorts, whole, 0, job', Here)
    BY <1>6, <2>1
  <2>4. 0 \in Nat
    OBVIOUS
  <2> QED BY <1>4, <2>2, <2>3, <2>4
<1>8. SequenceInv'
  <2>1. kind' = "text"
    BY <1>2
  <2> QED BY <1>5, <1>7, <2>1, TextInv
<1>9. ElementsRead' = ElementsRead
  <2>1. Place = [pos |-> Here, eof |-> file.eof]
    BY <1>2 DEF Place
  <2>2. Place' = [pos |-> Here, eof |-> file.eof]
    BY <1>2, <1>3, <1>4 DEF Place
  <2> QED BY <1>2, <2>1, <2>2 DEF ElementsRead
<1>10. UNCHANGED <<Contents, CutFiles, OpenOn, NoneLeft>>
  <2>1. OpenOn' = OpenOn
    BY <1>2 DEF OpenOn
  <2> QED BY <1>2, <2>1, SameContents, NoneLeftOfText
<1> QED
  BY <1>2, <1>8, <1>9, <1>10, Stutters

(* eof and eoln answer for the place reached.                               *)
LEMMA AskImplements ==
    ASSUME SeqInvs, FileInv', TextEof \/ Eoln
    PROVE  SequenceInv' /\ Implements
<1>1. /\ kind = "text" /\ ~Busy /\ Fetch("idle") /\ file' = Filled
      /\ UNCHANGED <<job, before>>
  BY DEF TextEof, Eoln, AskText, Idle, Busy
<1>2. kind' = kind /\ disk' = disk
  BY <1>1 DEF Fetch
<1>3. ~Busy' /\ TextReadSoFar'
  BY <1>1 DEF Busy, TextReadSoFar, TextLabels
<1>4. ElementsRead = Here /\ ElementsRead' = Here'
  <2>1. Place = [pos |-> Here, eof |-> file.eof]
    BY <1>1 DEF Place
  <2>2. Place' = [pos |-> Here', eof |-> file'.eof]
    BY <1>3 DEF Place
  <2> QED BY <1>1, <1>2, <2>1, <2>2 DEF ElementsRead
<1>5. ASSUME InReach' PROVE SequenceInv'
  <2>1. kind' = "text"
    BY <1>1, <1>2
  <2> QED BY <1>3, <1>5, <2>1, TextInv
<1>6. CASE ~Readable(streams, file)
  <2>1. /\ Moved /\ Here = 0 /\ Here' = 0
        /\ kind' = kind /\ file'.path = file.path
        /\ UNCHANGED <<Contents, CutFiles, OpenOn, NoneLeft>>
        /\ OpenOn = Sequential!Closed
        /\ ~Readable(streams, file)' /\ ~Writable(streams, file)'
    BY <1>1, <1>6, ClosedText
  <2>2. InReach'
    BY <1>3, <2>1 DEF InReach
  <2>3. Sequential!Undefined
    BY <1>4, <2>1 DEF Sequential!Undefined, Sequential!Kept
  <2> QED BY <1>5, <2>2, <2>3 DEF Implements, Sequential!Next
<1>7. CASE Readable(streams, file)
  <2>1. ReadingText /\ FileInv /\ BufferAgrees /\ InReach
    BY <1>1, <1>7 DEF ReadingText, SeqInvs, SequenceInv
  <2>2. /\ Moved /\ Bytes' = Bytes /\ Readable(streams, file)' /\ At' =< Len(Bytes)
        /\ Here' = Here
    BY <1>1, <2>1, FetchReaches
  <2>3. Sees(Bytes, Here, Filled) /\ Bytes \in Seq(Byte)
    BY <1>7, <2>1, FetchSees, OpenFacts
  <2>4. InReach'
    <3>1. ~Writable(streams, file)' /\ file'.h # 0
      BY <2>2 DEF Readable, Writable
    <3>2. (At =< Len(Bytes))'
      BY <2>2
    <3> QED BY <3>1, <3>2 DEF InReach
  <2>5. /\ UNCHANGED <<Contents, CutFiles, OpenOn, NoneLeft, ElementsRead>>
        /\ file'.path = file.path
    BY <1>1, <1>2, <1>4, <2>1, <2>2, SameContents, SameOpen, NoneLeftOfText, SamePath
  <2>6. Sequential!Text = Bytes /\ Sequential!Reading /\ Sequential!Length = Len(Bytes)
    BY <2>1, TextView
  <2>7. CASE TextEof
    <3>1. answer' = Answer("eof", Truth(Filled.eof))
      BY <2>7 DEF TextEof, AskText
    <3>2. Truth(Filled.eof) = Sequential!Truth(ElementsRead = Sequential!Length)
      BY <1>4, <2>3, <2>6 DEF Sees, Truth, Sequential!Truth
    <3>3. Sequential!Eof
      BY <1>1, <1>2, <2>5, <2>6, <3>1, <3>2
         DEF Sequential!Eof, Sequential!Kept, Sequential!Answered, Answer
    <3> QED BY <1>5, <2>4, <3>3 DEF Implements, Sequential!Next
  <2>8. CASE Eoln
    <3>1. answer' = Answer("eoln", Truth(Filled.eoln))
      BY <2>8 DEF Eoln, AskText
    <3>2. Truth(Filled.eoln) = Sequential!Truth(\/ ElementsRead = Sequential!Length
                                                \/ Sequential!Text[ElementsRead + 1] = Newline)
      BY <1>4, <2>3, <2>6 DEF Sees, Flag, Truth, Sequential!Truth
    <3>3. Sequential!Eoln
      BY <1>1, <1>2, <2>5, <2>6, <3>1, <3>2
         DEF Sequential!Eoln, Sequential!Kept, Sequential!Answered, Answer
    <3> QED BY <1>5, <2>4, <3>3 DEF Implements, Sequential!Next
  <2> QED BY <2>7, <2>8
<1> QED
  BY <1>6, <1>7

LEMMA WriteTextImplements ==
    ASSUME SeqInvs, FileInv', WriteText
    PROVE  SequenceInv' /\ Implements
<1>1. /\ kind = "text" /\ ~Busy /\ Writable(streams, file)
      /\ UNCHANGED <<kind, streams, file, job, before, answer>>
  BY DEF WriteText, Idle, Busy
<1>2. PICK data \in Data(kind) : disk' = Extended(disk, streams, file, data)
  <2>1. PICK first, second \in Texts, newline \in BOOLEAN :
            disk' = Extended(disk, streams, file,
                             first \o second \o IF newline THEN <<Newline>> ELSE <<>>)
    BY DEF WriteText
  <2>2. PICK end \in {<<>>, <<Newline>>} : end = IF newline THEN <<Newline>> ELSE <<>>
    OBVIOUS
  <2>3. first \o second \o end \in Data("text")
    <3> DEFINE Ends == {<<>>, <<Newline>>}
               Lines == {a \o b \o c : a, b \in Texts, c \in Ends}
    <3>1. Data("text") = Lines
      BY DEF Data
    <3>2. end \in Ends
      OBVIOUS
    <3>3. first \o second \o end \in Lines
      <4> HIDE DEF Ends
      <4> QED BY <3>2
    <3> HIDE DEF Lines
    <3> QED BY <3>1, <3>3
  <2>4. first \o second \o (IF newline THEN <<Newline>> ELSE <<>>) \in Data("text")
    BY <2>2, <2>3
  <2> QED BY <1>1, <2>1, <2>4
<1> DEFINE q == streams[file.h].path
<1>3. /\ q \in Paths /\ OpenOn.path = q /\ OpenOn.mode = "writing" /\ disk[q] = Bytes
      /\ Bytes # Missing /\ file.h # 0
  BY <1>1, OpenFacts DEF SeqInvs, Writable
<1>4. disk' = [disk EXCEPT ![q] = disk[q] \o data] /\ DOMAIN disk = Paths
  BY <1>2 DEF Extended, SeqInvs, FileInv, SlotsTypeOK
<1> HIDE DEF q
<1>5. disk'[q] = disk[q] \o data /\ \A p \in Paths : p # q => disk'[p] = disk[p]
  BY <1>3, <1>4
<1>6. disk'[q] # Missing
  <2>1. OnAFile(disk', streams', file')
    BY DEF FileInv, OnAFile
  <2>2. disk'[q] \in Seq(Byte)
    BY <1>1, <1>3, <2>1 DEF OnAFile, q
  <2> QED BY <2>2, FileAssumption
<1>7. Contents' = [Contents EXCEPT ![q] = @ \o data]
  <2>1. \A p \in Paths : Contents[p] = IF disk[p] = Missing THEN Missing ELSE disk[p]
    BY <1>1 DEF Contents, Elements
  <2>2. Contents' = [p \in Paths |-> IF disk'[p] = Missing THEN Missing ELSE disk'[p]]
    BY <1>1 DEF Contents, Elements
  <2>3. DOMAIN Contents = Paths
    BY DEF Contents
  <2>4. Contents = [p \in Paths |-> Contents[p]]
    BY DEF Contents
  <2>5. \A p \in Paths : (IF disk'[p] = Missing THEN Missing ELSE disk'[p])
                             = IF p = q THEN Contents[p] \o data ELSE Contents[p]
    BY <1>3, <1>5, <1>6, <2>1
  <2> QED BY <2>2, <2>3, <2>4, <2>5
<1>8. CutFiles = {} /\ CutFiles' = {}
  BY <1>1 DEF CutFiles
<1>9. UNCHANGED <<OpenOn, NoneLeft, ElementsRead>>
  <2>1. Here' = Here
    BY <1>1 DEF Here, Pos
  <2> QED BY <1>1, <2>1, NoneLeftOfText DEF OpenOn, ElementsRead, Place, Busy
<1>10. Sequential!Write
  BY <1>1, <1>2, <1>3, <1>7, <1>8, <1>9 DEF Sequential!Write, Sequential!Kept
<1>11. InReach'
  <2>1. ~Readable(streams, file)
    BY <1>1 DEF Readable, Writable
  <2> QED BY <1>1, <2>1 DEF SeqInvs, SequenceInv, InReach, Readable, Writable, Busy, At, Pos
<1>12. SequenceInv'
  <2>1. kind' = "text" /\ TextReadSoFar'
    BY <1>1 DEF TextReadSoFar, Busy, TextLabels
  <2> QED BY <1>11, <2>1, TextInv
<1> QED
  BY <1>10, <1>12 DEF Implements, Sequential!Next

LEMMA TextStepImplements ==
    ASSUME SeqInvs, FileInv', TextStep
    PROVE  SequenceInv' /\ Implements
  BY BeginReadImplements, ReadStepImplements, ClosedReadImplements, AskImplements,
     WriteTextImplements DEF TextStep


---------------------------------------------------------------------------
(* Integers.                                                                *)

LEMMA FullFacts ==
    /\ Radix \in Nat /\ Radix > 0
    /\ Half \in Nat /\ Half > 0 /\ Full = 2 * Half
<1>1. Radix \in Nat /\ Radix >= 2 /\ Radix = 2 * (Radix \div 2)
  BY FileAssumption
<1> DEFINE k == Radix \div 2
           a == k * Radix
           b == a * Radix
           c == b * Radix
<1>2. k \in Nat /\ k >= 1
  BY <1>1
<1>3. a \in Nat /\ a >= 1
  <2> HIDE DEF k
  <2> QED BY <1>1, <1>2 DEF a
<1>4. b \in Nat /\ b >= 1
  <2> HIDE DEF a
  <2> QED BY <1>1, <1>3 DEF b
<1>5. c \in Nat /\ c >= 1
  <2> HIDE DEF b
  <2> QED BY <1>1, <1>4 DEF c
<1>6. Full = 2 * c
  <2>1. Full = (2 * k) * Radix * Radix * Radix
    BY <1>1 DEF Full
  <2> HIDE DEF k
  <2> QED BY <1>1, <1>2, <2>1
<1> HIDE DEF c
<1>7. Half = c
  BY <1>5, <1>6 DEF Half
<1> QED
  BY <1>1, <1>5, <1>6, <1>7

(* Wrapping changes a number by a multiple of what four bytes hold, and     *)
(* numbers that differ by one wrap to the same.                             *)
LEMMA WrappedFacts ==
    ASSUME NEW n \in Int
    PROVE  /\ \E q \in Int : Wrapped(n) = n + Full * q
           /\ Wrapped(n) \in -Half..Half - 1
<1>1. Full \in Nat /\ Full > 0 /\ Half \in Nat /\ Full = 2 * Half
  BY FullFacts
<1> DEFINE x == n + Half
           q == x \div Full
           r == x % Full
<1>2. x \in Int
  BY <1>1
<1>3. x = Full * q + r /\ q \in Int /\ r \in 0..Full - 1
  <2> HIDE DEF x
  <2> QED BY <1>1, <1>2, DivMod
<1>4. Wrapped(n) = r - Half
  BY DEF Wrapped
<1> HIDE DEF q, r
<1>5. Wrapped(n) = n + Full * (0 - q)
  BY <1>1, <1>3, <1>4
<1>6. 0 - q \in Int
  BY <1>3
<1>7. Wrapped(n) \in -Half..Half - 1
  BY <1>1, <1>3, <1>4
<1> QED
  BY <1>5, <1>6, <1>7

LEMMA WrapsToSame ==
    ASSUME NEW n \in Int, NEW q \in Int, NEW w \in -Half..Half - 1, w = n + Full * q
    PROVE  Wrapped(n) = w
<1>1. Full \in Nat /\ Full > 0 /\ Half \in Nat /\ Full = 2 * Half
  BY FullFacts
<1>2. w + Half \in 0..Full - 1 /\ 0 - q \in Int
  BY <1>1
<1>3. n + Half = Full * (0 - q) + (w + Half)
  BY <1>1
<1>4. (n + Half) % Full = w + Half
  <2>1. (Full * (0 - q) + (w + Half)) % Full = w + Half
    BY <1>1, <1>2, DivUnique
  <2> QED BY <1>3, <2>1
<1> QED
  BY <1>1, <1>4 DEF Wrapped

LEMMA WrappedSums ==
    ASSUME NEW a \in Int, NEW b \in Int
    PROVE  Wrapped(Wrapped(a) + Wrapped(b)) = Wrapped(a + b)
<1>1. PICK p \in Int : Wrapped(a) = a + Full * p
  BY WrappedFacts
<1>2. PICK q \in Int : Wrapped(b) = b + Full * q
  BY WrappedFacts
<1>3. PICK r \in Int : Wrapped(Wrapped(a) + Wrapped(b)) = Wrapped(a) + Wrapped(b) + Full * r
  <2>1. Full \in Int
    BY FullFacts
  <2>2. Wrapped(a) + Wrapped(b) \in Int
    BY <1>1, <1>2, <2>1
  <2> QED BY <2>2, WrappedFacts
<1>4. Full \in Int /\ p + q + r \in Int /\ a + b \in Int
  BY FullFacts
<1>5. Wrapped(Wrapped(a) + Wrapped(b)) = (a + b) + Full * (p + q + r)
  BY <1>1, <1>2, <1>3, <1>4
<1>6. Wrapped(Wrapped(a) + Wrapped(b)) \in -Half..Half - 1
  BY <1>1, <1>2, <1>4, WrappedFacts
<1> QED
  BY <1>4, <1>5, <1>6, WrapsToSame

(* The division that rounds down.                                           *)
LEMMA FloorFacts ==
    ASSUME NEW n \in Int
    PROVE  /\ n = Radix * FloorDiv256(n) + ByteMod256(n)
           /\ FloorDiv256(n) \in Int /\ ByteMod256(n) \in 0..Radix - 1
<1>1. Radix \in Nat /\ Radix > 0
  BY FullFacts
<1>2. FloorDiv256(n) \in Int /\ ByteMod256(n) \in 0..Radix - 1
  BY BytesAreBytes DEF Byte
<1>3. CASE n >= 0
  <2>1. n = Radix * (n \div Radix) + (n % Radix) /\ n % Radix >= 0
    BY <1>1, DivMod
  <2>2. FloorDiv256(n) = n \div Radix /\ ByteMod256(n) = n % Radix
    BY <1>1, <1>3, <2>1 DEF FloorDiv256, ByteMod256, TruncDiv, TruncMod
  <2> QED BY <1>2, <2>1, <2>2
<1>4. CASE n < 0
  <2> DEFINE q == (-n) \div Radix
             r == (-n) % Radix
  <2>1. -n \in Int /\ -n = Radix * q + r /\ q \in Int /\ r \in 0..Radix - 1
    BY <1>1, DivMod
  <2>2. TruncDiv(n, Radix) = -q /\ TruncMod(n, Radix) = 0 - r
    <3>1. TruncMod(n, Radix) = -r
      BY <1>1, <1>4 DEF TruncMod
    <3>2. -r = 0 - r
      BY <2>1
    <3> QED BY <1>1, <1>4, <3>1, <3>2 DEF TruncDiv
  <2> HIDE DEF q, r
  <2>3. CASE r = 0
    <3>0. TruncMod(n, Radix) = 0
      BY <2>2, <2>3
    <3>1. FloorDiv256(n) = -q /\ ByteMod256(n) = 0
      BY <2>2, <3>0 DEF FloorDiv256, ByteMod256
    <3> QED BY <1>1, <1>2, <2>1, <2>3, <3>1
  <2>4. CASE r > 0
    <3>1. FloorDiv256(n) = -q - 1 /\ ByteMod256(n) = Radix - r
      BY <1>1, <1>4, <2>1, <2>2, <2>4 DEF FloorDiv256, ByteMod256
    <3>2. n = Radix * (-q - 1) + (Radix - r)
      BY <1>1, <2>1
    <3> QED BY <1>2, <3>1, <3>2
  <2> QED BY <2>1, <2>3, <2>4
<1> QED
  BY <1>3, <1>4

(* What four bytes add up to.                                               *)
Sum4(a, b, c, d) == a + Radix * (b + Radix * (c + Radix * d))
Signed(n) == IF n >= Half THEN n - Full ELSE n

LEMMA SumFacts ==
    ASSUME NEW a \in Byte, NEW b \in Byte, NEW c \in Byte, NEW d \in Byte
    PROVE  /\ Sum4(a, b, c, d) \in 0..Full - 1
           /\ Sum4(a, b, c, d) = ((a + b * Radix) + c * (Radix * Radix))
                                 + d * (Radix * Radix * Radix)
<1>1. Radix \in Nat /\ Radix > 0
  BY FullFacts
<1>2. ASSUME NEW m \in Nat, NEW x \in 0..m - 1, NEW y \in Byte
      PROVE  y + Radix * x \in 0..Radix * m - 1
  <2>1. x + 1 =< m /\ y =< Radix - 1 /\ y \in Nat /\ x \in Nat
    BY <1>1 DEF Byte
  <2>2. Radix * (x + 1) =< Radix * m
    BY <1>1, <2>1
  <2>3. Radix * (x + 1) = Radix * x + Radix /\ Radix * x \in Nat /\ Radix * m \in Nat
    BY <1>1, <2>1
  <2> QED BY <1>1, <2>1, <2>2, <2>3
<1>3. d \in 0..Radix - 1
  BY DEF Byte
<1>4. c + Radix * d \in 0..Radix * Radix - 1
  BY <1>1, <1>2, <1>3
<1> DEFINE x == c + Radix * d
           R2 == Radix * Radix
           R3 == Radix * R2
<1>5. b + Radix * x \in 0..R3 - 1
  <2>1. R2 \in Nat
    BY <1>1
  <2> HIDE DEF x, R2
  <2> QED BY <1>2, <1>4, <2>1 DEF x, R2
<1> DEFINE y == b + Radix * x
<1>6. a + Radix * y \in 0..Radix * R3 - 1
  <2>1. R3 \in Nat
    BY <1>1
  <2> HIDE DEF y, R3
  <2> QED BY <1>2, <1>5, <2>1 DEF y
<1>7. Radix * R3 = Full
  BY <1>1 DEF Full
<1>8. Sum4(a, b, c, d) = a + Radix * y
  BY DEF Sum4
<1>9. a \in Int /\ b \in Int /\ c \in Int /\ d \in Int
  BY <1>1 DEF Byte
<1>10. Sum4(a, b, c, d) = ((a + b * Radix) + c * (Radix * Radix)) + d * (Radix * Radix * Radix)
  BY <1>1, <1>9 DEF Sum4
<1> QED
  BY <1>6, <1>7, <1>8, <1>10

LEMMA WrappedIsSigned == ASSUME NEW n \in 0..Full - 1 PROVE Wrapped(n) = Signed(n)
<1>1. Full \in Nat /\ Full > 0 /\ Half \in Nat /\ Full = 2 * Half
  BY FullFacts
<1>2. CASE n >= Half
  <2>1. n - Full \in -Half..Half - 1 /\ n - Full = n + Full * (-1)
    BY <1>1, <1>2
  <2> QED BY <1>2, <2>1, WrapsToSame DEF Signed
<1>3. CASE n < Half
  <2>1. n \in -Half..Half - 1 /\ n = n + Full * 0
    BY <1>1, <1>3
  <2>2. Signed(n) = n
    BY <1>1, <1>3 DEF Signed
  <2>3. Wrapped(n) = n
    BY <2>1, WrapsToSame
  <2> QED BY <2>2, <2>3
<1> QED
  BY <1>1, <1>2, <1>3

(* The four bytes of an integer.                                            *)
IntByte(n, i) == IntPieces(n)[i][1]
LEMMA IntegerIsRestored ==
    ASSUME NEW n \in -Half..Half - 1
    PROVE  /\ \A i \in 1..4 : IntByte(n, i) \in Byte /\ IntPieces(n)[i] = <<IntByte(n, i)>>
           /\ Signed(Sum4(IntByte(n, 1), IntByte(n, 2), IntByte(n, 3), IntByte(n, 4))) = n
<1>1. Full \in Nat /\ Half \in Nat /\ Full = 2 * Half /\ Half > 0 /\ Radix \in Nat /\ n \in Int
  BY FullFacts
<1> DEFINE n1 == FloorDiv256(n)
           n2 == FloorDiv256(n1)
           n3 == FloorDiv256(n2)
           n4 == FloorDiv256(n3)
           a == ByteMod256(n)
           b == ByteMod256(n1)
           c == ByteMod256(n2)
           d == ByteMod256(n3)
           sum == Sum4(a, b, c, d)
<1>2. n = Radix * n1 + a /\ n1 \in Int /\ a \in Byte
  BY <1>1, FloorFacts DEF Byte
<1>3. n1 = Radix * n2 + b /\ n2 \in Int /\ b \in Byte
  BY <1>2, FloorFacts DEF Byte
<1>4. n2 = Radix * n3 + c /\ n3 \in Int /\ c \in Byte
  BY <1>3, FloorFacts DEF Byte
<1>5. n3 = Radix * n4 + d /\ n4 \in Int /\ d \in Byte
  BY <1>4, FloorFacts DEF Byte
<1>6. IntPieces(n) = <<<<a>>, <<b>>, <<c>>, <<d>>>>
  BY DEF IntPieces
<1> HIDE DEF n1, n2, n3, n4, a, b, c, d
<1>7. sum \in 0..Full - 1
  BY <1>2, <1>3, <1>4, <1>5, SumFacts
<1>8. n = Full * n4 + sum
  <2>1. a \in Int /\ b \in Int /\ c \in Int /\ d \in Int
    BY <1>1, <1>2, <1>3, <1>4, <1>5 DEF Byte
  <2>2. n = Radix * (Radix * (Radix * (Radix * n4 + d) + c) + b) + a
    BY <1>2, <1>3, <1>4, <1>5
  <2>3. n = (Radix * Radix * Radix * Radix) * n4 + (a + Radix * (b + Radix * (c + Radix * d)))
    BY <1>1, <1>5, <2>1, <2>2
  <2> QED BY <2>3 DEF Full, Sum4
<1> HIDE DEF sum
<1>9. n4 < 1
  <2> SUFFICES ASSUME n4 >= 1 PROVE FALSE
    BY <1>5
  <2>1. Full * n4 >= Full
    BY <1>1, <1>5
  <2> QED BY <1>1, <1>5, <1>7, <1>8, <2>1
<1>10. n4 > -2
  <2> SUFFICES ASSUME n4 =< -2 PROVE FALSE
    BY <1>5
  <2>1. Full * n4 =< Full * (-2)
    BY <1>1, <1>5
  <2> QED BY <1>1, <1>5, <1>7, <1>8, <2>1
<1>11. n4 = 0 \/ n4 = -1
  BY <1>5, <1>9, <1>10
<1>12. Signed(sum) = n
  <2>1. CASE n4 = 0
    BY <1>1, <1>7, <1>8, <2>1 DEF Signed
  <2>2. CASE n4 = -1
    <3>1. n = sum - Full
      BY <1>1, <1>7, <1>8, <2>2
    <3> QED BY <1>1, <1>7, <3>1 DEF Signed
  <2> QED BY <1>11, <2>1, <2>2
<1>13. IntByte(n, 1) = a /\ IntByte(n, 2) = b /\ IntByte(n, 3) = c /\ IntByte(n, 4) = d
  BY <1>6 DEF IntByte
<1>14. \A i \in 1..4 : IntByte(n, i) \in Byte /\ IntPieces(n)[i] = <<IntByte(n, i)>>
  <2>1. \A i \in 1..4 : i = 1 \/ i = 2 \/ i = 3 \/ i = 4
    OBVIOUS
  <2>2. /\ IntPieces(n)[1] = <<a>> /\ IntPieces(n)[2] = <<b>>
        /\ IntPieces(n)[3] = <<c>> /\ IntPieces(n)[4] = <<d>>
    BY <1>6
  <2> QED BY <1>2, <1>3, <1>4, <1>5, <1>13, <2>1, <2>2
<1> QED
  BY <1>12, <1>13, <1>14 DEF sum

---------------------------------------------------------------------------
(* Reals.                                                                   *)

LEMMA LengthIs ==
    ASSUME NEW S, NEW n \in Nat, NEW f \in [1..n -> S]
    PROVE  f \in Seq(S) /\ Len(f) = n
<1>1. f \in Seq(S)
  BY SeqDef
<1>2. Len(f) \in Nat /\ DOMAIN f = 1..Len(f) /\ DOMAIN f = 1..n
  BY <1>1, LenProperties
<1>3. PICK m \in Nat : m = Len(f)
  BY <1>2
<1>4. 1..m = 1..n
  BY <1>2, <1>3
<1>5. m = n
  BY <1>4
<1> QED
  BY <1>1, <1>3, <1>5

LastOf(text, n) ==
    /\ n \in 0..Len(text)
    /\ n = 0 \/ text[n] # Space
    /\ \A k \in n + 1..Len(text) : text[k] = Space

LEMMA LastExists == ASSUME NEW text \in Seq(Byte) PROVE \E n : LastOf(text, n)
<1> DEFINE S == {n \in 0..Len(text) : n = 0 \/ text[n] # Space}
<1>1. Len(text) \in Nat
  BY TextFacts
<1>2. S \in SUBSET Int /\ S # {} /\ \A n \in S : n <= Len(text)
  BY <1>1
<1>3. PICK n \in S : \A j \in S : j <= n
  <2>1. Len(text) \in Int
    BY <1>1
  <2> HIDE DEF S
  <2> QED BY <1>2, <2>1, GreatestExists
<1>4. \A k \in n + 1..Len(text) : text[k] = Space
  <2> SUFFICES ASSUME NEW k \in n + 1..Len(text), text[k] # Space PROVE FALSE
    OBVIOUS
  <2>1. k \in S /\ ~(k <= n)
    BY <1>1
  <2> QED BY <1>3, <2>1
<1>5. LastOf(text, n)
  BY <1>4 DEF LastOf
<1> QED
  BY <1>5

LEMMA OneLast ==
    ASSUME NEW text \in Seq(Byte), NEW m, NEW n, LastOf(text, m), LastOf(text, n)
    PROVE  m = n
<1>1. Len(text) \in Nat /\ m \in 0..Len(text) /\ n \in 0..Len(text)
  BY TextFacts DEF LastOf
<1>2. ASSUME NEW a \in 0..Len(text), NEW b \in 0..Len(text), a < b,
             LastOf(text, a), LastOf(text, b)
      PROVE  FALSE
  <2>1. b # 0 /\ b \in a + 1..Len(text)
    BY <1>1, <1>2
  <2> QED BY <1>2, <2>1 DEF LastOf
<1> QED
  BY <1>1, <1>2

LEMMA UnpaddedIs ==
    ASSUME NEW text \in Seq(Byte)
    PROVE  \E n : LastOf(text, n) /\ Unpadded(text) = SubSeq(text, 1, n)
<1> DEFINE n == CHOOSE i \in 0..Len(text) :
                    /\ i = 0 \/ text[i] # Space
                    /\ \A k \in i + 1..Len(text) : text[k] = Space
<1>1. \E i \in 0..Len(text) : /\ i = 0 \/ text[i] # Space
                              /\ \A k \in i + 1..Len(text) : text[k] = Space
  BY LastExists DEF LastOf
<1>2. LastOf(text, n)
  BY <1>1 DEF LastOf
<1>3. Unpadded(text) = SubSeq(text, 1, n)
  BY DEF Unpadded
<1> QED
  BY <1>2, <1>3

LEMMA UnpaddedIsText == ASSUME NEW text \in Seq(Byte) PROVE Unpadded(text) \in Seq(Byte)
<1>1. PICK n : LastOf(text, n) /\ Unpadded(text) = SubSeq(text, 1, n)
  BY UnpaddedIs
<1>2. Len(text) \in Nat /\ n \in Nat /\ n =< Len(text) /\ 0 \in Nat /\ 0 + 1 = 1
  BY <1>1, TextFacts DEF LastOf
<1>3. SubSeq(text, 0 + 1, n) \in Seq(Byte)
  BY <1>2, PieceFacts
<1> QED
  BY <1>1, <1>2, <1>3

(* A real that is written is read back.                                     *)
LEMMA RealIsRestored ==
    ASSUME NEW v \in Seq(Byte), Len(v) =< FieldWidth, \A j \in DOMAIN v : v[j] # Space
    PROVE  /\ Padded(v) \in Seq(Byte) /\ Len(Padded(v)) = FieldWidth
           /\ Unpadded(Padded(v)) = v
<1> DEFINE m == FieldWidth - Len(v)
           blanks == [k \in 1..m |-> Space]
           p == Padded(v)
<1>1. /\ FieldWidth \in Nat /\ Len(v) \in Nat /\ m \in Nat /\ Space \in Byte
      /\ DOMAIN v = 1..Len(v)
  BY TypedAssumption, FileAssumption, TextFacts
<1>2. blanks \in Seq(Byte) /\ Len(blanks) = m /\ \A i \in 1..m : blanks[i] = Space
  <2> HIDE DEF m
  <2>1. blanks \in [1..m -> Byte]
    BY <1>1
  <2>2. \A i \in 1..m : blanks[i] = Space
    OBVIOUS
  <2> HIDE DEF blanks
  <2> QED BY <1>1, <2>1, <2>2, LengthIs
<1>3. p = v \o blanks
  BY DEF Padded
<1> HIDE DEF blanks, p
<1>4. /\ p \in Seq(Byte) /\ Len(p) = Len(v) + m
      /\ \A i \in 1..Len(v) + m : p[i] = IF i <= Len(v) THEN v[i] ELSE blanks[i - Len(v)]
  <2>1. /\ v \o blanks \in Seq(Byte) /\ Len(v \o blanks) = Len(v) + Len(blanks)
        /\ \A i \in 1..Len(v) + Len(blanks) :
             (v \o blanks)[i] = IF i <= Len(v) THEN v[i] ELSE blanks[i - Len(v)]
    BY <1>2, ConcatProperties
  <2> HIDE DEF m
  <2> QED BY <1>2, <1>3, <2>1
<1>5. Len(p) = FieldWidth
  BY <1>1, <1>4
<1>6. LastOf(p, Len(v))
  <2>1. Len(v) \in 0..Len(p)
    BY <1>1, <1>5
  <2>2. Len(v) = 0 \/ p[Len(v)] # Space
    <3> SUFFICES ASSUME Len(v) # 0 PROVE p[Len(v)] # Space
      OBVIOUS
    <3>1. Len(v) \in 1..Len(v) + m /\ Len(v) \in 1..Len(v)
      BY <1>1
    <3>2. p[Len(v)] = v[Len(v)]
      BY <1>1, <1>4, <3>1
    <3> QED BY <1>1, <3>1, <3>2
  <2>3. \A k \in Len(v) + 1..Len(p) : p[k] = Space
    <3> TAKE k \in Len(v) + 1..Len(p)
    <3>1. k \in 1..Len(v) + m /\ ~(k <= Len(v)) /\ k - Len(v) \in 1..m
      BY <1>1, <1>4
    <3> QED BY <1>2, <1>4, <3>1
  <2> QED BY <2>1, <2>2, <2>3 DEF LastOf
<1>7. PICK n : LastOf(p, n) /\ Unpadded(p) = SubSeq(p, 1, n)
  BY <1>4, UnpaddedIs
<1>8. n = Len(v)
  BY <1>4, <1>6, <1>7, OneLast
<1>9. SubSeq(p, 1, Len(v)) = v
  <2>1. 0 \in Nat /\ 0 + 1 = 1 /\ Len(v) =< Len(p)
    BY <1>1, <1>5
  <2>2. /\ SubSeq(p, 0 + 1, Len(v)) \in Seq(Byte)
        /\ Len(SubSeq(p, 0 + 1, Len(v))) = IF 0 < Len(v) THEN Len(v) - 0 ELSE 0
        /\ \A i \in 1..Len(v) - 0 : SubSeq(p, 0 + 1, Len(v))[i] = p[0 + i]
    BY <1>1, <1>4, <2>1, PieceFacts
  <2>3. SubSeq(p, 1, Len(v)) \in Seq(Byte) /\ Len(SubSeq(p, 1, Len(v))) = Len(v)
    BY <1>1, <2>1, <2>2
  <2>4. \A i \in 1..Len(v) : SubSeq(p, 1, Len(v))[i] = v[i]
    <3> TAKE i \in 1..Len(v)
    <3>1. i \in 1..Len(v) - 0 /\ 0 + i = i /\ i \in 1..Len(v) + m /\ i <= Len(v)
      BY <1>1
    <3> QED BY <1>4, <2>1, <2>2, <3>1
  <2> QED BY <2>3, <2>4, SeqEqual
<1> QED
  BY <1>4, <1>5, <1>7, <1>8, <1>9 DEF p

---------------------------------------------------------------------------
(* Fields.                                                                  *)

LEMMA FieldIsTyped ==
    ASSUME NEW sort \in FieldSorts, NEW b \in Seq(Byte), Len(b) = Width(sort)
    PROVE  Field(sort, b) \in Seq(Int)
<1>1. Radix \in Nat /\ Full \in Int /\ Half \in Int
  BY FullFacts
<1>2. Seq(Byte) \subseteq Seq(Int)
  <2>1. Byte \subseteq Int
    BY <1>1 DEF Byte
  <2> QED BY <2>1, SeqMonotonic
<1>3. CASE sort = "integer"
  <2>1. 4 = Len(b)
    BY <1>3 DEF Width
  <2>2. b[1] \in Int /\ b[2] \in Int /\ b[3] \in Int /\ b[4] \in Int
    <3>1. \A i \in 1..Len(b) : b[i] \in Nat
      BY TextFacts
    <3>2. 1 \in 1..Len(b) /\ 2 \in 1..Len(b) /\ 3 \in 1..Len(b) /\ 4 \in 1..Len(b)
      BY <2>1
    <3> QED BY <3>1, <3>2
  <2>3. SignedLE(b) \in Int
    <3> DEFINE sum == b[1] + Radix * (b[2] + Radix * (b[3] + Radix * b[4]))
    <3>1. sum \in Int
      BY <1>1, <2>2
    <3>2. SignedLE(b) = IF sum >= Half THEN sum - Full ELSE sum
      BY DEF SignedLE
    <3> HIDE DEF sum
    <3> QED BY <1>1, <3>1, <3>2
  <2>4. Field(sort, b) = <<SignedLE(b)>>
    BY <1>3 DEF Field
  <2> QED BY <2>3, <2>4
<1>4. CASE sort = "char"
  BY <1>2, <1>4 DEF Field
<1>5. CASE sort = "real"
  BY <1>2, <1>5, UnpaddedIsText DEF Field
<1> QED
  BY <1>3, <1>4, <1>5 DEF FieldSorts

(* A field that is written is read back.                                    *)
LEMMA FieldIsRestored ==
    ASSUME NEW v \in Values, NEW k \in 1..Len(Component)
    PROVE  /\ Encoded(Component[k], v[k]) \in Seq(Byte)
           /\ Len(Encoded(Component[k], v[k])) = Width(Component[k])
           /\ Field(Component[k], Encoded(Component[k], v[k])) = v[k]
<1>1. /\ Component[k] \in FieldSorts /\ k \in DOMAIN Component
      /\ v[k] \in FieldValues(Component[k])
  BY ComponentFacts, TypedAssumption
<1> DEFINE w == v[k]
<1>2. CASE Component[k] = "integer"
  <2> DEFINE n == w[1]
             e == [i \in 1..4 |-> IntByte(n, i)]
  <2>1. n \in -Half..Half - 1 /\ w \in [1..1 -> Int]
    BY <1>1, <1>2, ValuesAssumption DEF FieldValues
  <2>2. Encoded(Component[k], w) = e
    BY <1>2 DEF Encoded, IntByte
  <2> HIDE DEF n, w
  <2>3. /\ \A i \in 1..4 : IntByte(n, i) \in Byte
        /\ Signed(Sum4(IntByte(n, 1), IntByte(n, 2), IntByte(n, 3), IntByte(n, 4))) = n
    BY <2>1, IntegerIsRestored
  <2>4. e \in Seq(Byte) /\ Len(e) = 4
    <3>1. e \in [1..4 -> Byte]
      BY <2>3
    <3>2. 4 \in Nat
      OBVIOUS
    <3> HIDE DEF e
    <3> QED BY <3>1, <3>2, LengthIs
  <2>5. e[1] = IntByte(n, 1) /\ e[2] = IntByte(n, 2) /\ e[3] = IntByte(n, 3) /\ e[4] = IntByte(n, 4)
    OBVIOUS
  <2>6. SignedLE(e) = Signed(Sum4(e[1], e[2], e[3], e[4]))
    <3> HIDE DEF e
    <3> QED BY DEF SignedLE, Signed, Sum4
  <2>7. SignedLE(e) = n
    BY <2>3, <2>5, <2>6
  <2>8. <<n>> = w
    BY <2>1 DEF n
  <2>9. Field(Component[k], e) = <<SignedLE(e)>>
    BY <1>2 DEF Field
  <2>10. Width(Component[k]) = 4
    BY <1>2 DEF Width
  <2> HIDE DEF e
  <2> QED BY <2>2, <2>4, <2>7, <2>8, <2>9, <2>10 DEF w
<1>3. CASE Component[k] = "char"
  <2>1. w \in [1..1 -> Byte]
    BY <1>1, <1>3 DEF FieldValues
  <2>2. w \in Seq(Byte) /\ Len(w) = 1
    <3>1. 1 \in Nat
      OBVIOUS
    <3> HIDE DEF w
    <3> QED BY <2>1, <3>1, LengthIs
  <2>3. Encoded(Component[k], w) = w /\ Field(Component[k], w) = w /\ Width(Component[k]) = 1
    BY <1>3 DEF Encoded, Field, Width
  <2> QED BY <2>2, <2>3
<1>4. CASE Component[k] = "real"
  <2>1. w \in Seq(Byte) /\ Len(w) =< FieldWidth /\ \A j \in DOMAIN w : w[j] # Space
    BY <1>1, <1>4, ValuesAssumption DEF FieldValues
  <2> HIDE DEF w
  <2>2. Padded(w) \in Seq(Byte) /\ Len(Padded(w)) = FieldWidth /\ Unpadded(Padded(w)) = w
    BY <2>1, RealIsRestored
  <2>3. Encoded(Component[k], w) = Padded(w) /\ Field(Component[k], Padded(w)) = Unpadded(Padded(w))
        /\ Width(Component[k]) = FieldWidth
    BY <1>4 DEF Encoded, Field, Width
  <2> QED BY <2>2, <2>3 DEF w
<1> QED
  BY <1>1, <1>2, <1>3, <1>4 DEF FieldSorts

---------------------------------------------------------------------------
(* Components.                                                              *)

LEMMA SizeFacts == Size \in Nat /\ Size > 0
  BY OffsetsAreIncreasing

(* The component that begins at a place is there, or the place is behind    *)
(* the last one.                                                            *)
LEMMA ComponentAtPlace ==
    ASSUME NEW n \in Nat, NEW start \in 0..n, start % Size = 0
    PROVE  /\ start \div Size \in Nat /\ n \div Size \in Nat
           /\ start = (start \div Size) * Size
           /\ (start + Size) \div Size = start \div Size + 1 /\ (start + Size) % Size = 0
           /\ start + Size =< n => start \div Size < n \div Size
           /\ ~(start + Size =< n) => start \div Size = n \div Size
           /\ ~(start + Size =< n) /\ start # n => n % Size # 0
<1>1. PICK c \in Int : c = start \div Size /\ start = Size * c + (start % Size)
  BY SizeFacts, DivMod
<1>2. start = Size * c
  BY <1>1, SizeFacts
<1>3. PICK q, r \in Int : q = n \div Size /\ r = n % Size /\ n = Size * q + r /\ r \in 0..Size - 1
  BY SizeFacts, DivMod
<1>4. c >= 0
  <2> SUFFICES ASSUME c =< -1 PROVE FALSE
    OBVIOUS
  <2>1. Size * c =< Size * (-1)
    BY SizeFacts
  <2> QED BY <1>2, <2>1, SizeFacts
<1>5. q >= 0
  <2> SUFFICES ASSUME q =< -1 PROVE FALSE
    OBVIOUS
  <2>1. Size * q =< Size * (-1)
    BY SizeFacts
  <2> QED BY <1>3, <2>1, SizeFacts
<1>6. start + Size = Size * (c + 1) + 0 /\ c + 1 \in Int /\ 0 \in 0..Size - 1
  BY <1>2, SizeFacts
<1>7. (start + Size) \div Size = c + 1 /\ (start + Size) % Size = 0
  BY <1>6, SizeFacts, DivUnique
<1>8. ASSUME start + Size =< n PROVE c < q
  <2> SUFFICES ASSUME q =< c PROVE FALSE
    OBVIOUS
  <2>1. Size * q =< Size * c
    BY SizeFacts
  <2>2. Size * q \in Int /\ Size * c \in Int
    BY SizeFacts
  <2> QED BY <1>2, <1>3, <1>8, <2>1, <2>2, SizeFacts
<1>9. ASSUME ~(start + Size =< n) PROVE q = c /\ r = n - start
  <2>1. n = Size * c + (n - start) /\ n - start \in 0..Size - 1
    BY <1>2, <1>9, SizeFacts
  <2>2. PICK d \in 0..Size - 1 : d = n - start
    BY <2>1
  <2>3. (Size * c + d) % Size = d /\ (Size * c + d) \div Size = c
    BY SizeFacts, DivUnique
  <2> QED BY <1>3, <2>1, <2>2, <2>3
<1>10. start = c * Size
  BY <1>2, SizeFacts
<1> QED
  BY <1>1, <1>3, <1>4, <1>5, <1>7, <1>8, <1>9, <1>10

LEMMA PlaceOfComponent ==
    ASSUME NEW n \in Nat, NEW c \in 1..n \div Size
    PROVE  (c - 1) * Size \in Nat /\ (c - 1) * Size + Size =< n
<1>1. PICK q, r \in Int : q = n \div Size /\ n = Size * q + r /\ r \in 0..Size - 1
  BY SizeFacts, DivMod
<1>2. c \in Nat /\ 1 <= c /\ c <= q
  BY <1>1
<1>3. Size * c =< Size * q /\ Size * (c - 1) >= 0
  BY <1>2, SizeFacts
<1>4. (c - 1) * Size = Size * (c - 1) /\ Size * (c - 1) + Size = Size * c
      /\ Size * q \in Int /\ Size * c \in Int /\ Size * (c - 1) \in Int
  BY <1>2, SizeFacts
<1> QED
  BY <1>1, <1>3, <1>4

(* The bytes of a field.                                                    *)
LEMMA FieldPlaces ==
    ASSUME NEW s \in Seq(Byte), NEW start \in Nat, NEW k \in 1..Len(Component),
           start + Offset[k] =< Len(s)
    PROVE  LET b == SubSeq(s, start + Offset[k - 1] + 1, start + Offset[k])
           IN  /\ b \in Seq(Byte) /\ Len(b) = Width(Component[k])
               /\ \A i \in 1..Width(Component[k]) : b[i] = s[start + Offset[k - 1] + i]
<1>1. /\ Offset[k - 1] \in Nat /\ Offset[k] \in Nat
      /\ Offset[k] = Offset[k - 1] + Width(Component[k]) /\ Width(Component[k]) \in Nat \ {0}
  <2>1. k - 1 \in 0..Len(Component) /\ k \in 0..Len(Component)
    BY ComponentFacts
  <2> QED BY <2>1, ComponentFacts, OffsetsAreIncreasing
<1>2. PICK a, w \in Nat : a = start + Offset[k - 1] /\ w = Width(Component[k]) /\ w > 0
  BY <1>1
<1>3. start + Offset[k] = a + w
  BY <1>1, <1>2
<1>4. Len(s) \in Nat /\ a + w \in Nat /\ a + w =< Len(s) /\ a < a + w /\ (a + w) - a = w
  BY <1>2, <1>3, TextFacts
<1>5. /\ SubSeq(s, a + 1, a + w) \in Seq(Byte)
      /\ Len(SubSeq(s, a + 1, a + w)) = w
      /\ \A i \in 1..w : SubSeq(s, a + 1, a + w)[i] = s[a + i]
  BY <1>4, PieceFacts
<1> QED
  BY <1>2, <1>3, <1>5

(* A field depends on its bytes only.                                       *)
LEMMA SameField ==
    ASSUME NEW s \in Seq(Byte), NEW t \in Seq(Byte), NEW start \in Nat,
           NEW k \in 1..Len(Component),
           start + Offset[k] =< Len(s), start + Offset[k] =< Len(t),
           \A i \in 1..Len(s) : i <= Len(t) => t[i] = s[i]
    PROVE  FieldAt(t, start, k) = FieldAt(s, start, k)
<1> DEFINE b == SubSeq(s, start + Offset[k - 1] + 1, start + Offset[k])
           c == SubSeq(t, start + Offset[k - 1] + 1, start + Offset[k])
<1>1. PICK w \in Nat : w = Width(Component[k])
  BY ComponentFacts
<1>2. /\ b \in Seq(Byte) /\ Len(b) = w /\ c \in Seq(Byte) /\ Len(c) = w
      /\ \A i \in 1..w : b[i] = s[start + Offset[k - 1] + i]
      /\ \A i \in 1..w : c[i] = t[start + Offset[k - 1] + i]
  BY <1>1, FieldPlaces
<1>3. Offset[k - 1] \in Nat /\ Offset[k] = Offset[k - 1] + w /\ Offset[k] \in Nat
  <2>1. k - 1 \in 0..Len(Component) /\ k \in 0..Len(Component)
    BY ComponentFacts
  <2> QED BY <1>1, <2>1, OffsetsAreIncreasing
<1>4. Len(s) \in Nat /\ Len(t) \in Nat
  BY TextFacts
<1>5. \A i \in 1..w : c[i] = b[i]
  <2> TAKE i \in 1..w
  <2>1. start + Offset[k - 1] + i \in 1..Len(s) /\ start + Offset[k - 1] + i <= Len(t)
    BY <1>3, <1>4
  <2> HIDE DEF b, c
  <2> QED BY <1>2, <2>1
<1>6. b = c
  <2> HIDE DEF b, c
  <2> QED BY <1>2, <1>5, SeqEqual
<1> QED
  BY <1>6 DEF FieldAt

LEMMA SameFields ==
    ASSUME NEW s \in Seq(Byte), NEW t \in Seq(Byte), NEW start \in Nat,
           start + Size =< Len(s), start + Size =< Len(t),
           \A i \in 1..Len(s) : i <= Len(t) => t[i] = s[i]
    PROVE  FieldsUpTo(t, start, Len(Component)) = FieldsUpTo(s, start, Len(Component))
<1>1. \A k \in 1..Len(Component) : FieldAt(t, start, k) = FieldAt(s, start, k)
  <2> TAKE k \in 1..Len(Component)
  <2>1. Offset[k] \in Nat /\ Offset[k] =< Size
    BY ComponentFacts, OffsetsAreIncreasing DEF Size
  <2>2. Len(s) \in Nat /\ Len(t) \in Nat
    BY TextFacts
  <2>3. start + Offset[k] =< Len(s) /\ start + Offset[k] =< Len(t)
    BY <2>1, <2>2, SizeFacts
  <2> QED BY <2>3, SameField
<1> QED
  BY <1>1 DEF FieldsUpTo

LEMMA FieldsAreTyped ==
    ASSUME NEW s \in Seq(Byte), NEW start \in Nat, start + Size =< Len(s)
    PROVE  FieldsUpTo(s, start, Len(Component)) \in Seq(Seq(Int))
<1> DEFINE n == Len(Component)
           f == FieldsUpTo(s, start, n)
<1>1. n \in Nat
  BY ComponentFacts
<1>2. ASSUME NEW k \in 1..n PROVE FieldAt(s, start, k) \in Seq(Int)
  <2>1. Offset[k] \in Nat /\ Offset[k] =< Size
    BY ComponentFacts, OffsetsAreIncreasing DEF Size
  <2>2. start + Offset[k] =< Len(s)
    BY <2>1, SizeFacts, TextFacts
  <2> DEFINE b == SubSeq(s, start + Offset[k - 1] + 1, start + Offset[k])
  <2>3. b \in Seq(Byte) /\ Len(b) = Width(Component[k]) /\ Component[k] \in FieldSorts
    BY <2>2, FieldPlaces, ComponentFacts
  <2>4. FieldAt(s, start, k) = Field(Component[k], b)
    BY DEF FieldAt
  <2> HIDE DEF b
  <2> QED BY <2>3, <2>4, FieldIsTyped
<1>3. f \in [1..n -> Seq(Int)]
  BY <1>2 DEF FieldsUpTo
<1> HIDE DEF f, n
<1> QED
  BY <1>1, <1>3, LengthIs DEF f, n

LEMMA ComponentsFacts ==
    ASSUME NEW s \in Seq(Byte)
    PROVE  /\ Components(s) \in Seq(Seq(Seq(Int)))
           /\ Len(s) \div Size \in Nat /\ Len(Components(s)) = Len(s) \div Size
           /\ \A c \in 1..Len(s) \div Size :
                  Components(s)[c] = FieldsUpTo(s, (c - 1) * Size, Len(Component))
           /\ Components(s) # Missing
<1> DEFINE n == Len(s) \div Size
           F(c) == FieldsUpTo(s, (c - 1) * Size, Len(Component))
           f == [c \in 1..n |-> F(c)]
<1>1. Len(s) \in Nat /\ n \in Nat
  <2>1. Len(s) \in Nat /\ 0 \in 0..Len(s)
    BY TextFacts
  <2>2. 0 % Size = 0
    BY SizeFacts
  <2> QED BY <2>1, <2>2, ComponentAtPlace
<1>2. Components(s) = f
  BY ComponentFacts DEF Components, FieldsUpTo, FieldAt
<1>3. \A c \in 1..n : F(c) \in Seq(Seq(Int))
  BY <1>1, PlaceOfComponent, FieldsAreTyped
<1> HIDE DEF F, n
<1>4. f \in [1..n -> Seq(Seq(Int))] /\ \A c \in 1..n : f[c] = F(c)
  BY <1>3
<1> HIDE DEF f
<1>5. f \in Seq(Seq(Seq(Int))) /\ Len(f) = n
  BY <1>1, <1>4, LengthIs
<1> QED
  BY <1>1, <1>2, <1>4, <1>5, MissingAssumption DEF F, n

LEMMA NoComponents == Components(<<>>) = <<>>
<1>1. <<>> \in Seq(Byte) /\ Len(<<>>) = 0
  BY EmptySeq
<1>2. 0 \div Size = 0
  BY SizeFacts
<1>3. Components(<<>>) \in Seq(Seq(Seq(Int))) /\ Len(Components(<<>>)) = 0
  BY <1>1, <1>2, ComponentsFacts
<1> QED
  BY <1>3, EmptySeq

(* Bytes that complete no component change none.                            *)
LEMMA ComponentsKept ==
    ASSUME NEW s \in Seq(Byte), NEW t \in Seq(Byte), Len(s) =< Len(t),
           Len(t) \div Size = Len(s) \div Size, \A i \in 1..Len(s) : t[i] = s[i]
    PROVE  Components(t) = Components(s)
<1> DEFINE n == Len(s) \div Size
<1>1. /\ Components(s) \in Seq(Seq(Seq(Int))) /\ Len(Components(s)) = n
      /\ Components(t) \in Seq(Seq(Seq(Int))) /\ Len(Components(t)) = n
  BY ComponentsFacts
<1>2. \A c \in 1..n : Components(t)[c] = Components(s)[c]
  <2> TAKE c \in 1..n
  <2> DEFINE start == (c - 1) * Size
  <2>1. start \in Nat /\ start + Size =< Len(s) /\ Len(s) \in Nat /\ Len(t) \in Nat
    BY TextFacts, PlaceOfComponent
  <2>2. /\ Components(s)[c] = FieldsUpTo(s, start, Len(Component))
        /\ Components(t)[c] = FieldsUpTo(t, start, Len(Component))
    BY ComponentsFacts
  <2> HIDE DEF start
  <2>3. start + Size =< Len(t)
    BY <2>1, SizeFacts
  <2> QED BY <2>1, <2>2, <2>3, SameFields
<1> HIDE DEF n
<1> QED
  BY <1>1, <1>2, SeqEqual

LEMMA ComponentAdded ==
    ASSUME NEW s \in Seq(Byte), NEW t \in Seq(Byte), NEW base \in Nat, base % Size = 0,
           base =< Len(s), Len(s) < base + Size, Len(t) = base + Size,
           \A i \in 1..Len(s) : t[i] = s[i]
    PROVE  /\ Components(t) = Components(s) \o <<FieldsUpTo(t, base, Len(Component))>>
           /\ Len(t) % Size = 0
<1> DEFINE n == Len(s) \div Size
           v == FieldsUpTo(t, base, Len(Component))
           l == Components(s) \o <<v>>
<1>1. Len(s) \in Nat /\ Len(t) \in Nat
  BY TextFacts
<1>2. base \in 0..Len(s) /\ ~(base + Size =< Len(s))
  BY <1>1, SizeFacts
<1>3. /\ n \in Nat /\ base \div Size = n /\ base = (base \div Size) * Size
      /\ (base + Size) \div Size = base \div Size + 1 /\ (base + Size) % Size = 0
  BY <1>1, <1>2, ComponentAtPlace
<1>4. Len(t) \div Size = n + 1 /\ Len(t) % Size = 0 /\ base = n * Size
  BY <1>3
<1>5. /\ Components(s) \in Seq(Seq(Seq(Int))) /\ Len(Components(s)) = n
      /\ Components(t) \in Seq(Seq(Seq(Int))) /\ Len(Components(t)) = n + 1
  BY <1>4, ComponentsFacts
<1>6. v \in Seq(Seq(Int))
  BY FieldsAreTyped, SizeFacts
<1> HIDE DEF v
<1>7. /\ <<v>> \in Seq(Seq(Seq(Int))) /\ Len(<<v>>) = 1 /\ <<v>>[1] = v
  BY <1>6
<1>8. /\ l \in Seq(Seq(Seq(Int))) /\ Len(l) = n + 1
      /\ \A i \in 1..n + 1 : l[i] = IF i <= n THEN Components(s)[i] ELSE <<v>>[i - n]
  <2>1. /\ l \in Seq(Seq(Seq(Int))) /\ Len(l) = Len(Components(s)) + Len(<<v>>)
        /\ \A i \in 1..Len(Components(s)) + Len(<<v>>) :
               l[i] = IF i <= Len(Components(s)) THEN Components(s)[i]
                      ELSE <<v>>[i - Len(Components(s))]
    BY <1>5, <1>7, ConcatProperties
  <2> HIDE DEF n, l
  <2> QED BY <1>5, <1>7, <2>1
<1>9. ASSUME NEW c \in 1..n + 1 PROVE Components(t)[c] = l[c]
  <2> DEFINE start == (c - 1) * Size
  <2>1. Components(t)[c] = FieldsUpTo(t, start, Len(Component))
    BY <1>4, ComponentsFacts
  <2>2. CASE c = n + 1
    <3>1. start = base
      <4>1. c - 1 = n
        BY <1>3, <2>2
      <4> QED BY <1>4, <4>1
    <3>2. ~(c <= n) /\ c - n = 1
      BY <1>3, <2>2
    <3>3. l[c] = v
      <4> HIDE DEF n, l
      <4> QED BY <1>7, <1>8, <3>2
    <3> QED BY <2>1, <3>1, <3>3 DEF v
  <2>3. CASE c # n + 1
    <3>1. c \in 1..n /\ c <= n
      BY <1>3, <2>3
    <3>2. start \in Nat /\ start + Size =< Len(s)
      BY <1>1, <3>1, PlaceOfComponent
    <3>3. Components(s)[c] = FieldsUpTo(s, start, Len(Component))
      BY <3>1, ComponentsFacts
    <3>4. l[c] = Components(s)[c]
      <4> HIDE DEF n, l
      <4> QED BY <1>8, <3>1
    <3> HIDE DEF start
    <3>5. start + Size =< Len(t)
      BY <1>1, <1>2, <3>2, SizeFacts
    <3> QED BY <2>1, <3>2, <3>3, <3>4, <3>5, SameFields
  <2> QED BY <2>2, <2>3
<1> HIDE DEF n, l
<1>10. Components(t) = l
  BY <1>5, <1>8, <1>9, SeqEqual
<1> QED
  BY <1>4, <1>10 DEF l, v

---------------------------------------------------------------------------
(* Naming, opening and closing.                                             *)

LEMMA ClosedSequence ==
    ASSUME file'.h = 0, job'.at = "idle"
    PROVE  SequenceInv'
<1>1. ~Readable(streams, file)' /\ ~Writable(streams, file)' /\ ~Busy'
  BY DEF Readable, Writable, Busy
<1> QED
  BY <1>1 DEF SequenceInv, InReach, TextReadSoFar, AtAComponent, FieldsReadSoFar,
              WholeComponents, WrittenSoFar, TextLabels, FieldLabels

LEMMA SameSlots ==
    ASSUME SequenceInv, UNCHANGED <<kind, disk, streams, job, before>>,
           file'.h = file.h, file'.peek = file.peek, file'.eof = file.eof
    PROVE  SequenceInv' /\ UNCHANGED <<Contents, CutFiles, OpenOn, ElementsRead, NoneLeft>>
<1>1. /\ Here' = Here /\ Bytes' = Bytes /\ At' = At /\ (Busy' <=> Busy)
      /\ Readable(streams, file)' <=> Readable(streams, file)
      /\ Writable(streams, file)' <=> Writable(streams, file)
  BY DEF Here, Bytes, At, Busy, Readable, Writable, Pos, Content
<1>2. UNCHANGED <<Contents, CutFiles, OpenOn>>
  BY SameContents DEF OpenOn
<1>3. Place' = Place
  BY <1>1 DEF Place
<1>4. UNCHANGED <<ElementsRead, NoneLeft>>
  BY <1>3 DEF ElementsRead, NoneLeft
<1>5. InReach' /\ AtAComponent' /\ WholeComponents'
  BY <1>1 DEF SequenceInv, InReach, AtAComponent, WholeComponents
<1>6. TextReadSoFar' /\ FieldsReadSoFar' /\ WrittenSoFar'
  BY <1>1 DEF SequenceInv, TextReadSoFar, FieldsReadSoFar, WrittenSoFar
<1> QED
  BY <1>2, <1>4, <1>5, <1>6 DEF SequenceInv

LEMMA UseImplements == ASSUME SeqInvs, UseAnswer PROVE SequenceInv' /\ Implements
<1>1. UNCHANGED <<kind, disk, streams, file, job, before>> /\ answer' = NoAnswer
  BY DEF UseAnswer, slotVars
<1>2. SequenceInv' /\ UNCHANGED <<Contents, CutFiles, OpenOn, ElementsRead, NoneLeft>>
  BY <1>1, SameSlots DEF SeqInvs
<1>3. Sequential!Use
  BY <1>1, <1>2 DEF Sequential!Use, Sequential!Nothing, Sequential!Kept, NoAnswer
<1> QED
  BY <1>2, <1>3 DEF Implements, Sequential!Next

LEMMA AssignImplements == ASSUME SeqInvs, AssignFile PROVE SequenceInv' /\ Implements
<1>1. UNCHANGED <<kind, disk, streams, job, before, answer>>
  BY DEF AssignFile
<1>2. PICK p \in Paths : file' = [file EXCEPT !.path = p]
  BY DEF AssignFile
<1>3. /\ file'.path = p /\ file'.h = file.h /\ file'.peek = file.peek /\ file'.eof = file.eof
  BY <1>2 DEF SeqInvs, FileInv, SlotsTypeOK, Slots
<1>4. SequenceInv' /\ UNCHANGED <<Contents, CutFiles, OpenOn, ElementsRead, NoneLeft>>
  BY <1>1, <1>3, SameSlots DEF SeqInvs
<1>5. Sequential!Assign
  BY <1>1, <1>3, <1>4 DEF Sequential!Assign, Sequential!Kept
<1> QED
  BY <1>4, <1>5 DEF Implements, Sequential!Next

(* Nothing of a file that is closed has been read.                          *)
LEMMA ClosedView ==
    ASSUME file'.h = 0, job'.at = "idle"
    PROVE  /\ OpenOn' = Sequential!Closed /\ ElementsRead' = 0
           /\ NoneLeft' <=> (kind' = "typed" /\ file'.eof = 1)
<1>1. Here' = 0 /\ ~Busy'
  BY DEF Here, Busy
<1>2. (Place.pos)' = 0 /\ (Place.eof)' = file'.eof
  BY <1>1 DEF Place
<1>3. 0 \div Size = 0
  BY SizeFacts
<1>4. ElementsRead' = 0
  BY <1>2, <1>3 DEF ElementsRead
<1>5. NoneLeft' <=> (kind' = "typed" /\ file'.eof = 1)
  BY <1>2 DEF NoneLeft
<1>6. OpenOn' = Sequential!Closed
  BY DEF OpenOn, Sequential!Closed
<1> QED
  BY <1>4, <1>5, <1>6

LEMMA CloseImplements == ASSUME SeqInvs, CloseFile PROVE SequenceInv' /\ Implements
<1>1. /\ UNCHANGED <<kind, disk, job, before, answer>> /\ file' = CloseSlots(file)
      /\ job.at = "idle" /\ file \in Slots
  BY DEF CloseFile, Idle, SeqInvs, FileInv, SlotsTypeOK
<1>2. file'.h = 0 /\ file'.path = file.path /\ file'.eof = file.eof
  BY <1>1 DEF CloseSlots, Slots
<1>3. /\ SequenceInv' /\ OpenOn' = Sequential!Closed /\ ElementsRead' = 0
      /\ NoneLeft' <=> (kind' = "typed" /\ file'.eof = 1)
  BY <1>1, <1>2, ClosedSequence, ClosedView
<1>4. NoneLeft' = NoneLeft
  <2>1. Place.eof = file.eof
    BY <1>1 DEF Place, Busy
  <2>2. NoneLeft <=> (kind = "typed" /\ file.eof = 1)
    BY <2>1 DEF NoneLeft
  <2>3. NoneLeft' \in BOOLEAN /\ NoneLeft \in BOOLEAN
    BY DEF NoneLeft
  <2> QED BY <1>1, <1>2, <1>3, <2>2, <2>3
<1>5. Sequential!Close
  BY <1>1, <1>2, <1>3, <1>4, SameContents DEF Sequential!Close, Sequential!Kept
<1> QED
  BY <1>3, <1>5 DEF Implements, Sequential!Next

LEMMA RestartImplements == ASSUME SeqInvs, Restart PROVE SequenceInv' /\ Implements
<1>1. /\ UNCHANGED <<kind, disk>> /\ file' = NoSlots /\ job' = NoJob /\ answer' = NoAnswer
  BY DEF Restart
<1>2. file'.h = 0 /\ file'.path = NoPath /\ file'.eof = 0 /\ job'.at = "idle"
  BY <1>1 DEF NoSlots, NoJob
<1>3. /\ SequenceInv' /\ OpenOn' = Sequential!Closed /\ ElementsRead' = 0 /\ NoneLeft' = FALSE
  <2>1. NoneLeft' \in BOOLEAN
    BY DEF NoneLeft
  <2> QED BY <1>2, <2>1, ClosedSequence, ClosedView
<1>4. Sequential!Restart
  BY <1>1, <1>2, <1>3, SameContents
     DEF Sequential!Restart, Sequential!Nothing, Sequential!Kept, NoAnswer
<1> QED
  BY <1>3, <1>4 DEF Implements, Sequential!Next

(* A file just opened is at its beginning.                                  *)
LEMMA OpenedView ==
    ASSUME SeqInvs, FileInv', PeekIsRead', Idle, NEW f \in WithPath(file), NEW h \in Handles,
           NEW forRead \in BOOLEAN,
           streams' = [CloseStream(streams, f) EXCEPT ![h] =
               [path |-> f.path, mode |-> IF forRead THEN "reading" ELSE "writing", pos |-> 0]],
           file' = Opened(CloseSlots(f), h, forRead), kind' = kind, job' = job,
           ~forRead => disk'[f.path] = <<>>
    PROVE  /\ SequenceInv' /\ ElementsRead' = 0 /\ NoneLeft' = FALSE
           /\ file'.path = f.path
           /\ f.path = file.path \/ f.path \in Paths
           /\ OpenOn' = [path |-> f.path, mode |-> IF forRead THEN "reading" ELSE "writing"]
<1>1. file \in Slots /\ kind \in {"text", "typed"}
  BY DEF SeqInvs, FileInv, SlotsTypeOK
<1>2. f \in Slots /\ f.h = file.h /\ f.rd = file.rd
  BY <1>1, WithPathFacts
<1>3. f.path = file.path \/ f.path \in Paths
  BY <1>1 DEF WithPath, Slots
<1> DEFINE closed == CloseStream(streams, f)
           slots == CloseSlots(f)
           mode == IF forRead THEN "reading" ELSE "writing"
           new == [path |-> f.path, mode |-> mode, pos |-> 0]
<1>4. closed \in [Handles -> Stream] /\ slots \in Slots /\ slots.path = f.path
  BY <1>2, ClosedFacts DEF SeqInvs
<1>5. streams'[h] = new
  <2> HIDE DEF closed, new
  <2> QED BY <1>4 DEF closed, new
<1>6. new.path = f.path /\ new.mode = mode /\ new.pos = 0
  OBVIOUS
<1>7. /\ file' \in Slots /\ file'.h = h /\ file'.eof = 0 /\ file'.path = f.path
      /\ kind = "text" => file'.peek = <<>>
  <2>0. file' = Opened(slots, h, forRead)
    OBVIOUS
  <2> HIDE DEF slots
  <2>1. /\ Opened(slots, h, forRead) \in Slots /\ Opened(slots, h, forRead).h = h
        /\ Opened(slots, h, forRead).eof = 0
        /\ kind = "text" => Opened(slots, h, forRead).peek = <<>>
    BY <1>4, OpenedFacts
  <2>2. Opened(slots, h, forRead).path = slots.path
    BY <1>4 DEF Opened, Slots
  <2> QED BY <1>4, <2>0, <2>1, <2>2
<1> HIDE DEF closed, slots, new
<1>8. h # 0
  BY HandleFacts
<1>9. file'.peek = <<>>
  BY <1>1, <1>7 DEF PeekIsRead
<1>10. job'.at = "idle" /\ ~Busy'
  BY DEF Idle, Busy
<1>11. At' = 0 /\ Here' = 0 /\ Bytes' = disk'[f.path]
  <2>1. At' = 0 /\ Bytes' = disk'[f.path]
    BY <1>5, <1>6, <1>7 DEF At, Pos, Bytes, Content
  <2>2. Here' = At' - Len(file'.peek)
    BY <1>7, <1>8 DEF Here, At
  <2>3. Len(file'.peek) = 0
    BY <1>9, EmptySeq
  <2> QED BY <2>1, <2>2, <2>3
<1>12. /\ Readable(streams, file)' <=> mode = "reading"
       /\ Writable(streams, file)' <=> mode = "writing"
  BY <1>5, <1>6, <1>7, <1>8 DEF Readable, Writable
<1>13. Bytes' \in Seq(Byte)
  <2>1. OnAFile(disk', streams', file')
    BY DEF FileInv, OnAFile
  <2> QED BY <1>5, <1>6, <1>7, <1>8, <1>11, <2>1 DEF OnAFile
<1>14. InReach'
  <2>1. At' =< Len(Bytes')
    BY <1>11, <1>13, TextFacts
  <2> QED BY <1>7, <1>8, <1>11, <2>1 DEF InReach
<1>15. AtAComponent' /\ WholeComponents'
  <2>1. 0 % Size = 0
    BY SizeFacts
  <2>2. AtAComponent'
    BY <1>11, <2>1 DEF AtAComponent
  <2>3. Writable(streams, file)' => Len(Bytes') % Size = 0
    <3> SUFFICES ASSUME mode = "writing" PROVE Len(Bytes') % Size = 0
      BY <1>12
    <3>1. ~forRead
      OBVIOUS
    <3>2. Len(Bytes') = 0
      BY <1>11, <3>1, EmptySeq
    <3> QED BY <2>1, <3>2
  <2> QED BY <2>2, <2>3 DEF WholeComponents
<1>16. TextReadSoFar' /\ FieldsReadSoFar' /\ WrittenSoFar'
  BY <1>10 DEF TextReadSoFar, FieldsReadSoFar, WrittenSoFar, TextLabels, FieldLabels
<1>17. SequenceInv'
  BY <1>14, <1>15, <1>16 DEF SequenceInv
<1>18. ElementsRead' = 0 /\ NoneLeft' = FALSE
  <2>1. (Place.pos)' = 0 /\ (Place.eof)' = 0
    BY <1>7, <1>10, <1>11 DEF Place
  <2>2. 0 \div Size = 0
    BY SizeFacts
  <2>3. ElementsRead' = 0
    BY <2>1, <2>2 DEF ElementsRead
  <2>4. NoneLeft' = FALSE
    BY <2>1 DEF NoneLeft
  <2> QED BY <2>3, <2>4
<1>19. OpenOn' = [path |-> f.path, mode |-> mode]
  BY <1>5, <1>6, <1>7, <1>8 DEF OpenOn
<1> QED
  BY <1>3, <1>7, <1>17, <1>18, <1>19

LEMMA ElementsThere ==
    ASSUME FileInv, NEW p \in Paths, disk[p] # Missing
    PROVE  Contents[p] # Missing
<1>1. disk[p] \in Seq(Byte)
  BY DEF FileInv, SlotsTypeOK
<1>2. Components(disk[p]) # Missing
  BY <1>1, ComponentsFacts
<1> QED
  BY <1>2 DEF Contents, Elements

LEMMA ResetImplements ==
    ASSUME SeqInvs, FileInv', PeekIsRead', Reset
    PROVE  SequenceInv' /\ Implements
<1>1. PICK f \in WithPath(file), h \in Handles :
          /\ f.path # NoPath /\ disk[f.path] # Missing
          /\ streams' = [CloseStream(streams, f) EXCEPT ![h] =
                             [path |-> f.path, mode |-> "reading", pos |-> 0]]
          /\ file' = Opened(CloseSlots(f), h, TRUE)
  BY DEF Reset
<1>2. Idle /\ UNCHANGED <<kind, disk, job, before, answer>>
  BY DEF Reset
<1>3. /\ SequenceInv' /\ ElementsRead' = 0 /\ NoneLeft' = FALSE
      /\ file'.path = f.path
      /\ f.path = file.path \/ f.path \in Paths
      /\ OpenOn' = [path |-> f.path, mode |-> "reading"]
  BY <1>1, <1>2, OpenedView
<1>4. f.path \in Paths
  BY <1>1, WithPathFacts DEF SeqInvs, FileInv, SlotsTypeOK, Slots
<1>5. Contents[f.path] # Missing
  BY <1>1, <1>4, ElementsThere DEF SeqInvs
<1>6. Contents' = Contents /\ CutFiles' = CutFiles
  BY <1>2, SameContents
<1>7. Sequential!Reset
  BY <1>1, <1>2, <1>3, <1>5, <1>6 DEF Sequential!Reset, Sequential!Named, Sequential!Kept
<1> QED
  BY <1>3, <1>7 DEF Implements, Sequential!Next

LEMMA RewriteImplements ==
    ASSUME SeqInvs, FileInv', PeekIsRead', Rewrite
    PROVE  SequenceInv' /\ Implements
<1>1. PICK f \in WithPath(file), h \in Handles :
          /\ f.path # NoPath
          /\ streams' = [CloseStream(streams, f) EXCEPT ![h] =
                             [path |-> f.path, mode |-> "writing", pos |-> 0]]
          /\ disk' = [disk EXCEPT ![f.path] = <<>>]
          /\ file' = Opened(CloseSlots(f), h, FALSE)
  BY DEF Rewrite
<1>2. Idle /\ UNCHANGED <<kind, job, before, answer>>
  BY DEF Rewrite
<1>3. f.path \in Paths /\ DOMAIN disk = Paths
  BY <1>1, WithPathFacts DEF SeqInvs, FileInv, SlotsTypeOK, Slots
<1> DEFINE q == f.path
<1>4. disk'[q] = <<>> /\ \A p \in Paths : p # q => disk'[p] = disk[p]
  <2> HIDE DEF q
  <2> QED BY <1>1, <1>3 DEF q
<1>5. /\ SequenceInv' /\ ElementsRead' = 0 /\ NoneLeft' = FALSE
      /\ file'.path = q
      /\ q = file.path \/ q \in Paths
      /\ OpenOn' = [path |-> q, mode |-> "writing"]
  BY <1>1, <1>2, <1>4, OpenedView
<1> HIDE DEF q
<1>6. <<>> # Missing /\ Len(<<>>) = 0 /\ 0 % Size = 0
  <2>1. <<>> \in Seq(Byte) /\ Len(<<>>) = 0
    BY EmptySeq
  <2>2. Missing \notin Seq(Byte)
    BY FileAssumption
  <2>3. 0 % Size = 0
    BY SizeFacts
  <2> QED BY <2>1, <2>2, <2>3
<1>7. Contents' = [Contents EXCEPT ![q] = <<>>]
  <2>1. Contents' = [p \in Paths |-> Contents'[p]]
    BY DEF Contents
  <2>2. Contents'[q] = <<>>
    BY <1>3, <1>4, <1>6, NoComponents DEF Contents, Elements, q
  <2>3. \A p \in Paths : p # q => Contents'[p] = Contents[p]
    BY <1>2, <1>4 DEF Contents, Elements
  <2>4. Contents = [p \in Paths |-> Contents[p]] /\ DOMAIN Contents = Paths
    BY DEF Contents
  <2> QED BY <2>1, <2>2, <2>3, <2>4
<1>8. CutFiles' = CutFiles \ {q}
  <2>1. q \notin CutFiles'
    <3> SUFFICES ASSUME q \in CutFiles' PROVE FALSE
      OBVIOUS
    <3>1. Len(disk'[q]) % Size # 0
      BY DEF CutFiles
    <3> QED BY <1>4, <1>6, <3>1
  <2>2. \A p \in Paths : p # q => (p \in CutFiles' <=> p \in CutFiles)
    BY <1>2, <1>4 DEF CutFiles
  <2>3. CutFiles \subseteq Paths /\ CutFiles' \subseteq Paths
    BY DEF CutFiles
  <2> QED BY <2>1, <2>2, <2>3
<1>9. q # NoPath
  BY <1>1 DEF q
<1>10. Sequential!Rewrite
  BY <1>2, <1>5, <1>7, <1>8, <1>9 DEF Sequential!Rewrite, Sequential!Named, Sequential!Kept
<1> QED
  BY <1>5, <1>10 DEF Implements, Sequential!Next

LEMMA SlotStepImplements ==
    ASSUME SeqInvs, FileInv', PeekIsRead', SlotStep
    PROVE  SequenceInv' /\ Implements
  BY UseImplements, AssignImplements, CloseImplements, ResetImplements, RewriteImplements,
     RestartImplements DEF SlotStep

---------------------------------------------------------------------------
(* A component is written piece by piece.                                   *)

LEMMA LeftFacts ==
    ASSUME NEW S, NEW q \in Seq(S), NEW m \in 0..Len(q)
    PROVE  /\ SubSeq(q, m + 1, Len(q)) \in Seq(S)
           /\ SubSeq(q, m + 1, Len(q)) = <<>> <=> m = Len(q)
           /\ m # Len(q) => /\ Head(SubSeq(q, m + 1, Len(q))) = q[m + 1]
                            /\ Tail(SubSeq(q, m + 1, Len(q))) = SubSeq(q, (m + 1) + 1, Len(q))
<1>1. Len(q) \in Nat
  BY LenProperties
<1>2. \A i \in m + 1..Len(q) : q[i] \in S
  BY <1>1, ElementOfSeq
<1>3. /\ SubSeq(q, m + 1, Len(q)) \in Seq(S)
      /\ Len(SubSeq(q, m + 1, Len(q))) = IF m + 1 <= Len(q) THEN Len(q) - (m + 1) + 1 ELSE 0
  BY <1>1, <1>2, SubSeqProperties
<1>4. CASE m = Len(q)
  <2>1. SubSeq(q, m + 1, Len(q)) = <<>>
    BY <1>1, <1>4, SubSeqEmpty
  <2> QED BY <1>3, <1>4, <2>1
<1>5. CASE m # Len(q)
  <2>1. m + 1 \in 1..Len(q) /\ Len(q) \in m + 1..Len(q)
    BY <1>1, <1>5
  <2>2. /\ Head(SubSeq(q, m + 1, Len(q))) = q[m + 1]
        /\ Tail(SubSeq(q, m + 1, Len(q))) = SubSeq(q, (m + 1) + 1, Len(q))
    BY <2>1, HeadTailOfSubSeq
  <2>3. Len(SubSeq(q, m + 1, Len(q))) # 0
    BY <1>1, <1>3, <2>1
  <2>4. SubSeq(q, m + 1, Len(q)) # <<>>
    BY <2>3, EmptySeq
  <2> QED BY <1>3, <1>5, <2>2, <2>4
<1> QED
  BY <1>4, <1>5

(* Bytes o + 1, o + 2... of a field.                                        *)
PieceOf(v, k, o, p) ==
    /\ p \in Seq(Byte) /\ o \in Nat /\ Len(p) > 0 /\ o + Len(p) =< Width(Component[k])
    /\ \A i \in 1..Len(p) : p[i] = Encoded(Component[k], v[k])[o + i]

LEMMA EncodedGrows ==
    ASSUME NEW s \in Seq(Byte), NEW v, NEW base \in Nat, NEW k \in 1..Len(Component),
           NEW o, NEW p, PieceOf(v, k, o, p), EncodedUpTo(s, base, v),
           Len(s) = base + Offset[k - 1] + o
    PROVE  /\ s \o p \in Seq(Byte) /\ Len(s \o p) = Len(s) + Len(p)
           /\ \A i \in 1..Len(s) : (s \o p)[i] = s[i]
           /\ EncodedUpTo(s \o p, base, v)
<1> DEFINE t == s \o p
<1>1. p \in Seq(Byte) /\ o \in Nat
  BY DEF PieceOf
<1>2. PICK n, c, w \in Nat : n = Len(s) /\ c = Len(p) /\ w = Width(Component[k])
  BY <1>1, TextFacts, ComponentFacts
<1>3. c > 0 /\ o + c =< w
  BY <1>2 DEF PieceOf
<1>4. /\ t \in Seq(Byte) /\ Len(t) = n + c
      /\ \A i \in 1..n + c : t[i] = IF i <= n THEN s[i] ELSE p[i - n]
  BY <1>1, <1>2, ConcatProperties
<1> HIDE DEF t
<1>5. \A i \in 1..n : i \in 1..n + c /\ i <= n
  OBVIOUS
<1>6. \A i \in 1..n : t[i] = s[i]
  BY <1>4, <1>5
<1>7. PICK b \in Nat : b = Offset[k - 1] /\ Offset[k] = b + w /\ n = base + b + o
  <2>1. k - 1 \in 0..Len(Component)
    BY ComponentFacts
  <2> QED BY <1>2, <2>1, OffsetsAreIncreasing
<1>8. ASSUME NEW l \in 1..Len(Component), NEW i \in 1..Width(Component[l]),
             base + Offset[l - 1] + i =< Len(t)
      PROVE  t[base + Offset[l - 1] + i] = Encoded(Component[l], v[l])[i]
  <2>1. PICK u \in Nat : u = Width(Component[l])
    BY ComponentFacts
  <2>2. PICK a \in Nat : a = Offset[l - 1] /\ Offset[l] = a + u
    <3>1. l - 1 \in 0..Len(Component)
      BY ComponentFacts
    <3> QED BY <2>1, <3>1, OffsetsAreIncreasing
  <2>3. i \in Nat /\ 1 <= i /\ i <= u /\ base + a + i =< n + c
    BY <1>4, <1>8, <2>1, <2>2
  <2>4. o \in Nat /\ c > 0 /\ o + c =< w /\ n = base + b + o
    BY <1>1, <1>3, <1>7
  <2>5. i \in Nat /\ 1 <= i /\ i <= u /\ base + a + i =< n + c
    BY <2>3
  <2>6. CASE base + a + i =< n
    <3>1. base + a + i \in 1..n
      BY <2>3, <2>6
    <3>2. s[base + a + i] = Encoded(Component[l], v[l])[i]
      BY <1>2, <2>2, <2>6 DEF EncodedUpTo
    <3> QED BY <1>6, <2>2, <3>1, <3>2
  <2>7. CASE ~(base + a + i =< n)
    <3>1. a < a + i /\ a + i =< a + u /\ b < a + i /\ a + i =< b + w
      BY <2>4, <2>5, <2>7
    <3>2. l = k
      <4>1. PICK x \in Int : x = a + i
        OBVIOUS
      <4>2. Offset[l - 1] < x /\ x =< Offset[l] /\ Offset[k - 1] < x /\ x =< Offset[k]
        BY <1>7, <2>2, <3>1, <4>1
      <4> QED BY <4>2, OneFieldPerPlace
    <3>3. a = b
      BY <1>7, <2>2, <3>2
    <3>4. i - o \in 1..c /\ o + (i - o) = i /\ base + a + i \in 1..n + c
          /\ ~(base + a + i <= n) /\ (base + a + i) - n = i - o
      BY <2>4, <2>5, <2>7, <3>3
    <3>5. t[base + a + i] = p[i - o]
      BY <1>4, <3>4
    <3>6. p[i - o] = Encoded(Component[k], v[k])[i]
      BY <1>2, <3>4 DEF PieceOf
    <3> QED BY <2>2, <3>2, <3>5, <3>6
  <2> QED BY <2>6, <2>7
<1>9. EncodedUpTo(t, base, v)
  BY <1>8 DEF EncodedUpTo
<1> QED
  BY <1>2, <1>4, <1>6, <1>9 DEF t

LEMMA FieldPiecesFacts ==
    ASSUME NEW v \in Values, NEW k \in 1..Len(Component)
    PROVE  /\ Component[k] = "integer" =>
                /\ FieldPieces(Component[k], v[k]) = IntPieces(v[k][1])
                /\ Width(Component[k]) = 4
                /\ \A i \in 1..4 : /\ PieceOf(v, k, i - 1, IntPieces(v[k][1])[i])
                                   /\ Len(IntPieces(v[k][1])[i]) = 1
           /\ Component[k] # "integer" =>
                \E p : /\ FieldPieces(Component[k], v[k]) = <<p>> /\ PieceOf(v, k, 0, p)
                       /\ Len(p) = Width(Component[k])
<1>1. /\ Component[k] \in FieldSorts /\ k \in DOMAIN Component
      /\ v[k] \in FieldValues(Component[k]) /\ Width(Component[k]) \in Nat \ {0}
  BY ComponentFacts, TypedAssumption
<1> DEFINE e == Encoded(Component[k], v[k])
<1>2. e \in Seq(Byte) /\ Len(e) = Width(Component[k])
  BY FieldIsRestored
<1>3. CASE Component[k] = "integer"
  <2> DEFINE n == v[k][1]
  <2>1. n \in -Half..Half - 1
    BY <1>1, <1>3, ValuesAssumption DEF FieldValues
  <2>2. /\ FieldPieces(Component[k], v[k]) = IntPieces(n) /\ Width(Component[k]) = 4
        /\ e = [i \in 1..4 |-> IntByte(n, i)]
    BY <1>3 DEF FieldPieces, Width, Encoded, IntByte
  <2> HIDE DEF n, e
  <2>3. ASSUME NEW i \in 1..4
        PROVE  PieceOf(v, k, i - 1, IntPieces(n)[i]) /\ Len(IntPieces(n)[i]) = 1
    <3>1. IntPieces(n)[i] = <<IntByte(n, i)>> /\ IntByte(n, i) \in Byte
      BY <2>1, IntegerIsRestored
    <3> DEFINE p == <<IntByte(n, i)>>
    <3>2. p \in Seq(Byte) /\ Len(p) = 1 /\ p[1] = IntByte(n, i)
      BY <3>1
    <3>3. e[(i - 1) + 1] = IntByte(n, i)
      BY <2>2
    <3> HIDE DEF p
    <3>4. \A x \in 1..1 : p[x] = e[(i - 1) + x]
      BY <3>2, <3>3
    <3>5. i - 1 \in Nat /\ (i - 1) + 1 =< 4
      OBVIOUS
    <3>6. PieceOf(v, k, i - 1, p)
      BY <2>2, <3>2, <3>4, <3>5 DEF PieceOf, e
    <3> QED BY <3>1, <3>2, <3>6 DEF p
  <2> QED BY <1>3, <2>2, <2>3 DEF n
<1>4. ASSUME NEW p, p = e PROVE PieceOf(v, k, 0, p) /\ Len(p) = Width(Component[k])
  <2>1. PICK w \in Nat \ {0} : w = Width(Component[k])
    BY <1>1
  <2>2. p \in Seq(Byte) /\ Len(p) = w
    BY <1>2, <1>4, <2>1
  <2>3. \A i \in 1..w : p[i] = e[0 + i]
    BY <1>4
  <2> HIDE DEF e
  <2> QED BY <2>1, <2>2, <2>3 DEF PieceOf, e
<1>5. CASE Component[k] = "char"
  <2>1. v[k] \in [1..1 -> Byte] /\ e = v[k]
    BY <1>1, <1>5 DEF FieldValues, Encoded
  <2>2. FieldPieces(Component[k], v[k]) = <<<<ByteMod256(v[k][1])>>>>
    BY <1>5 DEF FieldPieces
  <2>3. PICK c \in Byte : c = v[k][1]
    BY <2>1
  <2>4. ByteMod256(c) = c
    <3>1. Radix \in Nat /\ Radix > 0 /\ c \in 0..Radix - 1 /\ 0 \in Int
      BY FullFacts DEF Byte
    <3>2. (Radix * 0 + c) % Radix = c
      BY <3>1, DivUnique
    <3>3. c % Radix = c
      BY <3>1, <3>2
    <3> QED BY <3>1, <3>3 DEF ByteMod256, TruncMod
  <2>5. <<c>> = v[k]
    BY <2>1, <2>3
  <2>6. FieldPieces(Component[k], v[k]) = <<e>>
    BY <2>1, <2>2, <2>3, <2>4, <2>5
  <2> QED BY <1>4, <1>5, <2>6
<1>6. CASE Component[k] = "real"
  <2>1. FieldPieces(Component[k], v[k]) = <<e>>
    BY <1>6 DEF FieldPieces, Encoded
  <2> QED BY <1>4, <1>6, <2>1
<1> QED
  BY <1>1, <1>3, <1>5, <1>6 DEF FieldSorts

(* The statement after a piece has been written.                            *)
LoadedOf(j) == IF j.out = <<>> THEN LoadField(j) ELSE j
RestOf(p) == [p EXCEPT !.out = Tail(@)]
WrittenTo(t, base, v, rest) ==
    /\ EncodedUpTo(t, base, v)
    /\ IF rest.out = <<>> /\ rest.left = <<>> THEN Len(t) = base + Size
       ELSE \E m \in Nat : WriteJob(t, base, v, m, rest)

(* A field has been written.                                                *)
LEMMA FieldIsWritten ==
    ASSUME NEW t \in Seq(Byte), NEW v \in Values, NEW base \in Nat, base % Size = 0,
           EncodedUpTo(t, base, v), NEW m \in 1..Len(Component), Len(t) = base + Offset[m],
           NEW rest, rest.out = <<>>, rest.left = SubSeq(Component, m + 1, Len(Component)),
           rest.got = SubSeq(v, m + 1, Len(Component))
    PROVE  WrittenTo(t, base, v, rest)
<1>0. Len(Component) \in Nat /\ Len(Component) > 0
  BY ComponentFacts
<1>1. PICK n \in Nat : n = Len(Component) /\ n > 0
  BY <1>0
<1>2. Component \in Seq(FieldSorts) /\ m \in 0..Len(Component)
  BY <1>1, TypedAssumption
<1>3. rest.left = <<>> <=> m = n
  BY <1>1, <1>2, LeftFacts
<1>4. CASE m = n
  BY <1>1, <1>3, <1>4 DEF WrittenTo, Size
<1>5. CASE m # n
  <2>1. m < n /\ m \in 0..n /\ m + 1 \in 1..n /\ m + 1 \in 0..n /\ n \in 0..n /\ (m + 1) - 1 = m
    BY <1>1, <1>5
  <2>2. PICK a \in Nat : a = Offset[m]
    BY <1>1, <2>1, OffsetsAreIncreasing
  <2>b. PICK b \in Nat : b = Offset[m + 1]
    BY <1>1, <2>1, OffsetsAreIncreasing
  <2>w. PICK w \in Nat : w = Size
    BY SizeFacts
  <2>3. a < b
    <3>1. Offset[m + 1] = Offset[m] + Width(Component[m + 1])
      BY <1>1, <2>1, OffsetsAreIncreasing
    <3>2. PICK x \in Nat \ {0} : x = Width(Component[m + 1])
      BY <1>1, <2>1, ComponentFacts
    <3>3. b = a + x
      BY <2>2, <2>b, <3>1, <3>2
    <3> QED BY <3>2, <3>3
  <2>4. b =< w
    BY <1>1, <2>1, <2>b, <2>w, OffsetsAreIncreasing DEF Size
  <2>c. Len(t) = base + a
    BY <2>2
  <2>5. Len(t) = base + Offset[m] /\ base \in 0..Len(t) /\ Len(t) < base + Size
    BY <2>2, <2>w, <2>3, <2>4, <2>c
  <2>6. WriteJob(t, base, v, m, rest)
    BY <1>1, <2>1, <2>5 DEF WriteJob
  <2>7. m \in Nat /\ rest.left # <<>>
    BY <1>3, <1>5
  <2> QED BY <2>6, <2>7 DEF WrittenTo
<1> QED
  BY <1>4, <1>5

(* A byte of an integer has been written.                                   *)
LEMMA ByteIsWritten ==
    ASSUME NEW t \in Seq(Byte), NEW v \in Values, NEW base \in Nat, base % Size = 0,
           EncodedUpTo(t, base, v), NEW m \in 1..Len(Component), Component[m] = "integer",
           NEW i \in 1..4, Len(t) = base + Offset[m - 1] + i,
           NEW rest, rest.out = SubSeq(IntPieces(v[m][1]), i + 1, 4),
           rest.left = SubSeq(Component, m + 1, Len(Component)),
           rest.got = SubSeq(v, m + 1, Len(Component))
    PROVE  WrittenTo(t, base, v, rest)
<1>0. Len(Component) \in Nat /\ Len(Component) > 0
  BY ComponentFacts
<1>1. PICK n \in Nat : n = Len(Component) /\ n > 0
  BY <1>0
<1>2. /\ m \in 0..n /\ m - 1 \in 0..n /\ n \in 0..n /\ m \in Nat
  BY <1>1
<1>3. Width(Component[m]) = 4
  BY DEF Width
<1>a. PICK a \in Nat : a = Offset[m - 1]
  BY <1>1, <1>2, OffsetsAreIncreasing
<1>b. PICK b \in Nat : b = Offset[m]
  BY <1>1, <1>2, OffsetsAreIncreasing
<1>w. PICK w \in Nat : w = Size
  BY SizeFacts
<1>c. b = a + 4
  BY <1>3, <1>a, <1>b, OffsetsAreIncreasing
<1>d. b =< w
  BY <1>1, <1>2, <1>b, <1>w, OffsetsAreIncreasing DEF Size
<1>4. a = Offset[m - 1] /\ b = Offset[m] /\ w = Size /\ b = a + 4 /\ b =< w
  BY <1>a, <1>b, <1>w, <1>c, <1>d
<1>5. CASE i = 4
  <2>1. rest.out = <<>>
    BY <1>5, SubSeqEmpty
  <2>2. Len(t) = base + Offset[m]
    BY <1>4, <1>5
  <2> QED BY <2>1, <2>2, FieldIsWritten
<1>6. CASE i # 4
  <2>1. PICK q : q = IntPieces(v[m][1])
    OBVIOUS
  <2>2. q \in Seq(Seq(Byte)) /\ Len(q) = 4
    <3>1. v[m] \in FieldValues(Component[m]) /\ Component[m] \in FieldSorts
      BY <1>1, ComponentFacts, TypedAssumption
    <3>2. FieldPieces(Component[m], v[m]) \in Seq(Seq(Byte))
      BY <3>1, PiecesAreBytes
    <3>3. FieldPieces(Component[m], v[m]) = q
      BY <2>1 DEF FieldPieces
    <3>4. Len(q) = 4
      BY <2>1 DEF IntPieces
    <3> QED BY <3>2, <3>3, <3>4
  <2>3. \A x \in i + 1..4 : q[x] \in Seq(Byte)
    <3> TAKE x \in i + 1..4
    <3>1. x \in 1..Len(q)
      BY <2>2
    <3> QED BY <2>2, <3>1, ElementOfSeq
  <2>4. Len(SubSeq(q, i + 1, 4)) = IF i + 1 <= 4 THEN 4 - (i + 1) + 1 ELSE 0
    BY <2>3, SubSeqProperties
  <2>5. Len(rest.out) = 4 - i
    BY <1>6, <2>1, <2>4
  <2>6. rest.out # <<>>
    <3> SUFFICES ASSUME rest.out = <<>> PROVE FALSE
      OBVIOUS
    <3>1. Len(rest.out) = 0
      BY EmptySeq
    <3> QED BY <1>6, <2>5, <3>1
  <2>7. Len(rest.out) \in 1..3 /\ 5 - Len(rest.out) = i + 1 /\ 4 - Len(rest.out) = i
    BY <1>6, <2>5
  <2>8. Len(t) = base + a + i /\ base \in 0..Len(t) /\ Len(t) < base + Size
    <3>1. Len(t) = base + a + i
      BY <1>4
    <3>2. base + a + i < base + w
      <4>1. i < 4 /\ i \in Nat
        BY <1>6
      <4>2. b = a + 4 /\ b =< w /\ a \in Nat /\ b \in Nat /\ w \in Nat
        BY <1>4
      <4> QED BY <4>1, <4>2
    <3>3. base \in 0..base + a + i
      OBVIOUS
    <3> QED BY <1>4, <3>1, <3>2, <3>3
  <2>9. Len(t) = base + Offset[m - 1] + 4 - Len(rest.out)
    BY <1>4, <2>5, <2>8
  <2>10. m > 0 /\ m \in 0..Len(Component)
    BY <1>1
  <2>11. WriteJob(t, base, v, m, rest)
    BY <2>6, <2>7, <2>8, <2>9, <2>10 DEF WriteJob
  <2> QED BY <1>2, <2>6, <2>11 DEF WrittenTo
<1> QED
  BY <1>5, <1>6

LEMMA IntPiecesLeft ==
    ASSUME NEW v \in Values, NEW k \in 1..Len(Component), Component[k] = "integer",
           NEW i \in 1..4
    PROVE  LET q == IntPieces(v[k][1])
           IN  /\ q = SubSeq(q, 1, 4) /\ Head(SubSeq(q, i, 4)) = q[i]
               /\ Tail(SubSeq(q, i, 4)) = SubSeq(q, i + 1, 4)
<1>1. PICK q : q = IntPieces(v[k][1])
  OBVIOUS
<1>2. v[k] \in FieldValues(Component[k]) /\ Component[k] \in FieldSorts
  BY ComponentFacts, TypedAssumption
<1>3. FieldPieces(Component[k], v[k]) \in Seq(Seq(Byte))
  BY <1>2, PiecesAreBytes
<1>4. FieldPieces(Component[k], v[k]) = q
  BY <1>1 DEF FieldPieces
<1>5. Len(q) = 4
  BY <1>1 DEF IntPieces
<1>6. q \in Seq(Seq(Byte)) /\ i \in 1..Len(q) /\ 4 \in i..Len(q)
  BY <1>3, <1>4, <1>5
<1>7. SubSeq(q, 1, Len(q)) = q
  BY <1>6, SubSeqFull
<1>8. Head(SubSeq(q, i, 4)) = q[i] /\ Tail(SubSeq(q, i, 4)) = SubSeq(q, i + 1, 4)
  BY <1>6, HeadTailOfSubSeq
<1> QED
  BY <1>1, <1>5, <1>7, <1>8

LEMMA StatementFields ==
    ASSUME NEW j, DOMAIN j = DOMAIN NoJob
    PROVE  /\ DOMAIN LoadField(j) = DOMAIN NoJob /\ LoadField(j).at = j.at
           /\ LoadField(j).out = FieldPieces(Head(j.left), Head(j.got))
           /\ LoadField(j).left = Tail(j.left) /\ LoadField(j).got = Tail(j.got)
           /\ DOMAIN RestOf(j) = DOMAIN NoJob /\ RestOf(j).at = j.at
           /\ RestOf(j).out = Tail(j.out) /\ RestOf(j).left = j.left /\ RestOf(j).got = j.got
<1>1. DOMAIN j = {"at", "left", "whole", "got", "acc", "out", "byte", "value", "shift"}
  BY DEF NoJob
<1>2. /\ DOMAIN LoadField(j) = DOMAIN NoJob /\ LoadField(j).at = j.at
      /\ LoadField(j).out = FieldPieces(Head(j.left), Head(j.got))
      /\ LoadField(j).left = Tail(j.left) /\ LoadField(j).got = Tail(j.got)
  BY <1>1 DEF LoadField
<1>3. /\ DOMAIN RestOf(j) = DOMAIN NoJob /\ RestOf(j).at = j.at
      /\ RestOf(j).out = Tail(j.out) /\ RestOf(j).left = j.left /\ RestOf(j).got = j.got
  BY <1>1 DEF RestOf
<1> QED
  BY <1>2, <1>3

(* One piece is added to the file, and the statement goes on behind it.     *)
PieceAdded(s, base, v, j) ==
    LET p == LoadedOf(j)
        t == s \o Head(p.out)
    IN  /\ t \in Seq(Byte) /\ Len(s) < Len(t) /\ \A i \in 1..Len(s) : t[i] = s[i]
        /\ WrittenTo(t, base, v, RestOf(p))

LEMMA PieceIsWritten ==
    ASSUME NEW s \in Seq(Byte), NEW v \in Values, NEW base \in Nat, NEW m \in Nat,
           NEW j, DOMAIN j = DOMAIN NoJob, WriteJob(s, base, v, m, j)
    PROVE  PieceAdded(s, base, v, j)
<1>1. /\ base % Size = 0 /\ m \in 0..Len(Component) /\ EncodedUpTo(s, base, v)
      /\ j.left = SubSeq(Component, m + 1, Len(Component))
      /\ j.got = SubSeq(v, m + 1, Len(Component))
  BY DEF WriteJob
<1>2. Component \in Seq(FieldSorts) /\ v \in Seq(Seq(Int)) /\ Len(v) = Len(Component)
  BY TypedAssumption
<1>3. Len(s) \in Nat /\ Len(Component) \in Nat
  BY TextFacts, ComponentFacts
<1>4. ASSUME NEW k \in 1..Len(Component), NEW o \in Nat, NEW p, PieceOf(v, k, o, p),
             Len(s) = base + Offset[k - 1] + o
      PROVE  /\ s \o p \in Seq(Byte) /\ Len(s \o p) = Len(s) + Len(p) /\ Len(s) < Len(s \o p)
             /\ \A i \in 1..Len(s) : (s \o p)[i] = s[i]
             /\ EncodedUpTo(s \o p, base, v)
  <2>1. p \in Seq(Byte) /\ Len(p) > 0
    BY <1>4 DEF PieceOf
  <2>2. Len(p) \in Nat
    BY <2>1, TextFacts
  <2>3. /\ s \o p \in Seq(Byte) /\ Len(s \o p) = Len(s) + Len(p)
        /\ \A i \in 1..Len(s) : (s \o p)[i] = s[i]
        /\ EncodedUpTo(s \o p, base, v)
    BY <1>1, <1>4, EncodedGrows
  <2> QED BY <1>3, <2>1, <2>2, <2>3
<1>5. CASE j.out = <<>>
  <2>1. m < Len(Component) /\ Len(s) = base + Offset[m]
    BY <1>5 DEF WriteJob
  <2>2. PICK k \in 1..Len(Component) : k = m + 1 /\ k - 1 = m
    BY <1>1, <1>3, <2>1
  <2>3. /\ Head(j.left) = Component[k]
        /\ Tail(j.left) = SubSeq(Component, k + 1, Len(Component))
    <3>1. m # Len(Component)
      BY <1>3, <2>1
    <3> QED BY <1>1, <1>2, <2>2, <3>1, LeftFacts
  <2>4. /\ Head(j.got) = v[k]
        /\ Tail(j.got) = SubSeq(v, k + 1, Len(Component))
    <3>1. m # Len(v) /\ m \in 0..Len(v)
      BY <1>1, <1>2, <1>3, <2>1
    <3> QED BY <1>1, <1>2, <2>2, <3>1, LeftFacts
  <2> DEFINE p == LoadField(j)
             rest == RestOf(p)
  <2>5. /\ p.out = FieldPieces(Component[k], v[k]) /\ rest.out = Tail(p.out)
        /\ rest.left = SubSeq(Component, k + 1, Len(Component))
        /\ rest.got = SubSeq(v, k + 1, Len(Component))
    BY <2>3, <2>4, StatementFields
  <2>6. LoadedOf(j) = p
    BY <1>5 DEF LoadedOf
  <2> HIDE DEF p, rest
  <2>7. CASE Component[k] = "integer"
    <3>1. PICK q : q = IntPieces(v[k][1])
      OBVIOUS
    <3>2. p.out = q /\ PieceOf(v, k, 0, q[1]) /\ Len(q[1]) = 1
      <4>1. 1 \in 1..4 /\ 1 - 1 = 0
        OBVIOUS
      <4> QED BY <2>5, <2>7, <3>1, <4>1, FieldPiecesFacts
    <3>3. q = SubSeq(q, 1, 4) /\ Head(SubSeq(q, 1, 4)) = q[1]
          /\ Tail(SubSeq(q, 1, 4)) = SubSeq(q, 1 + 1, 4)
      <4>1. 1 \in 1..4
        OBVIOUS
      <4> QED BY <2>7, <3>1, <4>1, IntPiecesLeft
    <3>4. Head(p.out) = q[1] /\ rest.out = SubSeq(q, 1 + 1, 4)
      BY <2>5, <3>2, <3>3
    <3> DEFINE t == s \o q[1]
    <3>5. Len(s) = base + Offset[k - 1] + 0
      <4>1. Offset[k - 1] \in Nat
        BY <1>1, <2>2, OffsetsAreIncreasing
      <4> QED BY <2>1, <2>2, <4>1
    <3>6. /\ t \in Seq(Byte) /\ Len(t) = Len(s) + Len(q[1]) /\ Len(s) < Len(t)
          /\ \A i \in 1..Len(s) : t[i] = s[i]
          /\ EncodedUpTo(t, base, v)
      <4>1. 0 \in Nat
        OBVIOUS
      <4> QED BY <1>4, <3>2, <3>5, <4>1
    <3> HIDE DEF t
    <3>7. Len(t) = base + Offset[k - 1] + 1 /\ 1 \in 1..4
      <4>1. Offset[k - 1] \in Nat
        BY <1>1, <2>2, OffsetsAreIncreasing
      <4> QED BY <2>1, <2>2, <3>2, <3>6, <4>1
    <3>8. WrittenTo(t, base, v, rest)
      BY <1>1, <2>5, <2>7, <3>1, <3>4, <3>6, <3>7, ByteIsWritten
    <3> QED BY <2>6, <3>4, <3>6, <3>8 DEF PieceAdded, t, rest
  <2>8. CASE Component[k] # "integer"
    <3>1. PICK x : /\ FieldPieces(Component[k], v[k]) = <<x>> /\ PieceOf(v, k, 0, x)
                   /\ Len(x) = Width(Component[k])
      BY <2>8, FieldPiecesFacts
    <3>2. Head(p.out) = x /\ rest.out = <<>>
      <4>1. x \in Seq(Byte)
        BY <3>1 DEF PieceOf
      <4>2. Head(<<x>>) = x /\ Tail(<<x>>) = <<>>
        BY <4>1
      <4> QED BY <2>5, <3>1, <4>2
    <3> DEFINE t == s \o x
    <3>3. Len(s) = base + Offset[k - 1] + 0
      <4>1. Offset[k - 1] \in Nat
        BY <1>1, <2>2, OffsetsAreIncreasing
      <4> QED BY <2>1, <2>2, <4>1
    <3>4. /\ t \in Seq(Byte) /\ Len(t) = Len(s) + Len(x) /\ Len(s) < Len(t)
          /\ \A i \in 1..Len(s) : t[i] = s[i]
          /\ EncodedUpTo(t, base, v)
      <4>1. 0 \in Nat
        OBVIOUS
      <4> QED BY <1>4, <3>1, <3>3, <4>1
    <3> HIDE DEF t
    <3>5. Len(t) = base + Offset[k]
      <4>1. PICK a \in Nat : a = Offset[k - 1]
        BY <1>1, <2>2, OffsetsAreIncreasing
      <4>2. PICK w \in Nat : w = Width(Component[k])
        BY ComponentFacts
      <4>3. Offset[k] = a + w
        BY <4>1, <4>2, OffsetsAreIncreasing
      <4>4. Len(s) = base + a
        BY <3>3, <4>1
      <4> QED BY <3>1, <3>4, <4>2, <4>3, <4>4
    <3>6. WrittenTo(t, base, v, rest)
      BY <1>1, <2>5, <3>2, <3>4, <3>5, FieldIsWritten
    <3> QED BY <2>6, <3>2, <3>4, <3>6 DEF PieceAdded, t, rest
  <2> QED BY <2>7, <2>8
<1>6. CASE j.out # <<>>
  <2>1. /\ m > 0 /\ Component[m] = "integer" /\ Len(j.out) \in 1..3
        /\ j.out = SubSeq(IntPieces(v[m][1]), 5 - Len(j.out), 4)
        /\ Len(s) = base + Offset[m - 1] + 4 - Len(j.out)
    BY <1>6 DEF WriteJob
  <2>2. PICK k \in 1..Len(Component) : k = m
    BY <1>1, <1>3, <2>1
  <2>3. PICK i \in 2..4 : i = 5 - Len(j.out)
    <3>1. PICK l \in 1..3 : l = Len(j.out)
      BY <2>1
    <3>2. 5 - l \in 2..4
      OBVIOUS
    <3> QED BY <3>1, <3>2
  <2>4. i - 1 = 4 - Len(j.out) /\ i \in 1..4 /\ i - 1 \in Nat
    BY <2>1, <2>3
  <2>5. PICK q : q = IntPieces(v[k][1])
    OBVIOUS
  <2>6. PieceOf(v, k, i - 1, q[i]) /\ Len(q[i]) = 1
    BY <2>1, <2>2, <2>4, <2>5, FieldPiecesFacts
  <2>7. Head(SubSeq(q, i, 4)) = q[i] /\ Tail(SubSeq(q, i, 4)) = SubSeq(q, i + 1, 4)
    BY <2>1, <2>2, <2>4, <2>5, IntPiecesLeft
  <2> DEFINE rest == RestOf(j)
  <2>8. LoadedOf(j) = j /\ Head(j.out) = q[i]
    BY <1>6, <2>1, <2>2, <2>3, <2>5, <2>7 DEF LoadedOf
  <2>9. /\ rest.out = SubSeq(q, i + 1, 4)
        /\ rest.left = SubSeq(Component, k + 1, Len(Component))
        /\ rest.got = SubSeq(v, k + 1, Len(Component))
    BY <1>1, <2>1, <2>2, <2>3, <2>5, <2>7, StatementFields
  <2> DEFINE t == s \o q[i]
  <2> HIDE DEF rest, t
  <2>10. PICK a \in Nat : a = Offset[k - 1]
    <3>1. k - 1 \in 0..Len(Component)
      BY <1>3
    <3> QED BY <3>1, OffsetsAreIncreasing
  <2>11. Len(s) = base + a + (i - 1)
    BY <2>1, <2>2, <2>4, <2>10
  <2>12. /\ t \in Seq(Byte) /\ Len(t) = Len(s) + Len(q[i]) /\ Len(s) < Len(t)
         /\ \A x \in 1..Len(s) : t[x] = s[x]
         /\ EncodedUpTo(t, base, v)
    BY <1>4, <2>4, <2>6, <2>10, <2>11 DEF t
  <2>13. Len(t) = base + Offset[k - 1] + i
    BY <2>4, <2>6, <2>10, <2>11, <2>12
  <2>14. WrittenTo(t, base, v, rest)
    BY <1>1, <2>1, <2>2, <2>4, <2>5, <2>9, <2>12, <2>13, ByteIsWritten
  <2> QED BY <2>8, <2>12, <2>14 DEF PieceAdded, t, rest
<1> QED
  BY <1>5, <1>6

(* A component of which all bytes are written is read back.                 *)
LEMMA WrittenIsRead ==
    ASSUME NEW t \in Seq(Byte), NEW v \in Values, NEW base \in Nat,
           Len(t) = base + Size, EncodedUpTo(t, base, v)
    PROVE  FieldsUpTo(t, base, Len(Component)) = v
<1>1. v \in Seq(Seq(Int)) /\ Len(v) = Len(Component)
  BY TypedAssumption
<1>2. ASSUME NEW k \in 1..Len(Component) PROVE FieldAt(t, base, k) = v[k]
  <2> DEFINE b == SubSeq(t, base + Offset[k - 1] + 1, base + Offset[k])
             e == Encoded(Component[k], v[k])
  <2>1. /\ e \in Seq(Byte) /\ Len(e) = Width(Component[k])
        /\ Field(Component[k], e) = v[k]
    BY FieldIsRestored
  <2>2. PICK w \in Nat : w = Width(Component[k])
    BY ComponentFacts
  <2>3. PICK x \in Nat : x = Offset[k] /\ x =< Size
    <3>1. k \in 0..Len(Component) /\ Len(Component) \in 0..Len(Component) /\ k =< Len(Component)
      BY ComponentFacts
    <3> QED BY <3>1, OffsetsAreIncreasing DEF Size
  <2>4. base + Offset[k] =< Len(t)
    BY <2>3, SizeFacts
  <2>5. b \in Seq(Byte) /\ Len(b) = w /\ \A i \in 1..w : b[i] = t[base + Offset[k - 1] + i]
    BY <2>2, <2>4, FieldPlaces
  <2>6. \A i \in 1..w : b[i] = e[i]
    <3> TAKE i \in 1..w
    <3>1. base + Offset[k - 1] + i =< Len(t)
      <4>1. PICK a \in Nat : a = Offset[k - 1]
        <5>1. k - 1 \in 0..Len(Component)
          BY ComponentFacts
        <5> QED BY <5>1, OffsetsAreIncreasing
      <4>2. x = a + w
        BY <2>2, <2>3, <4>1, OffsetsAreIncreasing
      <4> QED BY <2>3, <4>1, <4>2, SizeFacts
    <3>2. t[base + Offset[k - 1] + i] = e[i]
      BY <2>2, <3>1 DEF EncodedUpTo
    <3> HIDE DEF b, e
    <3> QED BY <2>5, <3>2
  <2>7. FieldAt(t, base, k) = Field(Component[k], b)
    BY DEF FieldAt
  <2> HIDE DEF b, e
  <2>8. b = e
    BY <2>1, <2>2, <2>5, <2>6, SeqEqual
  <2> QED BY <2>1, <2>7, <2>8
<1>3. FieldsUpTo(t, base, Len(Component)) = [k \in 1..Len(Component) |-> v[k]]
  BY <1>2 DEF FieldsUpTo
<1>4. v = [k \in 1..Len(v) |-> v[k]]
  BY <1>1
<1> QED
  BY <1>1, <1>3, <1>4

(* A file that is written to.                                               *)
LEMMA TypedWritten ==
    ASSUME SeqInvs, FileInv', kind = "typed", Writable(streams, file),
           UNCHANGED <<kind, streams, file>>, NEW t,
           t = Bytes \o Head(LoadedOf(job).out),
           disk' = Extended(disk, streams, file, Head(LoadedOf(job).out))
    PROVE  /\ Bytes' = t /\ t # Missing /\ OpenOn.mode = "writing" /\ OpenOn.path \in Paths
           /\ Contents' = [Contents EXCEPT ![OpenOn.path] = Components(t)]
           /\ Contents[OpenOn.path] = Components(Bytes)
           /\ CutFiles' = IF Len(t) % Size = 0 THEN CutFiles \ {OpenOn.path}
                          ELSE CutFiles \cup {OpenOn.path}
           /\ UNCHANGED OpenOn
<1> DEFINE q == streams[file.h].path
<1>1. /\ q \in Paths /\ OpenOn.path = q /\ OpenOn.mode = "writing" /\ disk[q] = Bytes
      /\ Bytes # Missing /\ file.h # 0
      /\ Contents[OpenOn.path] = Components(Bytes)
  BY OpenFacts DEF SeqInvs, Writable
<1>2. disk' = [disk EXCEPT ![q] = t] /\ DOMAIN disk = Paths
  BY <1>1 DEF Extended, SeqInvs, FileInv, SlotsTypeOK
<1>3. Bytes' = disk'[q] /\ UNCHANGED OpenOn
  BY DEF Bytes, Content, OpenOn
<1> HIDE DEF q
<1>4. disk'[q] = t /\ \A p \in Paths : p # q => disk'[p] = disk[p]
  BY <1>1, <1>2
<1>5. t # Missing
  <2>1. OnAFile(disk', streams', file')
    BY DEF FileInv, OnAFile
  <2>2. disk'[q] \in Seq(Byte)
    BY <1>1, <2>1 DEF OnAFile, q
  <2> QED BY <1>4, <2>2, FileAssumption
<1>6. Contents' = [Contents EXCEPT ![q] = Components(t)]
  <2> DEFINE ElementsOf(b) == IF b = Missing THEN Missing ELSE Components(b)
  <2>1. Contents = [p \in Paths |-> ElementsOf(disk[p])]
    BY DEF Contents, Elements
  <2>2. Contents' = [p \in Paths |-> ElementsOf(disk'[p])]
    BY DEF Contents, Elements
  <2>3. ElementsOf(t) = Components(t)
    BY <1>5
  <2> HIDE DEF ElementsOf
  <2>4. \A p \in Paths : ElementsOf(disk'[p]) = IF p = q THEN Components(t) ELSE ElementsOf(disk[p])
    BY <1>4, <2>3
  <2>5. [Contents EXCEPT ![q] = Components(t)]
            = [p \in Paths |-> IF p = q THEN Components(t) ELSE ElementsOf(disk[p])]
    BY <2>1
  <2> QED BY <2>2, <2>4, <2>5
<1>7. CutFiles' = IF Len(t) % Size = 0 THEN CutFiles \ {q} ELSE CutFiles \cup {q}
  <2> DEFINE IsCut(b) == b # Missing /\ Len(b) % Size # 0
  <2>1. CutFiles = {p \in Paths : IsCut(disk[p])}
    BY DEF CutFiles
  <2>2. CutFiles' = {p \in Paths : IsCut(disk'[p])}
    BY DEF CutFiles
  <2>3. IsCut(t) <=> Len(t) % Size # 0
    BY <1>5
  <2> HIDE DEF IsCut
  <2>4. \A p \in Paths : IsCut(disk'[p]) <=> IF p = q THEN Len(t) % Size # 0 ELSE IsCut(disk[p])
    BY <1>4, <2>3
  <2> QED BY <1>1, <2>1, <2>2, <2>4
<1> QED
  BY <1>1, <1>3, <1>4, <1>5, <1>6, <1>7

LEMMA BeginWriteImplements ==
    ASSUME SeqInvs, FileInv', BeginWrite
    PROVE  SequenceInv' /\ Implements
<1>1. /\ kind = "typed" /\ ~Busy /\ Writable(streams, file) /\ job.at = "idle"
      /\ UNCHANGED <<kind, disk, streams, file, answer>> /\ before' = NoPlace
  BY DEF BeginWrite, Idle, Busy, slotVars
<1>2. PICK v \in Values : job' = [NoJob EXCEPT !.at = "write", !.left = Component, !.got = v]
  BY DEF BeginWrite
<1>3. /\ job'.at = "write" /\ job'.left = Component /\ job'.got = v /\ job'.out = <<>>
  BY <1>2 DEF NoJob
<1>4. /\ At = 0 /\ file.eof = 0 /\ file.peek = <<>> /\ file.h # 0
      /\ ~Readable(streams, file)
  BY <1>1 DEF SeqInvs, SequenceInv, InReach, WorkInv, PeekIsRead, Writable, Readable
<1>5. Here = 0
  <2>1. Len(file.peek) = 0
    BY <1>4
  <2>2. Here = At - Len(file.peek)
    BY <1>4 DEF Here, At
  <2>3. At = 0
    BY <1>4
  <2> QED BY <2>1, <2>2, <2>3
<1>6. Place.pos = 0 /\ Place.eof = 0 /\ Place'.pos = 0 /\ Place'.eof = 0
  BY <1>1, <1>3, <1>4, <1>5 DEF Place, NoPlace, Busy
<1>7. UNCHANGED <<ElementsRead, NoneLeft>>
  BY <1>1, <1>6 DEF ElementsRead, NoneLeft
<1>8. Implements
  BY <1>1, <1>7, SameContents, Stutters DEF OpenOn
<1>9. Bytes' = Bytes /\ Bytes \in Seq(Byte) /\ Len(Bytes) \in Nat /\ Len(Bytes) % Size = 0
  <2>1. Bytes \in Seq(Byte)
    BY <1>1, OpenFacts DEF SeqInvs
  <2>2. Len(Bytes) % Size = 0
    BY <1>1 DEF SeqInvs, SequenceInv, WholeComponents
  <2>3. Bytes' = Bytes
    BY <1>1 DEF Bytes, Content
  <2> QED BY <2>1, <2>2, <2>3, LenProperties
<1>10. WriteJob(Bytes', Len(Bytes), v, 0, job')
  <2>1. /\ Component \in Seq(FieldSorts) /\ v \in Seq(Seq(Int)) /\ Len(v) = Len(Component)
    BY TypedAssumption
  <2>2. SubSeq(Component, 0 + 1, Len(Component)) = Component
    BY <2>1, SubSeqFull
  <2>3. SubSeq(v, 0 + 1, Len(Component)) = v
    BY <2>1, SubSeqFull
  <2>4. 0 \in 0..Len(Component) /\ 0 < Len(Component)
    BY ComponentFacts
  <2>5. PICK n \in Nat : n = Len(Bytes)
    BY <1>9
  <2>6. EncodedUpTo(Bytes, n, v)
    <3> SUFFICES ASSUME NEW k \in 1..Len(Component), NEW i \in 1..Width(Component[k])
                 PROVE  ~(n + Offset[k - 1] + i =< Len(Bytes))
      BY DEF EncodedUpTo
    <3>1. PICK a \in Nat : a = Offset[k - 1]
      <4>1. k - 1 \in 0..Len(Component)
        BY ComponentFacts
      <4> QED BY <4>1, OffsetsAreIncreasing
    <3>2. i \in Nat /\ i >= 1
      BY ComponentFacts
    <3> QED BY <2>5, <3>1, <3>2
  <2>7. n \in 0..n /\ n < n + Size /\ n = n + Offset[0]
    BY SizeFacts, OffsetsAreIncreasing
  <2>8. WriteJob(Bytes, n, v, 0, job')
    BY <1>3, <1>9, <2>2, <2>3, <2>4, <2>5, <2>6, <2>7 DEF WriteJob
  <2> QED BY <1>9, <2>5, <2>8
<1>11. WrittenSoFar'
  <2>1. 0 \in Nat
    OBVIOUS
  <2> QED BY <1>1, <1>9, <1>10, <2>1 DEF WrittenSoFar
<1>12. InReach'
  BY <1>1, <1>4 DEF SeqInvs, SequenceInv, InReach, Readable, Writable, At, Pos
<1>13. AtAComponent' /\ FieldsReadSoFar' /\ WholeComponents'
  BY <1>1, <1>3 DEF AtAComponent, FieldsReadSoFar, WholeComponents, FieldLabels, Busy
<1>14. SequenceInv'
  BY <1>1, <1>11, <1>12, <1>13, TypedInv
<1> QED
  BY <1>8, <1>14

LEMMA WritePieceImplements ==
    ASSUME SeqInvs, FileInv', WritePiece
    PROVE  SequenceInv' /\ Implements
<1> DEFINE s == Bytes
           p == LoadedOf(job)
           t == s \o Head(p.out)
           rest == RestOf(p)
<1>1. /\ job.at = "write" /\ Writable(streams, file) /\ Busy
      /\ disk' = Extended(disk, streams, file, Head(p.out))
      /\ job' = IF rest.out = <<>> /\ rest.left = <<>> THEN NoJob ELSE rest
      /\ UNCHANGED <<kind, streams, file, before, answer>>
  BY DEF WritePiece, LoadedOf, RestOf, Busy
<1>2. kind = "typed" /\ DOMAIN job = DOMAIN NoJob
  BY <1>1 DEF SeqInvs, FileInv, JobOK
<1>3. PICK v \in Values, base \in Nat, m \in Nat : WriteJob(s, base, v, m, job)
  BY <1>1 DEF SeqInvs, SequenceInv, WrittenSoFar
<1>4. before = NoPlace
  BY <1>1 DEF SeqInvs, SequenceInv, WrittenSoFar
<1>5. s \in Seq(Byte) /\ Len(s) \in Nat
  BY <1>1, OpenFacts, LenProperties DEF SeqInvs
<1>6. PieceAdded(s, base, v, job)
  BY <1>2, <1>3, <1>5, PieceIsWritten
<1>7. /\ t \in Seq(Byte) /\ Len(s) < Len(t) /\ \A i \in 1..Len(s) : t[i] = s[i]
      /\ WrittenTo(t, base, v, rest)
  BY <1>6 DEF PieceAdded
<1>8. rest.at = "write"
  <2>1. DOMAIN p = DOMAIN NoJob /\ p.at = "write"
    BY <1>1, <1>2, StatementFields DEF LoadedOf
  <2> QED BY <2>1, StatementFields
<1>9. /\ Bytes' = t /\ t # Missing /\ OpenOn.mode = "writing" /\ OpenOn.path \in Paths
      /\ Contents' = [Contents EXCEPT ![OpenOn.path] = Components(t)]
      /\ Contents[OpenOn.path] = Components(s)
      /\ CutFiles' = IF Len(t) % Size = 0 THEN CutFiles \ {OpenOn.path}
                     ELSE CutFiles \cup {OpenOn.path}
      /\ UNCHANGED OpenOn
  BY <1>1, <1>2, TypedWritten
<1> HIDE DEF p, t, rest
<1>10. Len(t) \in Nat
  BY <1>7, LenProperties
<1>11. /\ At = 0 /\ file.eof = 0 /\ file.peek = <<>> /\ file.h # 0 /\ ~Readable(streams, file)
  BY <1>1, <1>2 DEF SeqInvs, SequenceInv, InReach, WorkInv, PeekIsRead, Writable, Readable
<1>12. Here' = 0
  <2>1. Here = 0
    <3>1. Len(file.peek) = 0
      BY <1>11
    <3>2. Here = At - Len(file.peek)
      BY <1>11 DEF Here, At
    <3>3. At = 0
      BY <1>11
    <3> QED BY <3>1, <3>2, <3>3
  <2> QED BY <1>1, <2>1 DEF Here, Pos
<1>13. UNCHANGED <<ElementsRead, NoneLeft>>
  <2>1. Place.pos = 0 /\ Place.eof = 0
    BY <1>1, <1>4 DEF Place, NoPlace
  <2>2. Place'.pos = 0 /\ Place'.eof = 0
    BY <1>1, <1>4, <1>11, <1>12 DEF Place, NoPlace, Busy
  <2> QED BY <1>1, <2>1, <2>2 DEF ElementsRead, NoneLeft
<1>14. InReach' /\ AtAComponent' /\ FieldsReadSoFar'
  <2>1. ~Readable(streams, file)' /\ At' = 0 /\ file'.eof = 0 /\ file'.h # 0
    BY <1>1, <1>11 DEF Readable, At, Pos
  <2> QED BY <2>1 DEF InReach, AtAComponent, FieldsReadSoFar
<1>15. /\ base % Size = 0 /\ base \in 0..Len(s) /\ Len(s) < base + Size
  BY <1>3 DEF WriteJob
<1>16. CASE rest.out = <<>> /\ rest.left = <<>>
  <2>1. EncodedUpTo(t, base, v) /\ Len(t) = base + Size
    BY <1>7, <1>16 DEF WrittenTo
  <2>2. FieldsUpTo(t, base, Len(Component)) = v
    BY <1>7, <2>1, WrittenIsRead
  <2>3. base =< Len(s)
    BY <1>5, <1>15
  <2>4. Components(t) = Components(s) \o <<v>> /\ Len(t) % Size = 0
    BY <1>5, <1>7, <1>15, <2>1, <2>2, <2>3, ComponentAdded
  <2>5. <<v>> \in Data(kind)
    BY <1>2 DEF Data
  <2>6. Contents' = [Contents EXCEPT ![OpenOn.path] = @ \o <<v>>]
    BY <1>9, <2>4
  <2>7. Sequential!Write
    BY <1>1, <1>9, <1>13, <2>4, <2>5, <2>6 DEF Sequential!Write, Sequential!Kept
  <2>8. job'.at = "idle"
    BY <1>1, <1>16 DEF NoJob
  <2>9. WholeComponents' /\ WrittenSoFar'
    BY <1>9, <2>4, <2>8 DEF WholeComponents, WrittenSoFar
  <2>10. SequenceInv'
    BY <1>1, <1>2, <1>14, <2>9, TypedInv
  <2> QED BY <2>7, <2>10 DEF Implements, Sequential!Next
<1>17. CASE ~(rest.out = <<>> /\ rest.left = <<>>)
  <2>1. job' = rest /\ job'.at = "write"
    BY <1>1, <1>8, <1>17
  <2>2. PICK n \in Nat : WriteJob(t, base, v, n, rest)
    BY <1>7, <1>17 DEF WrittenTo
  <2>3. base \in 0..Len(t) /\ Len(t) < base + Size
    BY <2>2 DEF WriteJob
  <2>4. ~(base + Size =< Len(s)) /\ ~(base + Size =< Len(t)) /\ base # Len(t)
    BY <1>5, <1>7, <1>10, <1>15, <2>3, SizeFacts
  <2>5. Len(s) \div Size = base \div Size
    BY <1>5, <1>15, <2>4, ComponentAtPlace
  <2>6. Len(t) \div Size = base \div Size /\ Len(t) % Size # 0
    BY <1>10, <1>15, <2>3, <2>4, ComponentAtPlace
  <2>7. Len(s) =< Len(t)
    BY <1>5, <1>7, <1>10
  <2>8. Components(t) = Components(s)
    BY <1>5, <1>7, <2>5, <2>6, <2>7, ComponentsKept
  <2>9. Contents' = Contents
    <3>1. Contents = [x \in Paths |-> Contents[x]]
      BY DEF Contents
    <3> QED BY <1>9, <2>8, <3>1
  <2>10. Sequential!WritePart
    BY <1>1, <1>2, <1>9, <1>13, <2>6, <2>9 DEF Sequential!WritePart, Sequential!Kept
  <2>11. WholeComponents' /\ WrittenSoFar'
    <3>1. WriteJob(Bytes', base, v, n, job')
      BY <1>9, <2>1, <2>2
    <3> QED BY <1>1, <1>4, <2>1, <3>1 DEF WholeComponents, WrittenSoFar
  <2>12. SequenceInv'
    BY <1>1, <1>2, <1>14, <2>11, TypedInv
  <2> QED BY <2>10, <2>12 DEF Implements, Sequential!Next
<1> QED
  BY <1>16, <1>17

---------------------------------------------------------------------------
(* A component is read field by field, an integer byte by byte.             *)

LEMMA SmallerFacts ==
    ASSUME NEW a \in Nat, NEW l \in Nat
    PROVE  /\ Smaller(a, l) \in Nat /\ Smaller(a, l) =< a /\ Smaller(a, l) =< l
           /\ a =< l => Smaller(a, l) = a
           /\ l =< a => Smaller(a, l) = l
           /\ \A c \in Nat : Smaller(Smaller(a, l) + c, l) = Smaller(a + c, l)
  BY DEF Smaller

LEMMA SumGrows ==
    ASSUME NEW s \in Seq(Byte), NEW from \in Nat, NEW i \in 0..3, from + i + 1 =< Len(s)
    PROVE  /\ SumLE(s, from, i) \in Int /\ s[from + i + 1] * Weight[i + 1] \in Int
           /\ SumLE(s, from, i + 1) = SumLE(s, from, i) + s[from + i + 1] * Weight[i + 1]
<1>1. PICK R \in Nat : R = Radix
  BY FullFacts
<1>2. PICK R2 \in Nat : R2 = Radix * Radix
  BY <1>1
<1>3. PICK R3 \in Nat : R3 = Radix * Radix * Radix
  BY <1>1
<1>4. Weight[1] = 1 /\ Weight[2] = R /\ Weight[3] = R2 /\ Weight[4] = R3
  BY <1>1, <1>2, <1>3 DEF Weight
<1>5. \A j \in 1..i + 1 : s[from + j] \in Nat
  <2> TAKE j \in 1..i + 1
  <2>1. from + j \in 1..Len(s)
    BY TextFacts
  <2> QED BY <2>1, TextFacts
<1>6. \A n \in 0..4 :
          SumLE(s, from, n) = (IF n > 0 THEN s[from + 1] ELSE 0)
                              + (IF n > 1 THEN s[from + 2] * R ELSE 0)
                              + (IF n > 2 THEN s[from + 3] * R2 ELSE 0)
                              + (IF n > 3 THEN s[from + 4] * R3 ELSE 0)
  BY <1>1, <1>2, <1>3 DEF SumLE
<1>7. CASE i = 0
  <2>1. PICK a \in Nat : a = s[from + 1]
    BY <1>5, <1>7
  <2>2. SumLE(s, from, 0) = 0 /\ SumLE(s, from, 1) = a
    BY <1>6, <2>1
  <2>3. s[from + i + 1] * Weight[i + 1] = a
    BY <1>4, <1>7, <2>1
  <2> QED BY <1>7, <2>2, <2>3
<1>8. CASE i = 1
  <2>1. PICK a \in Nat : a = s[from + 1]
    BY <1>5, <1>8
  <2>2. PICK b \in Nat : b = s[from + 2] * R
    BY <1>5, <1>8
  <2>3. SumLE(s, from, 1) = a /\ SumLE(s, from, 2) = a + b
    BY <1>6, <2>1, <2>2
  <2>4. s[from + i + 1] * Weight[i + 1] = b
    BY <1>4, <1>8, <2>2
  <2> QED BY <1>8, <2>3, <2>4
<1>9. CASE i = 2
  <2>1. PICK a \in Nat : a = s[from + 1]
    BY <1>5, <1>9
  <2>2. PICK b \in Nat : b = s[from + 2] * R
    BY <1>5, <1>9
  <2>3. PICK c \in Nat : c = s[from + 3] * R2
    BY <1>5, <1>9
  <2>4. SumLE(s, from, 2) = a + b /\ SumLE(s, from, 3) = a + b + c
    BY <1>6, <2>1, <2>2, <2>3
  <2>5. s[from + i + 1] * Weight[i + 1] = c
    BY <1>4, <1>9, <2>3
  <2> QED BY <1>9, <2>4, <2>5
<1>10. CASE i = 3
  <2>1. PICK a \in Nat : a = s[from + 1]
    BY <1>5, <1>10
  <2>2. PICK b \in Nat : b = s[from + 2] * R
    BY <1>5, <1>10
  <2>3. PICK c \in Nat : c = s[from + 3] * R2
    BY <1>5, <1>10
  <2>4. PICK d \in Nat : d = s[from + 4] * R3
    BY <1>5, <1>10
  <2>a. 3 \in 0..4 /\ 4 \in 0..4
    OBVIOUS
  <2>b. SumLE(s, from, 3) = a + b + c + 0
    BY <1>6, <2>1, <2>2, <2>3, <2>a
  <2>c. SumLE(s, from, 4) = a + b + c + d
    BY <1>6, <2>1, <2>2, <2>3, <2>4, <2>a
  <2>5. SumLE(s, from, 3) = a + b + c /\ SumLE(s, from, 4) = a + b + c + d
    BY <2>b, <2>c
  <2>6. s[from + i + 1] * Weight[i + 1] = d
    BY <1>4, <1>10, <2>4
  <2> QED BY <1>10, <2>5, <2>6
<1> QED
  BY <1>7, <1>8, <1>9, <1>10

(* lowerReadI32LE: a byte is added at its place; four of them are the       *)
(* integer.                                                                 *)
LEMMA ByteIsAdded ==
    ASSUME NEW s \in Seq(Byte), NEW from \in Nat, NEW i \in 0..3, from + i + 1 =< Len(s)
    PROVE  AddByte(Wrapped(SumLE(s, from, i)), s[from + i + 1], Weight[i + 1])
               = Wrapped(SumLE(s, from, i + 1))
<1>1. PICK a \in Int : a = SumLE(s, from, i)
  BY SumGrows
<1>2. PICK b \in Int : b = s[from + i + 1] * Weight[i + 1]
  BY SumGrows
<1>3. SumLE(s, from, i + 1) = a + b
  BY <1>1, <1>2, SumGrows
<1>4. AddByte(Wrapped(a), s[from + i + 1], Weight[i + 1]) = Wrapped(Wrapped(a) + Wrapped(b))
  BY <1>2 DEF AddByte
<1>5. Wrapped(Wrapped(a) + Wrapped(b)) = Wrapped(a + b)
  BY WrappedSums
<1> QED
  BY <1>1, <1>3, <1>4, <1>5

LEMMA SumIsField ==
    ASSUME NEW s \in Seq(Byte), NEW start \in Nat, NEW k \in 1..Len(Component),
           Component[k] = "integer", start + Offset[k] =< Len(s)
    PROVE  <<Wrapped(SumLE(s, start + Offset[k - 1], 4))>> = FieldAt(s, start, k)
<1> DEFINE b == SubSeq(s, start + Offset[k - 1] + 1, start + Offset[k])
<1>1. PICK from \in Nat : from = start + Offset[k - 1]
  <2>1. k - 1 \in 0..Len(Component)
    BY ComponentFacts
  <2> QED BY <2>1, OffsetsAreIncreasing
<1>2. Width(Component[k]) = 4
  BY DEF Width
<1>3. b \in Seq(Byte) /\ Len(b) = 4 /\ \A i \in 1..4 : b[i] = s[from + i]
  <2>1. /\ b \in Seq(Byte) /\ Len(b) = Width(Component[k])
        /\ \A i \in 1..Width(Component[k]) : b[i] = s[start + Offset[k - 1] + i]
    BY FieldPlaces
  <2> HIDE DEF b
  <2> QED BY <1>1, <1>2, <2>1
<1>4. FieldAt(s, start, k) = <<SignedLE(b)>>
  BY DEF FieldAt, Field
<1> HIDE DEF b
<1>5. b[1] \in Byte /\ b[2] \in Byte /\ b[3] \in Byte /\ b[4] \in Byte
  <2>1. 1 \in 1..Len(b) /\ 2 \in 1..Len(b) /\ 3 \in 1..Len(b) /\ 4 \in 1..Len(b)
    BY <1>3
  <2> QED BY <1>3, <2>1, TextFacts
<1>6. SignedLE(b) = Signed(Sum4(b[1], b[2], b[3], b[4]))
  BY DEF SignedLE, Signed, Sum4
<1>7. SumLE(s, from, 4) = ((b[1] + b[2] * Radix) + b[3] * (Radix * Radix))
                          + b[4] * (Radix * Radix * Radix)
  <2>1. b[1] = s[from + 1] /\ b[2] = s[from + 2] /\ b[3] = s[from + 3] /\ b[4] = s[from + 4]
    BY <1>3
  <2>2. 4 > 0 /\ 4 > 1 /\ 4 > 2 /\ 4 > 3
    OBVIOUS
  <2> QED BY <2>1, <2>2 DEF SumLE
<1>8. SumLE(s, from, 4) = Sum4(b[1], b[2], b[3], b[4]) /\ SumLE(s, from, 4) \in 0..Full - 1
  <2>1. /\ Sum4(b[1], b[2], b[3], b[4]) \in 0..Full - 1
        /\ Sum4(b[1], b[2], b[3], b[4])
               = ((b[1] + b[2] * Radix) + b[3] * (Radix * Radix))
                 + b[4] * (Radix * Radix * Radix)
    BY <1>5, SumFacts
  <2> QED BY <1>7, <2>1, Zenon
<1>9. Wrapped(SumLE(s, from, 4)) = Signed(SumLE(s, from, 4))
  BY <1>8, WrappedIsSigned
<1> QED
  BY <1>1, <1>4, <1>6, <1>8, <1>9

LEMMA FieldsGrow ==
    ASSUME NEW s, NEW start, NEW n \in Nat
    PROVE  /\ FieldsUpTo(s, start, 0) = <<>>
           /\ Append(FieldsUpTo(s, start, n), FieldAt(s, start, n + 1))
                  = FieldsUpTo(s, start, n + 1)
<1> DEFINE F(k) == FieldAt(s, start, k)
           S == {F(k) : k \in 1..n + 1}
           f == FieldsUpTo(s, start, n)
           g == FieldsUpTo(s, start, n + 1)
           h == FieldsUpTo(s, start, 0)
<1>1. f = [k \in 1..n |-> F(k)] /\ g = [k \in 1..n + 1 |-> F(k)] /\ h = [k \in 1..0 |-> F(k)]
  BY DEF FieldsUpTo
<1>2. \A k \in 1..n + 1 : F(k) \in S
  OBVIOUS
<1>3. n + 1 \in Nat /\ 0 \in Nat /\ n + 1 \in 1..n + 1 /\ \A k \in 1..n : k \in 1..n + 1
  OBVIOUS
<1> HIDE DEF F, S, f, g, h
<1>4. f \in [1..n -> S] /\ g \in [1..n + 1 -> S]
  BY <1>1, <1>2, <1>3
<1>5. h \in [1..0 -> S]
  <2>1. 1..0 = {}
    OBVIOUS
  <2> QED BY <1>1, <2>1
<1>6. f \in Seq(S) /\ Len(f) = n /\ g \in Seq(S) /\ Len(g) = n + 1 /\ h \in Seq(S) /\ Len(h) = 0
  BY <1>3, <1>4, <1>5, LengthIs
<1>7. F(n + 1) \in S
  BY <1>2, <1>3
<1> DEFINE a == Append(f, F(n + 1))
<1>8. a \in Seq(S) /\ Len(a) = n + 1 /\ (\A i \in 1..n : a[i] = f[i]) /\ a[n + 1] = F(n + 1)
  BY <1>6, <1>7, AppendProperties
<1> HIDE DEF a
<1>9. \A i \in 1..n + 1 : a[i] = g[i]
  <2> TAKE i \in 1..n + 1
  <2>1. i = n + 1 \/ i \in 1..n
    OBVIOUS
  <2>2. g[i] = F(i)
    BY <1>1
  <2>3. i \in 1..n => f[i] = F(i)
    BY <1>1
  <2> QED BY <1>8, <2>1, <2>2, <2>3
<1>10. a = g
  BY <1>6, <1>8, <1>9, SeqEqual
<1>11. h = <<>>
  BY <1>6, EmptySeq
<1> QED
  BY <1>10, <1>11 DEF a, f, g, h, F

(* What is known when a statement has read all fields.                      *)
FieldsDone(s, start, j, pos, eof, eof0) ==
    /\ start \in 0..Len(s) /\ (start % Size = 0 \/ start = Len(s))
    /\ pos = Smaller(start + Size, Len(s)) /\ eof \in {eof0, 1}
    /\ start = Len(s) => eof = 1
    /\ Whole(s, start) => eof = eof0 /\ j.got = FieldsUpTo(s, start, Len(Component))
ReadOn(s, start, j, pos, eof, eof0) ==
    IF j.at = "idle" THEN FieldsDone(s, start, j, pos, eof, eof0)
    ELSE \E n \in Nat : FieldsJob(s, start, n, j, pos, eof, eof0)

LEMMA FieldReadFields ==
    ASSUME NEW j, DOMAIN j = DOMAIN NoJob, NEW x
    PROVE  LET r == FieldRead(j, x)
           IN  /\ DOMAIN r = DOMAIN NoJob /\ r.got = Append(j.got, x) /\ r.left = Tail(j.left)
               /\ r.at = FieldLabel(Tail(j.left)) /\ r.byte = 0 /\ r.value = 0
<1>1. DOMAIN j = {"at", "left", "whole", "got", "acc", "out", "byte", "value", "shift"}
  BY DEF NoJob
<1> QED
  BY <1>1 DEF FieldRead, NoJob

LEMMA OffsetOfNext ==
    ASSUME NEW n \in 0..Len(Component) - 1
    PROVE  /\ n + 1 \in 1..Len(Component) /\ (n + 1) - 1 = n /\ n \in Nat
           /\ Offset[n] \in Nat /\ Offset[n + 1] \in Nat /\ Width(Component[n + 1]) \in Nat
           /\ Offset[n + 1] = Offset[n] + Width(Component[n + 1]) /\ Offset[n + 1] =< Size
           /\ Component[n + 1] \in FieldSorts
<1>1. PICK l \in Nat : l = Len(Component)
  BY ComponentFacts
<1>2. n + 1 \in 1..l /\ (n + 1) - 1 = n /\ n \in 0..l /\ n + 1 \in 0..l /\ l \in 0..l
      /\ n + 1 =< l /\ n \in Nat
  BY <1>1
<1>3. Offset[n] \in Nat /\ Offset[n + 1] \in Nat /\ Offset[n + 1] =< Offset[l]
  BY <1>1, <1>2, OffsetsAreIncreasing
<1>4. Offset[n + 1] = Offset[n] + Width(Component[n + 1])
  BY <1>1, <1>2, OffsetsAreIncreasing
<1>5. Width(Component[n + 1]) \in Nat /\ Component[n + 1] \in FieldSorts
  BY <1>1, <1>2, ComponentFacts
<1> QED
  BY <1>1, <1>2, <1>3, <1>4, <1>5 DEF Size

LEMMA FieldGoesOn ==
    ASSUME NEW s \in Seq(Byte), NEW start \in 0..Len(s), start % Size = 0 \/ start = Len(s),
           NEW n \in 0..Len(Component) - 1, NEW j, DOMAIN j = DOMAIN NoJob,
           j.left = SubSeq(Component, n + 1, Len(Component)),
           NEW pos, pos = Smaller(start + Offset[n + 1], Len(s)),
           NEW eof0, NEW eof \in {eof0, 1}, start = Len(s) => eof = 1, NEW x,
           Whole(s, start) =>
               eof = eof0 /\ j.got = FieldsUpTo(s, start, n) /\ x = FieldAt(s, start, n + 1)
    PROVE  ReadOn(s, start, FieldRead(j, x), pos, eof, eof0)
<1> DEFINE r == FieldRead(j, x)
           left == SubSeq(Component, (n + 1) + 1, Len(Component))
<1>1. /\ r.got = Append(j.got, x) /\ r.left = Tail(j.left)
      /\ r.at = FieldLabel(Tail(j.left)) /\ r.byte = 0 /\ r.value = 0
  BY FieldReadFields
<1>2. Component \in Seq(FieldSorts) /\ Len(Component) \in Nat
  BY TypedAssumption, ComponentFacts
<1>3. n \in 0..Len(Component) /\ n # Len(Component) /\ n + 1 \in 0..Len(Component) /\ n \in Nat
  BY <1>2
<1>4. Tail(j.left) = left
  BY <1>2, <1>3, LeftFacts
<1>5. left = <<>> <=> n + 1 = Len(Component)
  BY <1>2, <1>3, LeftFacts
<1>6. n + 1 # Len(Component) => Head(left) = Component[(n + 1) + 1]
  BY <1>2, <1>3, LeftFacts
<1>7. Whole(s, start) => eof = eof0 /\ r.got = FieldsUpTo(s, start, n + 1)
  BY <1>1, <1>3, FieldsGrow
<1> HIDE DEF r, left
<1>8. CASE n + 1 = Len(Component)
  <2>1. r.at = "idle"
    BY <1>1, <1>4, <1>5, <1>8 DEF FieldLabel
  <2>2. FieldsDone(s, start, r, pos, eof, eof0)
    BY <1>7, <1>8 DEF FieldsDone, Size
  <2> QED BY <2>1, <2>2 DEF ReadOn, r
<1>9. CASE n + 1 # Len(Component)
  <2>1. PICK k \in 0..Len(Component) - 1 : k = n + 1
    BY <1>2, <1>9
  <2>2. k \in Nat /\ Offset[k] \in Nat /\ Component[k + 1] \in FieldSorts
    BY <2>1, OffsetOfNext
  <2>3. r.at = LabelOfField[Component[k + 1]] /\ r.left = SubSeq(Component, k + 1, Len(Component))
    BY <1>1, <1>4, <1>5, <1>6, <1>9, <2>1 DEF FieldLabel, left
  <2>4. r.at # "idle"
    BY <2>2, <2>3 DEF LabelOfField, FieldSorts
  <2>5. pos = Smaller(start + Offset[k] + r.byte, Len(s))
    <3>1. Len(s) \in Nat /\ start \in Nat
      BY TextFacts
    <3>2. start + Offset[k] + r.byte = start + Offset[k]
      BY <1>1, <2>2, <3>1
    <3> QED BY <2>1, <3>2
  <2>6. SumLE(s, start + Offset[k], r.byte) = 0 /\ Wrapped(0) = 0
    <3>1. ~(0 > 0) /\ ~(0 > 1) /\ ~(0 > 2) /\ ~(0 > 3)
      OBVIOUS
    <3>2. SumLE(s, start + Offset[k], 0) = 0
      BY <3>1 DEF SumLE
    <3>3. 0 \in -Half..Half - 1 /\ 0 = 0 + Full * 0
      BY FullFacts
    <3>4. Wrapped(0) = 0
      BY <3>3, WrapsToSame
    <3> QED BY <1>1, <3>2, <3>4
  <2>7. r.byte \in 0..3
    BY <1>1
  <2>8. FieldsJob(s, start, k, r, pos, eof, eof0)
    BY <1>1, <1>7, <2>1, <2>3, <2>5, <2>6, <2>7 DEF FieldsJob
  <2> QED BY <2>2, <2>4, <2>8 DEF ReadOn, r
<1> QED
  BY <1>8, <1>9

(* The places a field of which some bytes are read takes in a file.         *)
LEMMA FieldThere ==
    ASSUME NEW s \in Seq(Byte), NEW start \in 0..Len(s), NEW n \in 0..Len(Component) - 1,
           NEW i \in Nat, NEW c \in Nat, c > 0, i + c =< Width(Component[n + 1]),
           NEW pos, pos = Smaller(start + Offset[n] + i, Len(s))
    PROVE  /\ pos \in 0..Len(s)
           /\ Smaller(pos + c, Len(s)) = Smaller(start + Offset[n] + (i + c), Len(s))
           /\ start = Len(s) => pos = Len(s)
           /\ Whole(s, start) =>
                /\ pos = start + Offset[n] + i /\ pos + c =< Len(s) /\ pos < Len(s)
                /\ start + Offset[n + 1] =< Len(s)
<1>1. PICK a \in Nat : a = Offset[n]
  BY OffsetOfNext
<1>2. PICK w \in Nat : w = Width(Component[n + 1])
  BY OffsetOfNext
<1>3. PICK b \in Nat : b = Offset[n + 1]
  BY OffsetOfNext
<1>4. PICK z \in Nat : z = Size
  BY SizeFacts
<1>5. PICK l \in Nat : l = Len(s)
  BY TextFacts
<1>6. b = a + w /\ b =< z /\ i + c =< w /\ start \in 0..l
  BY <1>1, <1>2, <1>3, <1>4, <1>5, OffsetOfNext
<1>7. start + a + i \in Nat /\ (start + a + i) + c = start + a + (i + c)
  BY <1>5, <1>6
<1>8. /\ pos \in Nat /\ pos =< l /\ (start + a + i =< l => pos = start + a + i)
      /\ (l =< start + a + i => pos = l)
      /\ Smaller(pos + c, l) = Smaller((start + a + i) + c, l)
  <2>1. PICK x \in Nat : x = start + a + i
    BY <1>7
  <2>2. pos = Smaller(x, l)
    BY <1>1, <1>5, <2>1
  <2>3. /\ Smaller(x, l) \in Nat /\ Smaller(x, l) =< l
        /\ (x =< l => Smaller(x, l) = x) /\ (l =< x => Smaller(x, l) = l)
    BY SmallerFacts
  <2>4. Smaller(Smaller(x, l) + c, l) = Smaller(x + c, l)
    BY SmallerFacts
  <2> QED BY <2>1, <2>2, <2>3, <2>4
<1>9. start = l => pos = l
  BY <1>5, <1>6, <1>8
<1>10. start + z =< l => pos = start + a + i /\ pos + c =< l /\ pos < l /\ start + b =< l
  BY <1>6, <1>8
<1>11. Whole(s, start) => start + z =< l
  BY <1>4, <1>5 DEF Whole
<1>12. pos \in 0..l
  BY <1>8
<1> QED
  BY <1>1, <1>3, <1>5, <1>7, <1>8, <1>9, <1>10, <1>11, <1>12

LEMMA IntByteIsRead ==
    ASSUME NEW s \in Seq(Byte), NEW start, NEW n \in Nat, NEW j, DOMAIN j = DOMAIN NoJob,
           NEW pos, NEW eof, NEW eof0, FieldsJob(s, start, n, j, pos, eof, eof0),
           j.at = "ri32", NEW chunk, pos = Len(s) => chunk = <<>>,
           pos # Len(s) => chunk = <<s[pos + 1]>> /\ j.shift = Weight[j.byte + 1]
    PROVE  LET next == AfterByte(j, chunk)
           IN  ReadOn(s, start, IF next.byte < 4 THEN next ELSE FieldRead(next, <<next.value>>),
                      Smaller(pos + 1, Len(s)), IF pos = Len(s) THEN 1 ELSE eof, eof0)
<1> DEFINE next == AfterByte(j, chunk)
           pos2 == Smaller(pos + 1, Len(s))
           eof2 == IF pos = Len(s) THEN 1 ELSE eof
<1>1. /\ n \in 0..Len(Component) - 1 /\ j.left = SubSeq(Component, n + 1, Len(Component))
      /\ j.at = LabelOfField[Component[n + 1]]
      /\ start \in 0..Len(s) /\ (start % Size = 0 \/ start = Len(s))
      /\ j.byte \in 0..3 /\ pos = Smaller(start + Offset[n] + j.byte, Len(s))
      /\ eof \in {eof0, 1}
      /\ Whole(s, start) =>
           /\ eof = eof0 /\ j.got = FieldsUpTo(s, start, n)
           /\ j.value = Wrapped(SumLE(s, start + Offset[n], j.byte))
  BY DEF FieldsJob
<1>2. /\ n + 1 \in 1..Len(Component) /\ (n + 1) - 1 = n /\ Offset[n] \in Nat
      /\ Component[n + 1] = "integer" /\ Width(Component[n + 1]) = 4
      /\ Offset[n + 1] = Offset[n] + 4
  <2>1. Component[n + 1] = "integer"
    BY <1>1, OffsetOfNext DEF LabelOfField, FieldSorts
  <2>2. Width(Component[n + 1]) = 4
    BY <2>1 DEF Width
  <2> QED BY <1>1, <2>1, <2>2, OffsetOfNext
<1>3. PICK i \in 0..3 : i = j.byte
  BY <1>1
<1>4. i \in Nat /\ 1 \in Nat /\ 1 > 0 /\ i + 1 =< Width(Component[n + 1])
  BY <1>2
<1>5. /\ pos \in 0..Len(s)
      /\ pos2 = Smaller(start + Offset[n] + (i + 1), Len(s))
      /\ start = Len(s) => pos = Len(s)
      /\ Whole(s, start) =>
           /\ pos = start + Offset[n] + i /\ pos + 1 =< Len(s) /\ pos < Len(s)
           /\ start + Offset[n + 1] =< Len(s)
  BY <1>1, <1>3, <1>4, FieldThere
<1>6. Len(s) \in Nat /\ start \in Nat
  BY <1>1, TextFacts
<1>7. eof2 \in {eof0, 1} /\ (start = Len(s) => eof2 = 1)
  BY <1>1, <1>5
<1>8. /\ DOMAIN next = DOMAIN NoJob /\ next.byte = i + 1 /\ next.left = j.left
      /\ next.got = j.got /\ next.at = j.at
      /\ chunk # <<>> => next.value = AddByte(j.value, chunk[1], j.shift)
  <2>1. DOMAIN j = {"at", "left", "whole", "got", "acc", "out", "byte", "value", "shift"}
    BY DEF NoJob
  <2> QED BY <1>3, <2>1 DEF AfterByte
<1>9. Whole(s, start) => next.value = Wrapped(SumLE(s, start + Offset[n], i + 1)) /\ eof2 = eof0
  <2> SUFFICES ASSUME Whole(s, start)
               PROVE  next.value = Wrapped(SumLE(s, start + Offset[n], i + 1)) /\ eof2 = eof0
    OBVIOUS
  <2>1. PICK from \in Nat : from = start + Offset[n]
    BY <1>2, <1>6
  <2>2. pos # Len(s) /\ pos + 1 = from + i + 1 /\ from + i + 1 =< Len(s)
    BY <1>5, <1>6, <2>1
  <2>3. chunk = <<s[from + i + 1]>> /\ j.shift = Weight[i + 1]
    BY <1>3, <2>2
  <2>4. chunk # <<>> /\ chunk[1] = s[from + i + 1]
    <3>1. from + i + 1 \in 1..Len(s)
      BY <1>6, <2>2
    <3>2. s[from + i + 1] \in Byte
      BY <3>1, TextFacts
    <3> QED BY <2>3, <3>2
  <2>5. next.value = AddByte(Wrapped(SumLE(s, from, i)), s[from + i + 1], Weight[i + 1])
    BY <1>1, <1>3, <1>8, <2>1, <2>3, <2>4
  <2>6. next.value = Wrapped(SumLE(s, from, i + 1))
    BY <2>2, <2>5, ByteIsAdded
  <2> QED BY <1>1, <2>1, <2>2, <2>6
<1> HIDE DEF next, pos2, eof2
<1>10. CASE i = 3
  <2>1. ~(next.byte < 4) /\ i + 1 = 4
    BY <1>8, <1>10
  <2>2. pos2 = Smaller(start + Offset[n + 1], Len(s))
    <3>1. start + Offset[n] + (i + 1) = start + Offset[n + 1]
      BY <1>2, <1>6, <1>10
    <3> QED BY <1>5, <3>1
  <2>3. Whole(s, start) =>
            /\ eof2 = eof0 /\ next.got = FieldsUpTo(s, start, n)
            /\ <<next.value>> = FieldAt(s, start, n + 1)
    <3> SUFFICES ASSUME Whole(s, start)
                 PROVE  /\ eof2 = eof0 /\ next.got = FieldsUpTo(s, start, n)
                        /\ <<next.value>> = FieldAt(s, start, n + 1)
      OBVIOUS
    <3>1. <<Wrapped(SumLE(s, start + Offset[(n + 1) - 1], 4))>> = FieldAt(s, start, n + 1)
      BY <1>2, <1>5, <1>6, SumIsField
    <3> QED BY <1>1, <1>2, <1>8, <1>9, <2>1, <3>1
  <2>4. ReadOn(s, start, FieldRead(next, <<next.value>>), pos2, eof2, eof0)
    BY <1>1, <1>7, <1>8, <2>2, <2>3, FieldGoesOn
  <2> QED BY <2>1, <2>4 DEF next, pos2, eof2
<1>11. CASE i # 3
  <2>1. next.byte < 4 /\ i + 1 \in 0..3
    BY <1>8, <1>11
  <2>2. next.at # "idle" /\ n \in Nat
    BY <1>8
  <2>3. FieldsJob(s, start, n, next, pos2, eof2, eof0)
    <3>1. start = Len(s) /\ (n > 0 \/ next.byte > 0) => eof2 = 1
      BY <1>7
    <3> QED BY <1>1, <1>5, <1>7, <1>8, <1>9, <2>1, <3>1 DEF FieldsJob
  <2> QED BY <2>1, <2>2, <2>3 DEF ReadOn, next, pos2, eof2
<1> QED
  BY <1>10, <1>11

LEMMA OtherFieldIsRead ==
    ASSUME NEW s \in Seq(Byte), NEW start, NEW n \in Nat, NEW j, DOMAIN j = DOMAIN NoJob,
           NEW pos, NEW eof, NEW eof0, FieldsJob(s, start, n, j, pos, eof, eof0),
           j.at # "ri32", NEW w, w = Width(Component[n + 1]), NEW x,
           SubSeq(s, pos + 1, Smaller(pos + w, Len(s))) # <<>> =>
               x = Field(Component[n + 1], SubSeq(s, pos + 1, Smaller(pos + w, Len(s))))
    PROVE  ReadOn(s, start, FieldRead(j, x), Smaller(pos + w, Len(s)),
                  IF pos = Len(s) THEN 1 ELSE eof, eof0)
<1> DEFINE pos2 == Smaller(pos + w, Len(s))
           eof2 == IF pos = Len(s) THEN 1 ELSE eof
<1>1. /\ n \in 0..Len(Component) - 1 /\ j.left = SubSeq(Component, n + 1, Len(Component))
      /\ start \in 0..Len(s) /\ (start % Size = 0 \/ start = Len(s))
      /\ j.byte = 0 /\ pos = Smaller(start + Offset[n] + j.byte, Len(s))
      /\ eof \in {eof0, 1}
      /\ Whole(s, start) => eof = eof0 /\ j.got = FieldsUpTo(s, start, n)
  BY DEF FieldsJob
<1>2. /\ n + 1 \in 1..Len(Component) /\ (n + 1) - 1 = n /\ Offset[n] \in Nat
      /\ w \in Nat /\ w > 0 /\ Offset[n + 1] = Offset[n] + w /\ Offset[n + 1] \in Nat
  <2>1. n + 1 \in 1..Len(Component)
    BY <1>1, OffsetOfNext
  <2>2. w \in Nat \ {0}
    BY <2>1, ComponentFacts
  <2> QED BY <1>1, <2>1, <2>2, OffsetOfNext
<1>3. 0 \in Nat /\ 0 + w =< Width(Component[n + 1])
  BY <1>2
<1>4. /\ pos \in 0..Len(s)
      /\ pos2 = Smaller(start + Offset[n] + (0 + w), Len(s))
      /\ start = Len(s) => pos = Len(s)
      /\ Whole(s, start) =>
           /\ pos = start + Offset[n] + 0 /\ pos + w =< Len(s) /\ pos < Len(s)
           /\ start + Offset[n + 1] =< Len(s)
  BY <1>1, <1>2, <1>3, FieldThere
<1>5. Len(s) \in Nat /\ start \in Nat
  BY <1>1, TextFacts
<1>6. eof2 \in {eof0, 1} /\ (start = Len(s) => eof2 = 1)
  BY <1>1, <1>4
<1>7. pos2 = Smaller(start + Offset[n + 1], Len(s))
  <2>1. start + Offset[n] + (0 + w) = start + Offset[n + 1]
    BY <1>2, <1>5
  <2> QED BY <1>4, <2>1
<1>8. ASSUME Whole(s, start) PROVE eof2 = eof0 /\ x = FieldAt(s, start, n + 1)
  <2>1. pos # Len(s) /\ pos = start + Offset[n] /\ pos2 = start + Offset[n + 1]
    <3>1. pos < Len(s) /\ pos = start + Offset[n]
      BY <1>2, <1>4, <1>5, <1>8
    <3>2. start + Offset[n + 1] \in Nat /\ start + Offset[n + 1] =< Len(s)
      BY <1>2, <1>4, <1>5, <1>8
    <3>3. pos2 = start + Offset[n + 1]
      BY <1>5, <1>7, <3>2, SmallerFacts
    <3>4. pos # Len(s)
      BY <1>4, <1>5, <3>1
    <3> QED BY <3>1, <3>3, <3>4
  <2> DEFINE b == SubSeq(s, start + Offset[(n + 1) - 1] + 1, start + Offset[n + 1])
  <2>2. SubSeq(s, pos + 1, pos2) = b
    BY <1>2, <2>1
  <2>3. b \in Seq(Byte) /\ Len(b) = w
    BY <1>2, <1>4, <1>5, <1>8, FieldPlaces
  <2>4. FieldAt(s, start, n + 1) = Field(Component[n + 1], b)
    BY DEF FieldAt
  <2> HIDE DEF b
  <2>5. b # <<>>
    <3> SUFFICES ASSUME b = <<>> PROVE FALSE
      OBVIOUS
    <3>1. Len(b) = 0
      BY EmptySeq
    <3> QED BY <1>2, <2>3, <3>1
  <2> QED BY <1>1, <1>8, <2>1, <2>2, <2>4, <2>5
<1> HIDE DEF pos2, eof2
<1>9. ReadOn(s, start, FieldRead(j, x), pos2, eof2, eof0)
  BY <1>1, <1>6, <1>7, <1>8, FieldGoesOn
<1> QED
  BY <1>9 DEF pos2, eof2

LEMMA TypedView ==
    ASSUME FileInv, kind = "typed", Readable(streams, file)
    PROVE  /\ Sequential!Text = Components(Bytes) /\ Sequential!Reading
           /\ Sequential!Length = Len(Bytes) \div Size
           /\ OpenOn.path \in Paths /\ disk[OpenOn.path] = Bytes /\ Bytes # Missing
<1>1. /\ Sequential!Text = Components(Bytes) /\ Bytes \in Seq(Byte)
      /\ OpenOn.path \in Paths /\ disk[OpenOn.path] = Bytes /\ Bytes # Missing
  BY OpenFacts DEF Sequential!Text
<1>2. OpenOn.mode = "reading"
  BY OpenFacts DEF Readable
<1>3. Components(Bytes) # Missing /\ Len(Components(Bytes)) = Len(Bytes) \div Size
  BY <1>1, ComponentsFacts
<1> QED
  BY <1>1, <1>2, <1>3 DEF Sequential!Reading, Sequential!Length

(* A step that asks the host for bytes of a field.                          *)
LEMMA FetchFieldReaches ==
    ASSUME SeqInvs, NEW at \in FieldLabels, NEW n \in Nat \ {0}, FetchField(at, n)
    PROVE  /\ kind = "typed" /\ Busy /\ Readable(streams, file) /\ Readable(streams, file)'
           /\ Bytes \in Seq(Byte) /\ Bytes' = Bytes /\ At \in 0..Len(Bytes)
           /\ At' = Smaller(At + n, Len(Bytes))
           /\ Found(n) = SubSeq(Bytes, At + 1, Smaller(At + n, Len(Bytes)))
           /\ Found(n) = <<>> <=> At = Len(Bytes)
           /\ file'.eof = IF At = Len(Bytes) THEN 1 ELSE file.eof
           /\ file'.h = file.h /\ file.h # 0 /\ Here' = At'
           /\ UNCHANGED <<kind, Contents, CutFiles, file.path, OpenOn>>
<1>1. /\ job.at = at /\ Readable(streams, file) /\ streams' = Advanced(streams, file, n)
      /\ file' = IF Found(n) = <<>> THEN [file EXCEPT !.eof = 1] ELSE file
      /\ kind' = kind /\ disk' = disk
  BY DEF FetchField
<1>2. kind = "typed" /\ Busy
  BY <1>1 DEF SeqInvs, FileInv, JobOK, FieldLabels, Busy
<1>3. file.peek = <<>> /\ file \in Slots
  BY <1>2 DEF SeqInvs, WorkInv, PeekIsRead, FileInv, SlotsTypeOK
<1>4. /\ file'.h = file.h /\ file'.peek = <<>> /\ file'.path = file.path
      /\ file'.eof = IF Found(n) = <<>> THEN 1 ELSE file.eof
  BY <1>1, <1>3 DEF Slots
<1>5. /\ Bytes \in Seq(Byte) /\ At \in Nat /\ file.h # 0
  BY <1>1, LengthFacts DEF SeqInvs
<1>6. At =< Len(Bytes)
  BY <1>1 DEF SeqInvs, SequenceInv, InReach
<1>7. Len(Bytes) \in Nat /\ At \in 0..Len(Bytes)
  BY <1>5, <1>6, TextFacts
<1>8. Moved
  BY <1>1, FetchFieldMoves DEF SeqInvs
<1>9. Bytes' = Bytes /\ Readable(streams, file)' /\ OpenOn' = OpenOn
  <2>1. OpenOn' = OpenOn
    BY <1>8, SameOpen DEF SeqInvs
  <2>2. OpenOn.path = streams[file.h].path /\ OpenOn.mode = streams[file.h].mode
    BY <1>5 DEF OpenOn
  <2>3. OpenOn'.path = streams'[file'.h].path /\ OpenOn'.mode = streams'[file'.h].mode
    BY <1>4, <1>5 DEF OpenOn
  <2>4. streams'[file'.h].path = streams[file.h].path /\ streams'[file'.h].mode = streams[file.h].mode
    BY <2>1, <2>2, <2>3
  <2> QED BY <1>1, <1>4, <1>5, <2>1, <2>4 DEF Bytes, Content, Readable
<1>10. At' = Smaller(At + n, Len(Bytes))
  <2>1. Pos(Advanced(streams, file, n), file) = ReadEnd(streams, file, n)
    BY <1>1, ReadFacts DEF SeqInvs
  <2>2. At' = Pos(Advanced(streams, file, n), file)
    BY <1>1, <1>4 DEF At, Pos
  <2> QED BY <2>1, <2>2 DEF ReadEnd, At, Bytes
<1>11. Found(n) = SubSeq(Bytes, At + 1, Smaller(At + n, Len(Bytes)))
  BY DEF Found, Chunk, ReadEnd, At, Bytes
<1>12. Found(n) = <<>> <=> At = Len(Bytes)
  <2>1. PICK l \in Nat : l = Len(Bytes)
    BY <1>7
  <2>2. PICK a \in 0..l : a = At
    BY <1>7, <2>1
  <2>3. a + n \in Nat
    OBVIOUS
  <2>4. PICK e \in Nat : e = Smaller(a + n, l) /\ e =< l /\ (a # l => a < e) /\ (a = l => e = l)
    BY <2>3 DEF Smaller
  <2>5. SubSeq(Bytes, a + 1, e) \in Seq(Byte)
        /\ Len(SubSeq(Bytes, a + 1, e)) = IF a < e THEN e - a ELSE 0
    BY <1>5, <2>1, <2>4, PieceFacts
  <2>6. Found(n) = SubSeq(Bytes, a + 1, e)
    BY <1>11, <2>1, <2>2, <2>4
  <2>7. CASE a = l
    <3>1. Len(Found(n)) = 0 /\ Found(n) \in Seq(Byte)
      BY <2>4, <2>5, <2>6, <2>7
    <3>2. Found(n) = <<>>
      BY <3>1, EmptySeq
    <3> QED BY <2>1, <2>2, <2>7, <3>2
  <2>8. CASE a # l
    <3>1. Len(Found(n)) # 0
      BY <2>4, <2>5, <2>6, <2>8
    <3>2. Found(n) # <<>>
      BY <3>1, EmptySeq
    <3> QED BY <2>1, <2>2, <2>8, <3>2
  <2> QED BY <2>7, <2>8
<1>13. Here' = At'
  <2>1. Here' = At' - Len(file'.peek)
    BY <1>4, <1>5 DEF Here, At
  <2>2. Len(file'.peek) = 0
    BY <1>4
  <2>3. At' \in Nat
    BY <1>7, <1>10 DEF Smaller
  <2>4. Here' = At' - 0
    BY <2>1, <2>2
  <2>5. \A x \in Nat : x - 0 = x
    OBVIOUS
  <2> QED BY <2>3, <2>4, <2>5, Zenon
<1> QED
  BY <1>1, <1>2, <1>4, <1>5, <1>7, <1>9, <1>10, <1>11, <1>12, <1>13, SameContents

LEMMA ReadContinues ==
    ASSUME SeqInvs, FileInv', NEW at \in FieldLabels, NEW n \in Nat \ {0}, FetchField(at, n),
           NEW STATE j, Continue(j), j.at # "idle",
           NEW m \in Nat, FieldsJob(Bytes, before.pos, m, j, At', file'.eof, before.eof)
    PROVE  SequenceInv' /\ Implements
<1>1. /\ kind = "typed" /\ Busy /\ Readable(streams, file) /\ Readable(streams, file)'
      /\ Bytes \in Seq(Byte) /\ Bytes' = Bytes /\ At' = Smaller(At + n, Len(Bytes))
      /\ At \in 0..Len(Bytes) /\ file'.h = file.h /\ file.h # 0
      /\ UNCHANGED <<kind, Contents, CutFiles, file.path, OpenOn>>
  BY FetchFieldReaches
<1>2. job' = j /\ answer' = answer /\ before' = before
  BY DEF Continue
<1>3. Busy' /\ Place' = Place
  BY <1>1, <1>2 DEF Busy, Place
<1>4. Implements
  <2>1. UNCHANGED <<ElementsRead, NoneLeft>>
    BY <1>1, <1>3 DEF ElementsRead, NoneLeft
  <2> QED BY <1>1, <1>2, <2>1, Stutters
<1>5. FieldsReadSoFar'
  BY <1>1, <1>2 DEF FieldsReadSoFar
<1>6. ~Writable(streams, file)' /\ At' =< Len(Bytes')
  <2>1. Len(Bytes) \in Nat /\ At + n \in Nat
    BY <1>1, TextFacts
  <2>2. At' =< Len(Bytes)
    BY <1>1, <2>1, SmallerFacts
  <2> QED BY <1>1, <2>2 DEF Readable, Writable
<1>7. InReach' /\ AtAComponent' /\ WholeComponents' /\ WrittenSoFar'
  BY <1>1, <1>3, <1>6 DEF InReach, AtAComponent, WholeComponents, WrittenSoFar
<1> QED
  BY <1>1, <1>4, <1>5, <1>7, TypedInv

LEMMA ReadEndsHere ==
    ASSUME SeqInvs, FileInv', NEW at \in FieldLabels, NEW n \in Nat \ {0}, FetchField(at, n),
           NEW STATE j, Continue(j), j.at = "idle",
           FieldsDone(Bytes, before.pos, j, At', file'.eof, before.eof)
    PROVE  SequenceInv' /\ Implements
<1>1. /\ kind = "typed" /\ Busy /\ Readable(streams, file) /\ Readable(streams, file)'
      /\ Bytes \in Seq(Byte) /\ Bytes' = Bytes
      /\ file'.h = file.h /\ file.h # 0 /\ Here' = At'
      /\ UNCHANGED <<kind, Contents, CutFiles, file.path, OpenOn>>
  BY FetchFieldReaches
<1>2. job' = NoJob /\ answer' = Answer("read", j.got) /\ ~Busy'
  BY DEF Continue, Busy, NoJob
<1> DEFINE start == before.pos
<1>3. /\ start \in 0..Len(Bytes) /\ (start % Size = 0 \/ start = Len(Bytes))
      /\ At' = Smaller(start + Size, Len(Bytes)) /\ file'.eof \in {before.eof, 1}
      /\ start = Len(Bytes) => file'.eof = 1
      /\ Whole(Bytes, start) =>
             file'.eof = before.eof /\ j.got = FieldsUpTo(Bytes, start, Len(Component))
  BY DEF FieldsDone
<1>4. /\ Sequential!Text = Components(Bytes) /\ Sequential!Reading
      /\ Sequential!Length = Len(Bytes) \div Size
      /\ OpenOn.path \in Paths /\ disk[OpenOn.path] = Bytes /\ Bytes # Missing
  BY <1>1, TypedView DEF SeqInvs
<1>5. Len(Bytes) \in Nat /\ start \in Nat /\ start =< Len(Bytes) /\ start + Size \in Nat
  BY <1>1, <1>3, TextFacts, SizeFacts
<1>6. ElementsRead = start \div Size /\ (NoneLeft <=> before.eof = 1)
  BY <1>1 DEF ElementsRead, NoneLeft, Place
<1>7. ElementsRead' = At' \div Size /\ (NoneLeft' <=> file'.eof = 1)
  <2>1. Place'.pos = At' /\ Place'.eof = file'.eof
    BY <1>1, <1>2 DEF Place
  <2> QED BY <1>1, <2>1 DEF ElementsRead, NoneLeft
<1>8. NoneLeft \in BOOLEAN /\ NoneLeft' \in BOOLEAN
  BY DEF NoneLeft
<1> HIDE DEF start
<1>9. ASSUME Whole(Bytes, start)
     PROVE  Sequential!ReadComponent /\ (At' % Size = 0 \/ At' = Len(Bytes))
  <2>1. start % Size = 0 /\ start + Size =< Len(Bytes)
    BY <1>9 DEF Whole
  <2>2. /\ start \div Size \in Nat /\ Len(Bytes) \div Size \in Nat
        /\ start = (start \div Size) * Size
        /\ (start + Size) \div Size = start \div Size + 1 /\ (start + Size) % Size = 0
        /\ start \div Size < Len(Bytes) \div Size
    BY <1>3, <1>5, <2>1, ComponentAtPlace
  <2>3. At' = start + Size
    BY <1>3, <1>5, <2>1, SmallerFacts
  <2>4. ElementsRead' = ElementsRead + 1 /\ ElementsRead < Sequential!Length
    BY <1>4, <1>6, <1>7, <2>2, <2>3
  <2>5. Sequential!Text[ElementsRead + 1] = j.got
    <3>1. PICK c \in 1..Len(Bytes) \div Size : c = ElementsRead + 1
      BY <1>6, <2>2
    <3>2. c - 1 = start \div Size
      BY <1>6, <2>2, <3>1
    <3>3. Components(Bytes)[c] = FieldsUpTo(Bytes, (c - 1) * Size, Len(Component))
      BY <1>1, ComponentsFacts
    <3> QED BY <1>3, <1>4, <1>9, <2>2, <3>1, <3>2, <3>3
  <2>6. NoneLeft' = NoneLeft
    BY <1>3, <1>6, <1>7, <1>8, <1>9
  <2>7. answer' = [what |-> "read", values |-> Sequential!Text[ElementsRead + 1]]
    BY <1>2, <2>5 DEF Answer
  <2>8. Sequential!ReadComponent
    BY <1>1, <1>4, <2>4, <2>6, <2>7
       DEF Sequential!ReadComponent, Sequential!Answered, Sequential!Kept
  <2>9. At' % Size = 0 \/ At' = Len(Bytes)
    BY <2>2, <2>3
  <2> QED BY <2>8, <2>9
<1>10. ASSUME ~Whole(Bytes, start)
      PROVE  Sequential!ReadComponent /\ (At' % Size = 0 \/ At' = Len(Bytes))
  <2>1. At' = Len(Bytes)
    <3>1. ~(start + Size =< Len(Bytes))
      <4>1. start = Len(Bytes) => ~(start + Size =< Len(Bytes))
        BY <1>5, SizeFacts
      <4> QED BY <1>3, <1>10, <4>1 DEF Whole
    <3>2. Len(Bytes) =< start + Size
      BY <1>5, <3>1
    <3> QED BY <1>3, <1>5, <3>2, SmallerFacts
  <2>2. /\ start \div Size = Len(Bytes) \div Size
        /\ start # Len(Bytes) => Len(Bytes) % Size # 0
    <3>1. CASE start = Len(Bytes)
      BY <3>1
    <3>2. CASE start # Len(Bytes)
      <4>1. start % Size = 0 /\ ~(start + Size =< Len(Bytes))
        BY <1>3, <1>10, <3>2 DEF Whole
      <4> QED BY <1>3, <1>5, <3>2, <4>1, ComponentAtPlace
    <3> QED BY <3>1, <3>2
  <2>3. Len(Bytes) \div Size \in Nat
    BY <1>1, ComponentsFacts
  <2>4. ~(ElementsRead < Sequential!Length) /\ ElementsRead' = ElementsRead
    BY <1>4, <1>6, <1>7, <2>1, <2>2, <2>3
  <2>5. NoneLeft' = TRUE \/ (OpenOn.path \in CutFiles /\ NoneLeft' = NoneLeft)
    <3>1. CASE start = Len(Bytes)
      BY <1>3, <1>7, <1>8, <3>1
    <3>2. CASE start # Len(Bytes)
      <4>1. OpenOn.path \in CutFiles
        BY <1>1, <1>4, <2>2, <3>2 DEF CutFiles
      <4>2. NoneLeft' = TRUE \/ NoneLeft' = NoneLeft
        BY <1>3, <1>6, <1>7, <1>8
      <4> QED BY <4>1, <4>2
    <3> QED BY <3>1, <3>2
  <2>6. Sequential!ReadComponent
    BY <1>1, <1>4, <2>4, <2>5 DEF Sequential!ReadComponent, Sequential!Kept
  <2> QED BY <2>1, <2>6
<1>11. Sequential!ReadComponent /\ (At' % Size = 0 \/ At' = Len(Bytes))
  BY <1>9, <1>10
<1>12. ~Writable(streams, file)' /\ At' =< Len(Bytes')
  <2>1. At' =< Len(Bytes)
    BY <1>3, <1>5, SmallerFacts
  <2> QED BY <1>1, <2>1 DEF Readable, Writable
<1>13. job'.at = "idle"
  BY <1>2 DEF NoJob
<1>14. InReach' /\ AtAComponent' /\ FieldsReadSoFar' /\ WholeComponents' /\ WrittenSoFar'
  BY <1>1, <1>2, <1>11, <1>12, <1>13
     DEF InReach, AtAComponent, FieldsReadSoFar, WholeComponents, WrittenSoFar, FieldLabels
<1> QED
  BY <1>1, <1>11, <1>14, TypedInv DEF Implements, Sequential!Next

LEMMA ReadFieldGoesOn ==
    ASSUME SeqInvs, FileInv', NEW at \in FieldLabels, NEW n \in Nat \ {0}, FetchField(at, n),
           NEW STATE j, Continue(j),
           ReadOn(Bytes, before.pos, j, At', file'.eof, before.eof)
    PROVE  SequenceInv' /\ Implements
<1>1. CASE j.at = "idle"
  <2>1. FieldsDone(Bytes, before.pos, j, At', file'.eof, before.eof)
    BY <1>1 DEF ReadOn
  <2> QED BY <1>1, <2>1, ReadEndsHere
<1>2. CASE j.at # "idle"
  <2>1. PICK m \in Nat : FieldsJob(Bytes, before.pos, m, j, At', file'.eof, before.eof)
    BY <1>2 DEF ReadOn
  <2> QED BY <1>2, <2>1, ReadContinues
<1> QED
  BY <1>1, <1>2

LEMMA FieldStatementFacts ==
    ASSUME SeqInvs, NEW at \in FieldLabels, job.at = at, Readable(streams, file)
    PROVE  /\ DOMAIN job = DOMAIN NoJob
           /\ \E n \in Nat : FieldsJob(Bytes, before.pos, n, job, At, file.eof, before.eof)
<1>1. DOMAIN job = DOMAIN NoJob
  BY DEF SeqInvs, FileInv, JobOK
<1>2. job.at \in FieldLabels
  OBVIOUS
<1> QED
  BY <1>1, <1>2 DEF SeqInvs, SequenceInv, FieldsReadSoFar

LEMMA ReadIntByteImplements ==
    ASSUME SeqInvs, FileInv', MultiplierInv, ReadIntByte
    PROVE  SequenceInv' /\ Implements
<1>1. "ri32" \in FieldLabels /\ 1 \in Nat \ {0} /\ FetchField("ri32", 1) /\ job.at = "ri32"
      /\ Readable(streams, file)
  BY DEF ReadIntByte, FetchField, FieldLabels
<1> DEFINE next == AfterByte(job, Found(1))
           j == IF next.byte < 4 THEN next ELSE FieldRead(next, <<next.value>>)
<1>2. Continue(j)
  BY DEF ReadIntByte
<1>3. /\ Bytes \in Seq(Byte) /\ At \in 0..Len(Bytes) /\ At' = Smaller(At + 1, Len(Bytes))
      /\ Found(1) = <<>> <=> At = Len(Bytes)
      /\ file'.eof = IF At = Len(Bytes) THEN 1 ELSE file.eof
  BY <1>1, FetchFieldReaches
<1>4. DOMAIN job = DOMAIN NoJob
      /\ \E n \in Nat : FieldsJob(Bytes, before.pos, n, job, At, file.eof, before.eof)
  BY <1>1, FieldStatementFacts
<1>5. PICK n \in Nat : FieldsJob(Bytes, before.pos, n, job, At, file.eof, before.eof)
  BY <1>4
<1>6. ASSUME At # Len(Bytes)
      PROVE  Found(1) = <<Bytes[At + 1]>> /\ job.shift = Weight[job.byte + 1]
  <2>1. ~AtEnd(streams, file)
    <3>1. AtEnd(streams, file) <=> At >= Len(Bytes)
      BY <1>1, LengthFacts DEF SeqInvs
    <3>2. Len(Bytes) \in Nat
      BY <1>3, TextFacts
    <3> QED BY <1>3, <1>6, <3>1, <3>2
  <2>2. job.shift = Weight[job.byte + 1]
    BY <1>1, <2>1 DEF MultiplierInv
  <2>3. Found(1) = <<Bytes[At + 1]>>
    BY <1>1, <2>1, NextByte DEF SeqInvs, Found, Bytes, At
  <2> QED BY <2>2, <2>3
<1>7. At = Len(Bytes) => Found(1) = <<>>
  BY <1>3
<1>8. ReadOn(Bytes, before.pos, j, Smaller(At + 1, Len(Bytes)),
             IF At = Len(Bytes) THEN 1 ELSE file.eof, before.eof)
  BY <1>1, <1>3, <1>4, <1>5, <1>6, <1>7, IntByteIsRead
<1> HIDE DEF j
<1>9. ReadOn(Bytes, before.pos, j, At', file'.eof, before.eof)
  BY <1>3, <1>8
<1> QED
  BY <1>1, <1>2, <1>9, ReadFieldGoesOn

LEMMA WholeFieldIsRead ==
    ASSUME SeqInvs, FileInv', NEW at \in FieldLabels, at # "ri32", NEW sort \in FieldSorts,
           at = LabelOfField[sort], FetchField(at, Width(sort)), Width(sort) \in Nat \ {0},
           NEW STATE x, Continue(FieldRead(job, x)),
           Found(Width(sort)) # <<>> => x = Field(sort, Found(Width(sort)))
    PROVE  SequenceInv' /\ Implements
<1> DEFINE w == Width(sort)
           j == FieldRead(job, x)
<1>1. w \in Nat \ {0} /\ FetchField(at, w) /\ job.at = at /\ Readable(streams, file)
  BY DEF FetchField
<1> HIDE DEF w
<1>2. /\ Bytes \in Seq(Byte) /\ At \in 0..Len(Bytes) /\ At' = Smaller(At + w, Len(Bytes))
      /\ Found(w) = SubSeq(Bytes, At + 1, Smaller(At + w, Len(Bytes)))
      /\ file'.eof = IF At = Len(Bytes) THEN 1 ELSE file.eof
  BY <1>1, FetchFieldReaches
<1>3. DOMAIN job = DOMAIN NoJob
      /\ \E n \in Nat : FieldsJob(Bytes, before.pos, n, job, At, file.eof, before.eof)
  BY <1>1, FieldStatementFacts
<1>4. PICK n \in Nat : FieldsJob(Bytes, before.pos, n, job, At, file.eof, before.eof)
  BY <1>3
<1>5. Component[n + 1] = sort
  <2>1. n \in 0..Len(Component) - 1 /\ job.at = LabelOfField[Component[n + 1]]
    BY <1>4 DEF FieldsJob
  <2>2. Component[n + 1] \in FieldSorts
    BY <2>1, OffsetOfNext
  <2> QED BY <1>1, <2>1, <2>2 DEF LabelOfField, FieldSorts
<1>6. w = Width(Component[n + 1])
  BY <1>5 DEF w
<1>7. SubSeq(Bytes, At + 1, Smaller(At + w, Len(Bytes))) # <<>> =>
          x = Field(Component[n + 1], SubSeq(Bytes, At + 1, Smaller(At + w, Len(Bytes))))
  BY <1>2, <1>5 DEF w
<1>8. ReadOn(Bytes, before.pos, j, Smaller(At + w, Len(Bytes)),
             IF At = Len(Bytes) THEN 1 ELSE file.eof, before.eof)
  BY <1>1, <1>2, <1>3, <1>4, <1>6, <1>7, OtherFieldIsRead
<1> HIDE DEF j
<1>9. ReadOn(Bytes, before.pos, j, At', file'.eof, before.eof)
  BY <1>2, <1>8
<1>10. Continue(j)
  BY DEF j
<1> QED
  BY <1>1, <1>9, <1>10, ReadFieldGoesOn

LEMMA BeginReadComponentImplements ==
    ASSUME SeqInvs, FileInv', BeginReadComponent
    PROVE  SequenceInv' /\ Implements
<1>1. /\ kind = "typed" /\ ~Busy /\ Readable(streams, file) /\ job.at = "idle"
      /\ UNCHANGED <<kind, disk, streams, file, answer>>
      /\ Begin(FieldLabel(Component), Component, FALSE)
  BY DEF BeginReadComponent, Idle, Busy, slotVars
<1>2. /\ job'.at = FieldLabel(Component) /\ job'.left = Component /\ job'.got = <<>>
      /\ job'.byte = 0 /\ job'.value = 0
      /\ before'.pos = Here /\ before'.eof = file.eof
  BY <1>1 DEF Begin, NoJob
<1>3. /\ Component \in Seq(FieldSorts) /\ Component # <<>> /\ Len(Component) \in Nat \ {0}
      /\ 0 \in 0..Len(Component) - 1
  BY TypedAssumption, ComponentFacts
<1>4. SubSeq(Component, 0 + 1, Len(Component)) = Component
  BY <1>3, SubSeqFull
<1>5. FieldLabel(Component) = LabelOfField[Component[0 + 1]]
  <2>1. Head(Component) = Component[1]
    BY <1>3
  <2> QED BY <1>3, <2>1 DEF FieldLabel
<1>6. FieldLabel(Component) \in FieldLabels
  <2>1. Component[0 + 1] \in FieldSorts
    BY <1>3, OffsetOfNext
  <2> QED BY <1>5, <2>1 DEF LabelOfField, FieldSorts, FieldLabels
<1>7. /\ Bytes \in Seq(Byte) /\ At \in Nat /\ file.h # 0 /\ file.peek = <<>>
      /\ Here = At - Len(file.peek)
  BY <1>1, LengthFacts DEF SeqInvs, WorkInv, PeekIsRead
<1>8. Here = At
  <2>1. Len(file.peek) = 0
    BY <1>7
  <2>2. Here = At - 0
    BY <1>7, <2>1
  <2> QED BY <1>7, <2>2
<1>9. At \in 0..Len(Bytes) /\ (At % Size = 0 \/ At = Len(Bytes)) /\ Len(Bytes) \in Nat
  <2>1. At =< Len(Bytes)
    BY <1>1 DEF SeqInvs, SequenceInv, InReach
  <2>2. At % Size = 0 \/ At = Len(Bytes)
    BY <1>1 DEF SeqInvs, SequenceInv, AtAComponent
  <2> QED BY <1>7, <2>1, <2>2, TextFacts
<1>10. Bytes' = Bytes /\ At' = At /\ Readable(streams, file)' /\ OpenOn' = OpenOn
  BY <1>1 DEF Bytes, Content, At, Pos, Readable, OpenOn
<1>11. Busy' /\ Place'.pos = Place.pos /\ Place'.eof = Place.eof
  <2>1. Busy'
    BY <1>2, <1>6 DEF Busy, FieldLabels
  <2>2. Place.pos = Here /\ Place.eof = file.eof
    BY <1>1 DEF Place
  <2>3. Place' = before'
    BY <2>1 DEF Place
  <2> QED BY <1>2, <2>1, <2>2, <2>3
<1>12. Implements
  <2>1. UNCHANGED <<ElementsRead, NoneLeft>>
    BY <1>1, <1>11 DEF ElementsRead, NoneLeft
  <2> QED BY <1>1, <1>10, <2>1, SameContents, Stutters
<1>13. FieldsJob(Bytes, At, 0, job', At, file.eof, file.eof)
  <2>1. At = Smaller(At + Offset[0] + job'.byte, Len(Bytes))
    <3>1. Offset[0] = 0
      BY OffsetsAreIncreasing
    <3>2. At + 0 + 0 = At
      BY <1>7
    <3>3. Smaller(At, Len(Bytes)) = At
      BY <1>7, <1>9, SmallerFacts
    <3> QED BY <1>2, <3>1, <3>2, <3>3
  <2>2. ~(0 > 0 \/ job'.byte > 0) /\ job'.byte \in 0..3
    BY <1>2
  <2>3. job'.got = FieldsUpTo(Bytes, At, 0)
    <3>1. 0 \in Nat
      OBVIOUS
    <3> QED BY <1>2, <3>1, FieldsGrow
  <2>4. job'.value = Wrapped(SumLE(Bytes, At + Offset[0], job'.byte))
    <3>1. ~(0 > 0) /\ ~(0 > 1) /\ ~(0 > 2) /\ ~(0 > 3)
      OBVIOUS
    <3>2. SumLE(Bytes, At + Offset[0], 0) = 0
      BY <3>1 DEF SumLE
    <3>3. 0 \in -Half..Half - 1 /\ 0 = 0 + Full * 0
      BY FullFacts
    <3>4. Wrapped(0) = 0
      BY <3>3, WrapsToSame
    <3> QED BY <1>2, <3>2, <3>4
  <2>5. job'.byte = 0 /\ job'.left = SubSeq(Component, 0 + 1, Len(Component))
        /\ job'.at = LabelOfField[Component[0 + 1]]
    BY <1>2, <1>4, <1>5
  <2> QED BY <1>3, <1>9, <2>1, <2>2, <2>3, <2>4, <2>5 DEF FieldsJob
<1>14. FieldsReadSoFar'
  <2>1. FieldsJob(Bytes', before'.pos, 0, job', At', file'.eof, before'.eof)
    BY <1>1, <1>2, <1>8, <1>10, <1>13
  <2>2. 0 \in Nat
    OBVIOUS
  <2> QED BY <2>1, <2>2 DEF FieldsReadSoFar
<1>15. ~Writable(streams, file)' /\ At' =< Len(Bytes') /\ file'.h # 0
  <2>1. ~Writable(streams, file)'
    BY <1>10 DEF Readable, Writable
  <2> QED BY <1>1, <1>7, <1>9, <1>10, <2>1
<1>16. InReach' /\ AtAComponent' /\ WholeComponents' /\ WrittenSoFar'
  BY <1>11, <1>15 DEF InReach, AtAComponent, WholeComponents, WrittenSoFar
<1>17. SequenceInv'
  BY <1>1, <1>14, <1>16, TypedInv
<1> QED
  BY <1>12, <1>17

LEMMA TypedEofImplements ==
    ASSUME SeqInvs, TypedEof
    PROVE  SequenceInv' /\ Implements
<1>1. /\ kind = "typed" /\ ~Busy /\ UNCHANGED <<kind, disk, streams, file, job, before>>
      /\ answer' = Answer("eof", Truth(file.eof))
  BY DEF TypedEof, Idle, Busy, slotVars
<1>2. SequenceInv' /\ UNCHANGED <<Contents, CutFiles, OpenOn, ElementsRead, NoneLeft>>
  BY <1>1, SameSlots DEF SeqInvs
<1>3. NoneLeft <=> file.eof = 1
  BY <1>1 DEF NoneLeft, Place
<1>4. Truth(file.eof) = Sequential!Truth(NoneLeft)
  <2>1. file.eof \in {0, 1}
    BY DEF SeqInvs, FileInv, SlotsTypeOK, Slots
  <2> QED BY <1>3, <2>1 DEF Truth, Sequential!Truth
<1>5. Sequential!Eof
  BY <1>1, <1>2, <1>4 DEF Sequential!Eof, Sequential!Answered, Sequential!Kept, Answer
<1> QED
  BY <1>2, <1>5 DEF Implements, Sequential!Next

LEMMA TypedStepImplements ==
    ASSUME SeqInvs, FileInv', MultiplierInv, TypedStep
    PROVE  SequenceInv' /\ Implements
<1>1. CASE ReadCharByte
  <2> DEFINE x == IF Found(1) = <<>> THEN <<0>> ELSE Found(1)
  <2>1. Width("char") = 1 /\ "char" \in FieldSorts /\ "rch" \in FieldLabels
        /\ "rch" = LabelOfField["char"] /\ 1 \in Nat \ {0}
    BY DEF Width, FieldSorts, FieldLabels, LabelOfField
  <2>2. FetchField("rch", Width("char")) /\ Continue(FieldRead(job, x))
    BY <1>1, <2>1 DEF ReadCharByte
  <2>3. Found(Width("char")) # <<>> => x = Field("char", Found(Width("char")))
    BY <2>1 DEF Field
  <2> HIDE DEF x
  <2> QED BY <2>1, <2>2, <2>3, WholeFieldIsRead
<1>2. CASE ReadRealAscii
  <2> DEFINE x == Unpadded(Found(FieldWidth))
  <2>1. Width("real") = FieldWidth /\ "real" \in FieldSorts /\ "rr" \in FieldLabels
        /\ "rr" = LabelOfField["real"] /\ Width("real") \in Nat \ {0}
    BY TypedAssumption DEF Width, FieldSorts, FieldLabels, LabelOfField
  <2>2. FetchField("rr", Width("real")) /\ Continue(FieldRead(job, x))
    BY <1>2, <2>1 DEF ReadRealAscii
  <2>3. Found(Width("real")) # <<>> => x = Field("real", Found(Width("real")))
    BY <2>1 DEF Field
  <2> HIDE DEF x
  <2> QED BY <2>1, <2>2, <2>3, WholeFieldIsRead
<1> QED
  BY <1>1, <1>2, BeginWriteImplements, BeginReadComponentImplements, WritePieceImplements,
     ReadIntByteImplements, TypedEofImplements DEF TypedStep, FieldStep

---------------------------------------------------------------------------
(* The refinement.                                                          *)

LEMMA SequenceInitial == ASSUME Init PROVE SequenceInv /\ Sequential!Init
<1>1. /\ kind \in {"text", "typed"} /\ file = NoSlots /\ job = NoJob /\ answer = NoAnswer
  BY DEF Init
<1>2. file.h = 0 /\ file.path = NoPath /\ file.eof = 0 /\ job.at = "idle"
  BY <1>1 DEF NoSlots, NoJob
<1>3. ~Busy /\ ~Readable(streams, file) /\ ~Writable(streams, file)
  BY <1>2 DEF Busy, Readable, Writable
<1>4. Place.pos = 0 /\ Place.eof = 0
  BY <1>2, <1>3 DEF Place, Here
<1>5. ElementsRead = 0
  <2>1. 0 \div Size = 0
    BY SizeFacts
  <2> QED BY <1>4, <2>1 DEF ElementsRead
<1>6. OpenOn = Sequential!Closed /\ NoneLeft = FALSE
  BY <1>2, <1>4 DEF OpenOn, Sequential!Closed, NoneLeft
<1>7. Sequential!Init
  BY <1>1, <1>2, <1>5, <1>6 DEF Sequential!Init, NoAnswer
<1>8. SequenceInv
  BY <1>2, <1>3 DEF SequenceInv, InReach, TextReadSoFar, AtAComponent, FieldsReadSoFar,
                    WholeComponents, WrittenSoFar, TextLabels, FieldLabels
<1> QED
  BY <1>7, <1>8

LEMMA StepImplements ==
    ASSUME SeqInvs, MultiplierInv, [Next]_vars
    PROVE  SequenceInv' /\ Implements
<1>1. FileInv' /\ PeekIsRead'
  BY FileInvKept, PeekKept DEF SeqInvs
<1>2. CASE SlotStep
  BY <1>1, <1>2, SlotStepImplements
<1>3. CASE TextStep
  BY <1>1, <1>3, TextStepImplements
<1>4. CASE TypedStep
  BY <1>1, <1>4, TypedStepImplements
<1>5. CASE UNCHANGED vars
  <2>1. UNCHANGED <<kind, disk, streams, file, job, before, answer>>
    BY <1>5 DEF vars
  <2>2. SequenceInv' /\ UNCHANGED <<Contents, CutFiles, OpenOn, ElementsRead, NoneLeft>>
    BY <2>1, SameSlots DEF SeqInvs
  <2> QED BY <2>1, <2>2, Stutters
<1> QED
  BY <1>2, <1>3, <1>4, <1>5 DEF Next

(* The invariants hold together.                                            *)
LEMMA InvariantsHold ==
    Spec => [](FileInv /\ BufferAgrees /\ WorkInv /\ MultiplierInv /\ SequenceInv)
<1>1. Init => FileInv /\ BufferAgrees /\ WorkInv /\ MultiplierInv /\ SequenceInv
  <2> SUFFICES ASSUME Init PROVE FileInv /\ BufferAgrees /\ WorkInv /\ MultiplierInv /\ SequenceInv
    OBVIOUS
  <2>1. job = NoJob /\ before = NoPlace /\ file.peek = <<>> /\ file.h = 0 /\ job.at = "idle"
    BY DEF Init, NoSlots, NoJob
  <2>2. BufferAgrees /\ WorkInv
    BY <2>1, NoJobTyped DEF BufferAgrees, WorkInv, PeekIsRead, Readable, Writable
  <2>3. MultiplierInv
    BY <2>1 DEF MultiplierInv
  <2> QED BY <2>2, <2>3, FileInvInitial, SequenceInitial
<1>2. FileInv /\ BufferAgrees /\ WorkInv /\ MultiplierInv /\ SequenceInv /\ [Next]_vars
          => FileInv' /\ BufferAgrees' /\ WorkInv' /\ MultiplierInv' /\ SequenceInv'
  BY FileInvKept, BufferKept, WorkKept, MultiplierKept, StepImplements DEF SeqInvs
<1> QED
  BY <1>1, <1>2, PTL DEF Spec

(* Between any two rounds of the loops the generated code has, the place    *)
(* the host is at, what was read ahead, the token or the sum so far and     *)
(* the bytes a component has become are those that the statement, read from *)
(* the place at which it began, has come to (lowerTextFileRead,             *)
(* lowerReadComponent and lowerWriteRecordComponent).                       *)
THEOREM StatementsFollowTheFile == Spec => []SequenceInv
  BY InvariantsHold, PTL

(* The slots, the handles and the loops the compiler generates for a file   *)
(* variable are a sequential file: every step is one of its statements or   *)
(* changes nothing that can be seen of it. A text is read as the lines,     *)
(* words and numbers it consists of, whatever bytes it has, and a component *)
(* that was written is read back as it was (lowerTextFileRead,              *)
(* lowerWriteI32LE, lowerReadI32LE, lowerResetRewrite).                     *)
THEOREM FilesImplementSequentialFile == Spec => ImplementsSequentialFile
<1>1. Init => Sequential!Init
  BY SequenceInitial
<1>2. FileInv /\ BufferAgrees /\ WorkInv /\ MultiplierInv /\ SequenceInv /\ [Next]_vars
          => [Sequential!Next]_(Sequential!vars)
  BY StepImplements DEF SeqInvs, Implements
<1> QED
  BY <1>1, <1>2, InvariantsHold, PTL DEF Spec, ImplementsSequentialFile, Sequential!Spec
================================================================================
