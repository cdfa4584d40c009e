------------------------------- MODULE Numbers -------------------------------
(***************************************************************************)
(* Run-time values: integers, and reals as a whole number of quarters, so  *)
(* that halves, their products and their quotients stay exact.  A Boolean  *)
(* is the integer 0 or 1; a character has its code and a string a number   *)
(* that tells it from the others, 0 if it is empty.                        *)
(***************************************************************************)
EXTENDS Integers

Cell == [t : {"int", "real", "str"}, n : Int]      \* what a stack holds

Whole(n) == [t |-> "int", n |-> n]
Real(quarters) == [t |-> "real", n |-> quarters]
Truth(b) == Whole(IF b THEN 1 ELSE 0)
EndOfLine == [t |-> "eol", n |-> 0]
Glyph(code) == [t |-> "char", n |-> code]
Text(n) == [t |-> "str", n |-> n]
EmptyString == Text(0)

Quarters(v) == IF v.t = "real" THEN v.n ELSE 4 * v.n
Widen(v) == Real(Quarters(v))
Holds(v) == v.n # 0

Magnitude(n) == IF n < 0 THEN -n ELSE n

(* Integer division toward zero, and what it leaves.                        *)
Quotient(a, b) ==
    LET q == Magnitude(a) \div Magnitude(b)
    IN  IF (a < 0) = (b < 0) THEN q ELSE -q
Remainder(a, b) == a - b * Quotient(a, b)

(* Reals, in quarters.                                                      *)
Product(a, b) == Quotient(a * b, 4)
Ratio(a, b) == Quotient(4 * a, b)

(* The root is rounded down to a quarter; of a negative number, which has    *)
(* none, it is that of its magnitude.                                        *)
SquareRoot(a) ==
    LET square == 4 * Magnitude(a)
    IN  CHOOSE r \in 0..square : r * r <= square /\ square < (r + 1) * (r + 1)
==============================================================================
