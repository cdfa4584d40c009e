------------------------------ MODULE Sequencing ------------------------------
(* Then(x, LAMBDA y : e) is e for the value y of x: it reads as one step of  *)
(* the code after another, and has TLC compute x once and before e.          *)
Then(x, F(_)) == CHOOSE result \in {F(y) : y \in {x}} : TRUE
===============================================================================
