------------------------------- MODULE MCEmit -------------------------------
(* Emit on a small instance: three values, short functions, the low bounds  *)
(* where emitVmIndex takes each of its three branches, and a constant       *)
(* beyond the greatest integer.                                             *)
EXTENDS Emit

MCMinInt == -3
MCLiterals == {0, 3}
MCLows == {-3, 1, 2}
=============================================================================
