----------------------------- MODULE Observable -----------------------------
(***************************************************************************)
(* What a compiled program promises its user: it prints exactly what the   *)
(* source program means, item by item, and then ends the way the source    *)
(* program does.                                                           *)
(***************************************************************************)
EXTENDS Naturals, Sequences

VARIABLES meaning,   \* [output, ok]: what the program means for its input
          printed,   \* what has been printed
          ended      \* "no", "ok" or "error"

vars == <<meaning, printed, ended>>

Init == printed = <<>> /\ ended = "no"

PrintNext ==
    /\ ended = "no"
    /\ Len(printed) < Len(meaning.output)
    /\ printed' = Append(printed, meaning.output[Len(printed) + 1])
    /\ UNCHANGED <<meaning, ended>>

End ==
    /\ ended = "no"
    /\ printed = meaning.output
    /\ ended' = IF meaning.ok THEN "ok" ELSE "error"
    /\ UNCHANGED <<meaning, printed>>

Next == PrintNext \/ End

Spec == Init /\ [][Next]_vars /\ WF_vars(Next)
=============================================================================
