------------------------------ MODULE Environment ------------------------------
(***************************************************************************)
(* What a block-structured language promises about names: a name means     *)
(* what the innermost block around the place that declares it says, a name *)
(* is declared once in a block, and leaving a block brings back exactly    *)
(* the meanings the names had before it.  Every open block keeps the       *)
(* meaning of all names, so nothing is ever searched for.                  *)
(***************************************************************************)
EXTENDS Integers, Sequences

CONSTANTS Names,     \* the names a program can use
          Meanings,  \* what a name can stand for
          Unbound    \* the meaning of a name nobody has declared

VARIABLES visible,   \* for each open block, the meaning of every name in it
          own        \* for each open block, the names it declares itself

Innermost == Len(visible)
Everywhere == [name \in Names |-> Unbound]
Inherited == IF visible = <<>> THEN Everywhere ELSE visible[Innermost]

Init == visible = <<Everywhere>> /\ own = <<{}>>

Open ==
    /\ visible' = Append(visible, Inherited)
    /\ own' = Append(own, {})

(* A declaration: it hides what the name meant around the block.           *)
Bind(name) ==
    /\ visible # <<>>
    /\ name \notin own[Innermost]
    /\ own' = [own EXCEPT ![Innermost] = @ \cup {name}]
    /\ \E meaning \in Meanings :
           visible' = [visible EXCEPT ![Innermost] = [@ EXCEPT ![name] = meaning]]

(* A declaration outside every block opens one.                            *)
BindFirst(name) ==
    /\ visible = <<>>
    /\ own' = <<{name}>>
    /\ \E meaning \in Meanings : visible' = <<[Everywhere EXCEPT ![name] = meaning]>>

Close ==
    /\ visible # <<>>
    /\ visible' = SubSeq(visible, 1, Innermost - 1)
    /\ own' = SubSeq(own, 1, Innermost - 1)

Next ==
    \/ Open
    \/ Close
    \/ \E name \in Names : Bind(name) \/ BindFirst(name)

Spec == Init /\ [][Next]_<<visible, own>>
================================================================================
