--------------------------------- MODULE Files ---------------------------------
(* A file variable, text or typed, through any sequence of statements the     *)
(* analysis accepts, over any number of runs of the program on the same files.*)
EXTENDS TextIO, TypedIO

TextLabels == {"char", "tread", "tread.cont", "ti.skip", "ti.acc", "rln"}
FieldLabels == {"ri32", "rch", "rr"}
(* The host refuses what a statement in progress asks next: the run ends.     *)
Refused ==
    \/ job.at \in TextLabels /\ ~CanFill(streams, file)
    \/ job.at \in FieldLabels /\ ~Readable(streams, file)
    \/ job.at = "write" /\ ~Writable(streams, file)
JobStep == ReadStep \/ FieldStep \/ (Refused /\ Restart)
Next == SlotStep \/ TextStep \/ TypedStep

Spec == Init /\ [][Next]_vars
(* A statement that was begun is executed.                                    *)
FairSpec == Spec /\ WF_vars(JobStep)

TypeOK ==
    /\ SlotsTypeOK
    /\ job.at \in TextLabels \cup FieldLabels \cup {"idle", "write"}
    /\ job.acc \in Seq(Byte) /\ job.byte \in 0..3
    /\ job.value \in -Half..Half - 1
    /\ before.pos \in Nat /\ before.eof \in {0, 1}

(* Every statement on a file ends, whatever the file holds: the loops stop at *)
(* the end of the file and each round of them takes something.                *)
Busy == job.at # "idle"
StatementsEnd == Busy ~> ~Busy
================================================================================
