------------------------------- MODULE FileSlots -------------------------------
(* What the code generated for a file variable keeps: the slots declared for  *)
(* it, the handles of the host file system it has been given, and the files.  *)
(* Opening, closing and naming are the same for texts and typed files.        *)
EXTENDS Integers, Sequences

LOCAL INSTANCE FiniteSetsExt

CONSTANTS Paths, NoPath, Missing,
          Handles,         \* the handles the host gives out
          Radix,           \* how many values a byte has: 256
          Newline, Space,  \* the bytes of a line end and of a blank
          InitialDisks,    \* the files there may be before the program runs
          MaxLength        \* a bound on what all files hold, by the kind of file

Byte == 0..Radix - 1
ASSUME FileAssumption ==
    /\ Radix \in Nat \ {0} /\ Radix % 2 = 0
    /\ Handles \subseteq Nat \ {0}
    /\ Newline \in Byte /\ Space \in Byte /\ Newline # Space
    /\ NoPath \notin Paths
    /\ Missing \notin Seq(Byte)
    /\ \A k \in {"text", "typed"} :
           InitialDisks[k] \subseteq [Paths -> Seq(Byte) \cup {Missing}]
    /\ MaxLength \in [{"text", "typed"} -> Nat]

VARIABLES kind,     \* the type of the variable: "text" or "typed"
          disk,     \* the bytes of every file
          streams,  \* the host's side of a handle: file, direction, position
          file,     \* the slots $path, $h, $rd, $eof, $peek and $eoln
          job,      \* the statement that is being executed
          before,   \* the position and eof when it began (a history variable)
          answer    \* what the last statement left in the program's variables

slotVars == <<kind, disk, streams, file>>
vars == <<kind, disk, streams, file, job, before, answer>>

---------------------------------------------------------------------------
(* The host, as the generated code uses it.                                   *)

NoStream == [path |-> NoPath, mode |-> "closed", pos |-> 0]
Stream == [path : Paths \cup {NoPath}, mode : {"closed", "reading", "writing"}, pos : Nat]
StreamOf(s, f) == s[f.h]
Readable(s, f) == f.h # 0 /\ s[f.h].mode = "reading"
Writable(s, f) == f.h # 0 /\ s[f.h].mode = "writing"
Pos(s, f) == s[f.h].pos
Content(s, f) == disk[s[f.h].path]
AtEnd(s, f) == Pos(s, f) >= Len(Content(s, f))
(* hostfs.read: up to n bytes, none at the end of the file.                   *)
Smaller(a, b) == IF a < b THEN a ELSE b
ReadEnd(s, f, n) == Smaller(Pos(s, f) + n, Len(Content(s, f)))
Chunk(s, f, n) == SubSeq(Content(s, f), Pos(s, f) + 1, ReadEnd(s, f, n))
Advanced(s, f, n) == [s EXCEPT ![f.h].pos = ReadEnd(s, f, n)]
(* hostfs.write                                                               *)
Used == MapThenSumSet(LAMBDA p : IF disk[p] = Missing THEN 0 ELSE Len(disk[p]), Paths)
Room(n) == Used + n =< MaxLength[kind]
Extended(d, s, f, data) == [d EXCEPT ![s[f.h].path] = @ \o data]

---------------------------------------------------------------------------
(* A statement in progress: the label it is at, the variables or fields left, *)
(* whether a line is to be passed at the end, the values read or to be        *)
(* written, the token so far, what of a field is still to be written, and, of *)
(* an integer that is read, the byte, the sum and the multiplier.             *)
NoJob == [at |-> "idle", left |-> <<>>, whole |-> FALSE, got |-> <<>>, acc |-> <<>>,
          out |-> <<>>, byte |-> 0, value |-> 0, shift |-> 1]
NoAnswer == [what |-> "nothing", values |-> <<>>]
NoSlots == [path |-> NoPath, h |-> 0, rd |-> 0, eof |-> 0, peek |-> <<>>, eoln |-> 0]

NoPlace == [pos |-> 0, eof |-> 0]

Init ==
    /\ kind \in {"text", "typed"}
    /\ disk \in InitialDisks[kind]
    /\ streams = [h \in Handles |-> NoStream]
    /\ file = NoSlots
    /\ job = NoJob /\ before = NoPlace
    /\ answer = NoAnswer

(* The program is between two statements on the file, and has used what the   *)
(* last one delivered.                                                        *)
Idle == job.at = "idle" /\ answer = NoAnswer
(* How many bytes the program has seen: what was read ahead is not among them.*)
Here == IF file.h = 0 THEN 0 ELSE Pos(streams, file) - Len(file.peek)
Answer(what, values) == [what |-> what, values |-> values]
Truth(flag) == <<<<flag>>>>
Begin(at, left, whole) ==
    /\ job' = [NoJob EXCEPT !.at = at, !.left = left, !.whole = whole]
    /\ before' = [pos |-> Here, eof |-> file.eof]
(* The statement goes on with j, or ends with it.                             *)
Continue(j) ==
    /\ job' = IF j.at = "idle" THEN NoJob ELSE j
    /\ answer' = IF j.at = "idle" THEN Answer("read", j.got) ELSE answer
    /\ before' = IF j.at = "idle" THEN NoPlace ELSE before

UseAnswer ==
    /\ answer # NoAnswer
    /\ answer' = NoAnswer
    /\ UNCHANGED <<slotVars, job, before>>

---------------------------------------------------------------------------
(* lowerAssignFile *)
AssignFile ==
    /\ Idle
    /\ \E p \in Paths : file' = [file EXCEPT !.path = p]
    /\ UNCHANGED <<kind, disk, streams, job, before, answer>>

(* Mutant of CloseStream: a file that is opened again keeps its handle open.  *)
KeepStream(s, f) == s
(* lowerCloseFile: the host is told only of a handle that is open.            *)
CloseStream(s, f) == IF f.h # 0 THEN [s EXCEPT ![f.h] = NoStream] ELSE s
CloseSlots(f) == IF f.h # 0 THEN [f EXCEPT !.h = 0, !.rd = 0] ELSE f
CloseFile ==
    /\ Idle
    /\ streams' = CloseStream(streams, file)
    /\ file' = CloseSlots(file)
    /\ UNCHANGED <<kind, disk, job, before, answer>>

(* Mutant of Opened: what was read ahead is not forgotten.                    *)
OpenedKeepingPeek(f, h, forRead) ==
    [f EXCEPT !.h = h, !.rd = IF forRead THEN 1 ELSE 0, !.eof = 0]
(* lowerResetRewrite: the slots of a file just opened.                        *)
Opened(f, h, forRead) ==
    LET open == [f EXCEPT !.h = h, !.rd = IF forRead THEN 1 ELSE 0, !.eof = 0]
    IN  IF kind = "text" THEN [open EXCEPT !.peek = <<>>, !.eoln = 0] ELSE open
(* A name in the statement is stored first; then the file that is open is     *)
(* closed, and the host asked for a handle.                                   *)
WithPath(f) == {f} \cup {[f EXCEPT !.path = p] : p \in Paths}
Reset ==
    /\ Idle
    /\ \E f \in WithPath(file), h \in Handles :
           LET closed == CloseStream(streams, f)
           IN  /\ f.path # NoPath /\ disk[f.path] # Missing
               /\ closed[h] = NoStream
               /\ streams' = [closed EXCEPT ![h] =
                                 [path |-> f.path, mode |-> "reading", pos |-> 0]]
               /\ file' = Opened(CloseSlots(f), h, TRUE)
    /\ UNCHANGED <<kind, disk, job, before, answer>>
Rewrite ==
    /\ Idle
    /\ \E f \in WithPath(file), h \in Handles :
           LET closed == CloseStream(streams, f)
           IN  /\ f.path # NoPath
               /\ closed[h] = NoStream
               /\ streams' = [closed EXCEPT ![h] =
                                 [path |-> f.path, mode |-> "writing", pos |-> 0]]
               /\ disk' = [disk EXCEPT ![f.path] = <<>>]
               /\ file' = Opened(CloseSlots(f), h, FALSE)
    /\ UNCHANGED <<kind, job, before, answer>>

(* The run ends: at its end, at an operation the host refuses (a file that    *)
(* does not exist, or that is not open for it), or killed, in the middle of a *)
(* statement. The host closes its files; the next run finds what was written. *)
Restart ==
    /\ streams' = [h \in Handles |-> NoStream]
    /\ file' = NoSlots /\ job' = NoJob /\ before' = NoPlace
    /\ answer' = NoAnswer
    /\ UNCHANGED <<kind, disk>>

SlotStep == UseAnswer \/ AssignFile \/ CloseFile \/ Reset \/ Rewrite \/ Restart

---------------------------------------------------------------------------
Slots == [path : Paths \cup {NoPath}, h : Handles \cup {0}, rd : {0, 1}, eof : {0, 1},
          peek : Seq(Byte), eoln : {0, 1}]
SlotsTypeOK ==
    /\ kind \in {"text", "typed"}
    /\ DOMAIN disk = Paths /\ \A p \in Paths : disk[p] \in Seq(Byte) \cup {Missing}
    /\ streams \in [Handles -> Stream]
    /\ file \in Slots

(* The handles open on the host are exactly the one in $h, on an existing     *)
(* file and in the direction $rd says: none leaks when a file is opened again *)
(* without a close, and none is used after it was closed.                     *)
HandlesAreOwned ==
    /\ \A h \in Handles : streams[h].mode # "closed" <=> h = file.h
    /\ file.h # 0 =>
         /\ disk[streams[file.h].path] # Missing
         /\ streams[file.h].mode = IF file.rd = 1 THEN "reading" ELSE "writing"
    /\ file.h = 0 => file.rd = 0
================================================================================
