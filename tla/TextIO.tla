-------------------------------- MODULE TextIO --------------------------------
(* The code generated for statements on a text file: a buffer of one          *)
(* character read ahead, the flags eof and eoln that go with it, and loops    *)
(* that look at the buffer before they take from it. A step is one round of   *)
(* a loop.                                                                    *)
EXTENDS FileSlots

CONSTANTS Requests,  \* the variables of a read statement: char, string, number
          Texts      \* what a write statement is given, as strings

TextSorts == {"char", "string", "number"}
ASSUME TextAssumption ==
    /\ Requests \subseteq Seq(TextSorts)
    /\ Texts \subseteq Seq(Byte)

---------------------------------------------------------------------------
(* The buffer.                                                                *)

NeedsByte(f) == f.peek = <<>> /\ f.eof = 0
CanFill(s, f) == NeedsByte(f) => Readable(s, f)
Flag(p) == IF p THEN 1 ELSE 0
(* Mutant of FillSlots: the end of the file is not noted.                     *)
FillSlotsOnly(s, f) ==
    LET chunk == Chunk(s, f, 1)
    IN  IF ~NeedsByte(f) THEN f
        ELSE [f EXCEPT !.peek = chunk, !.eoln = Flag(chunk = <<Newline>>)]
(* lowerTextFillPeek: one byte is read unless there is one, or the end was    *)
(* met. The end of the file is also the end of a line.                        *)
FillStream(s, f) == IF NeedsByte(f) THEN Advanced(s, f, 1) ELSE s
FillSlots(s, f) ==
    LET chunk == Chunk(s, f, 1)
    IN  IF ~NeedsByte(f) THEN f
        ELSE IF chunk = <<>> THEN [f EXCEPT !.eof = 1, !.eoln = 1]
        ELSE [f EXCEPT !.peek = chunk, !.eoln = Flag(chunk = <<Newline>>)]
(* lowerTextConsumePeek, when the buffer has been filled.                     *)
Consumed(f) == [f EXCEPT !.peek = <<>>]
(* str.seq: the code of a character, zero for none.                           *)
SeqOf(chunk) == IF chunk = <<>> THEN 0 ELSE chunk[1]
IsBlank(f) == SeqOf(f.peek) \in {Space, Newline}

Filled == FillSlots(streams, file)
Fetch(at) ==
    /\ job.at = at /\ CanFill(streams, file)
    /\ streams' = FillStream(streams, file)
    /\ UNCHANGED <<kind, disk>>

---------------------------------------------------------------------------
(* read and readln: one variable after the other, then the rest of the line.  *)

LabelOf == [char |-> "char", string |-> "tread", number |-> "ti.skip"]
NextLabel(left, whole) ==
    IF left # <<>> THEN LabelOf[Head(left)] ELSE IF whole THEN "rln" ELSE "idle"
Delivered(j, value) ==
    [j EXCEPT !.got = Append(@, value), !.left = Tail(@), !.acc = <<>>,
              !.at = NextLabel(Tail(j.left), j.whole)]
Took(j, f) == [j EXCEPT !.acc = @ \o f.peek]

BeginRead ==
    /\ Idle /\ kind = "text"
    /\ \E sorts \in Requests, whole \in BOOLEAN :
           /\ sorts # <<>> \/ whole
           /\ Begin(NextLabel(sorts, whole), sorts, whole)
    /\ UNCHANGED <<slotVars, answer>>
(* lowerTextReadCharVar *)
ReadChar ==
    /\ Fetch("char")
    /\ file' = Consumed(Filled)
    /\ Continue(Delivered(job, <<SeqOf(Filled.peek)>>))
(* lowerTextReadStringVar: readln takes the line as far as its end, read a    *)
(* character and what follows it up to a blank.                               *)
StringEnds ==
    /\ Fetch("tread")
    /\ Filled.eof = 1 \/ Filled.eoln = 1
    /\ file' = Filled
    /\ Continue(Delivered(job, job.acc))
TakeCharacter ==
    /\ Fetch("tread")
    /\ Filled.eof = 0 /\ Filled.eoln = 0
    /\ file' = Consumed(Filled)
    /\ Continue([Took(job, Filled) EXCEPT !.at = IF job.whole THEN "tread" ELSE "tread.cont"])
WordGoesOn ==
    /\ Fetch("tread.cont")
    /\ file' = Filled
    /\ Continue(IF SeqOf(Filled.peek) = Space \/ Filled.eof = 1 \/ Filled.eoln = 1
                THEN Delivered(job, job.acc) ELSE [job EXCEPT !.at = "tread"])
(* lowerTextReadIntVar: blanks and line ends, then what is not one of them.   *)
(* What the digits mean is left to the VM.                                    *)
SkipBlanks ==
    /\ Fetch("ti.skip")
    /\ IF Filled.eof = 1
       THEN file' = Filled /\ Continue(Delivered(job, job.acc))
       ELSE IF IsBlank(Filled) THEN file' = Consumed(Filled) /\ Continue(job)
       ELSE file' = Filled /\ Continue([job EXCEPT !.at = "ti.acc"])
TakeNumber ==
    /\ Fetch("ti.acc")
    /\ IF Filled.eof = 1 \/ IsBlank(Filled)
       THEN file' = Filled /\ Continue(Delivered(job, job.acc))
       ELSE file' = Consumed(Filled) /\ Continue(Took(job, Filled))
(* lowerTextFileRead: readln passes over what is left of the line.            *)
SkipLine ==
    /\ Fetch("rln")
    /\ file' = IF Filled.eof = 1 THEN Filled ELSE Consumed(Filled)
    /\ Continue(IF Filled.eof = 1 \/ Filled.eoln = 1 THEN [job EXCEPT !.at = "idle"]
                ELSE job)

ReadStep == \/ ReadChar \/ StringEnds \/ TakeCharacter \/ WordGoesOn
            \/ SkipBlanks \/ TakeNumber \/ SkipLine

---------------------------------------------------------------------------
(* lowerEofExpr and lowerEolnExpr of a text: the buffer is filled first.      *)
AskText(what, flag) ==
    /\ Idle /\ kind = "text" /\ Fetch("idle")
    /\ file' = Filled
    /\ answer' = Answer(what, Truth(flag))
    /\ UNCHANGED <<job, before>>
TextEof == AskText("eof", Filled.eof)
Eoln == AskText("eoln", Filled.eoln)

(* lowerTextFileWrite: the pieces and the line end go to the host as one.     *)
WriteText ==
    /\ Idle /\ kind = "text" /\ Writable(streams, file)
    /\ \E first, second \in Texts, newline \in BOOLEAN :
           LET data == first \o second \o IF newline THEN <<Newline>> ELSE <<>>
           IN  /\ Room(Len(data))
               /\ disk' = Extended(disk, streams, file, data)
    /\ UNCHANGED <<kind, streams, file, job, before, answer>>

TextStep == BeginRead \/ ReadStep \/ TextEof \/ Eoln \/ WriteText

---------------------------------------------------------------------------
(* The buffer and the flags of a text that is being read agree with the file: *)
(* what is buffered is the byte the host gave last, eoln tells whether that   *)
(* byte ends a line, and eof is set only when all has been read.              *)
BufferAgrees ==
    kind = "text" /\ Readable(streams, file) =>
      /\ Len(file.peek) =< 1
      /\ file.peek # <<>> =>
           /\ Pos(streams, file) >= 1
           /\ file.peek[1] = Content(streams, file)[Pos(streams, file)]
           /\ file.eoln = Flag(file.peek[1] = Newline)
      /\ file.eof = 1 => file.peek = <<>> /\ file.eoln = 1 /\ AtEnd(streams, file)
================================================================================
