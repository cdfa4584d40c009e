------------------------------- MODULE FileProofs -------------------------------
(***************************************************************************)
(* What holds of a file variable whatever the files hold, however many     *)
(* handles the host has and whatever the program reads and writes: the     *)
(* handle in $h is the one that is open, the buffer of a text follows the  *)
(* host's position, and an integer is read with the multipliers it was     *)
(* written with.                                                           *)
(***************************************************************************)
EXTENDS Files, SequenceTheorems, TLAPS

(* The file that is open exists.                                            *)
OnAFile(d, s, f) ==
    f.h # 0 => s[f.h].path \in Paths /\ d[s[f.h].path] \in Seq(Byte)
(* What a statement on a text still has to read.                            *)
TextLeft(j) == j.left \in Seq(TextSorts) /\ j.left # <<>>
FieldsLeft(j) == j.left \in Seq(FieldSorts) /\ j.left # <<>>
(* What a statement on a typed file still has to write.                     *)
DataLeft(j) ==
    /\ j.out \in Seq(Seq(Byte))
    /\ j.left \in Seq(FieldSorts) /\ Len(j.got) = Len(j.left)
    /\ j.got \in Seq(Seq(Int))
    /\ \A k \in 1..Len(j.left) : j.got[k] \in FieldValues(j.left[k])
    /\ j.out # <<>> \/ j.left # <<>>
JobOK(j) ==
    /\ DOMAIN j = DOMAIN NoJob
    /\ j.at \in TextLabels \cup FieldLabels \cup {"idle", "write"}
    /\ j.at \in TextLabels => kind = "text"
    /\ j.at \in TextLabels \ {"rln"} => TextLeft(j)
    /\ j.at \in FieldLabels => kind = "typed" /\ FieldsLeft(j)
    /\ j.at = "write" => kind = "typed" /\ DataLeft(j)
(* The inductive invariant: the types, the one handle that is open, on a    *)
(* file that exists, and what the statement in progress still has to do.    *)
FileInv ==
    /\ SlotsTypeOK
    /\ OnAFile(disk, streams, file)
    /\ HandlesAreOwned
    /\ JobOK(job)

LEMMA BytesAreBytes ==
    ASSUME NEW n \in Int
    PROVE  ByteMod256(n) \in Byte /\ FloorDiv256(n) \in Int
<1>1. Radix \in Nat /\ Radix > 0
  BY FileAssumption
<1>2. \A m \in Nat : m % Radix \in Byte
  BY <1>1 DEF Byte
<1>3. \A m \in Nat : m \div Radix \in Int
  BY <1>1
<1>4. FloorDiv256(n) \in Int
  BY <1>3 DEF FloorDiv256, TruncDiv
<1>5. CASE n >= 0
  BY <1>1, <1>2, <1>4, <1>5 DEF ByteMod256, TruncMod, Byte
<1>6. CASE n < 0
  BY <1>1, <1>2, <1>4, <1>6 DEF ByteMod256, TruncMod, Byte
<1> QED
  BY <1>5, <1>6

---------------------------------------------------------------------------
(* The host's read.                                                         *)

LEMMA HandleFacts == 0 \notin Handles
  BY FileAssumption

LEMMA ReadFacts ==
    ASSUME FileInv, Readable(streams, file), NEW n \in Nat
    PROVE  /\ file.h \in Handles /\ streams[file.h] \in Stream
           /\ Pos(streams, file) \in Nat
           /\ Content(streams, file) \in Seq(Byte)
           /\ ReadEnd(streams, file, n) \in Nat
           /\ Chunk(streams, file, n) \in Seq(Byte)
           /\ Advanced(streams, file, n) \in [Handles -> Stream]
           /\ Pos(Advanced(streams, file, n), file) = ReadEnd(streams, file, n)
           /\ \A h \in Handles :
                /\ Advanced(streams, file, n)[h].mode = streams[h].mode
                /\ Advanced(streams, file, n)[h].path = streams[h].path
<1> DEFINE p == Pos(streams, file)
           c == Content(streams, file)
           e == ReadEnd(streams, file, n)
<1>1. file.h \in Handles /\ streams \in [Handles -> Stream] /\ streams[file.h] \in Stream
  BY DEF FileInv, SlotsTypeOK, Slots, Readable
<1>2. c \in Seq(Byte) /\ p \in Nat
  BY <1>1, HandleFacts DEF FileInv, OnAFile, Content, Pos, Stream
<1>3. e \in Nat /\ e =< Len(c)
  BY <1>2 DEF ReadEnd, Smaller
<1>4. Chunk(streams, file, n) \in Seq(Byte)
  <2>1. \A i \in p + 1..e : c[i] \in Byte
    <3> HIDE DEF c, p, e
    <3> QED BY <1>2, <1>3
  <2>2. SubSeq(c, p + 1, e) \in Seq(Byte)
    <3> HIDE DEF c, p, e
    <3> QED BY <1>2, <1>3, <2>1, SubSeqProperties
  <2> QED BY <2>2 DEF Chunk
<1>5. Advanced(streams, file, n) = [streams EXCEPT ![file.h].pos = e]
  BY DEF Advanced
<1>6. /\ Advanced(streams, file, n) \in [Handles -> Stream]
      /\ Advanced(streams, file, n)[file.h].pos = e
      /\ \A h \in Handles : /\ Advanced(streams, file, n)[h].mode = streams[h].mode
                            /\ Advanced(streams, file, n)[h].path = streams[h].path
  <2> HIDE DEF e
  <2> QED BY <1>1, <1>3, <1>5 DEF Stream
<1> QED
  BY <1>1, <1>2, <1>3, <1>4, <1>6 DEF Pos

LEMMA Singleton ==
    ASSUME NEW S, NEW s \in Seq(S), Len(s) = 1
    PROVE  s = <<s[1]>>
<1>1. s[1] \in S
  OBVIOUS
<1>2. <<s[1]>> \in Seq(S) /\ Len(<<s[1]>>) = 1 /\ <<s[1]>>[1] = s[1]
  BY <1>1
<1>3. \A i \in 1..Len(s) : s[i] = <<s[1]>>[i]
  BY <1>2
<1> QED
  BY <1>2, <1>3, SeqEqual

LEMMA NotEmpty ==
    ASSUME NEW s, Len(s) = 1
    PROVE  s # <<>>
<1> SUFFICES ASSUME s = <<>> PROVE FALSE
  OBVIOUS
<1>1. Len(s) = 0
  BY EmptySeq
<1> QED
  BY <1>1

(* One byte: there is one unless all has been read, and it is the next.     *)
LEMMA NextByte ==
    ASSUME FileInv, Readable(streams, file)
    PROVE  /\ Chunk(streams, file, 1) = <<>> <=> AtEnd(streams, file)
           /\ AtEnd(streams, file) => AtEnd(Advanced(streams, file, 1), file)
           /\ ~AtEnd(streams, file) =>
                /\ Pos(Advanced(streams, file, 1), file) = Pos(streams, file) + 1
                /\ Chunk(streams, file, 1) =
                       <<Content(streams, file)[Pos(streams, file) + 1]>>
                /\ Content(streams, file)[Pos(streams, file) + 1] \in Byte
<1> DEFINE p == Pos(streams, file)
           c == Content(streams, file)
           e == ReadEnd(streams, file, 1)
           t == Advanced(streams, file, 1)
<1>1. p \in Nat /\ c \in Seq(Byte) /\ e \in Nat /\ Pos(t, file) = e
  BY ReadFacts
<1>2. Content(t, file) = c
  BY ReadFacts DEF Content
<1>3. e = IF p + 1 < Len(c) THEN p + 1 ELSE Len(c)
  BY DEF ReadEnd, Smaller
<1>4. AtEnd(streams, file) <=> p >= Len(c)
  BY DEF AtEnd
<1>5. AtEnd(t, file) <=> e >= Len(c)
  BY <1>1, <1>2 DEF AtEnd
<1>6. Chunk(streams, file, 1) = SubSeq(c, p + 1, e)
  BY DEF Chunk
<1>7. /\ SubSeq(c, p + 1, e) = <<>> <=> p >= Len(c)
      /\ p >= Len(c) => e >= Len(c)
      /\ ~(p >= Len(c)) => /\ e = p + 1 /\ c[p + 1] \in Byte
                           /\ SubSeq(c, p + 1, e) = <<c[p + 1]>>
  <2> HIDE DEF p, c, e, t
  <2>1. CASE p >= Len(c)
    BY <1>1, <1>3, <2>1, SubSeqEmpty
  <2>2. CASE ~(p >= Len(c))
    <3>1. e = p + 1 /\ c[p + 1] \in Byte
      BY <1>1, <1>3, <2>2
    <3>2. SubSeq(c, p + 1, e) \in Seq(Byte) /\ Len(SubSeq(c, p + 1, e)) = 1
          /\ SubSeq(c, p + 1, e)[1] = c[p + 1]
      BY <1>1, <3>1, SubSeqProperties
    <3>3. SubSeq(c, p + 1, e) = <<c[p + 1]>>
      BY <3>2, Singleton
    <3>4. SubSeq(c, p + 1, e) # <<>>
      BY <3>2, NotEmpty
    <3> QED BY <2>2, <3>1, <3>3, <3>4
  <2> QED BY <2>1, <2>2
<1>8. AtEnd(streams, file) => AtEnd(t, file)
  BY <1>4, <1>5, <1>7
<1>9. ~AtEnd(streams, file) =>
          /\ Pos(t, file) = p + 1 /\ Chunk(streams, file, 1) = <<c[p + 1]>>
          /\ c[p + 1] \in Byte
  <2> HIDE DEF p, c, e, t
  <2> QED BY <1>1, <1>4, <1>6, <1>7
<1>10. Chunk(streams, file, 1) = <<>> <=> AtEnd(streams, file)
  BY <1>4, <1>6, <1>7
<1> QED
  <2> HIDE DEF p, c, e, t
  <2>1. t = Advanced(streams, file, 1) /\ p = Pos(streams, file) /\ c = Content(streams, file)
    BY DEF t, p, c
  <2> QED BY <1>8, <1>9, <1>10, <2>1

---------------------------------------------------------------------------
(* What a step that only moves on in the file keeps.                        *)

Moved ==
    /\ streams' \in [Handles -> Stream]
    /\ \A h \in Handles : /\ streams'[h].mode = streams[h].mode
                          /\ streams'[h].path = streams[h].path
    /\ file' \in Slots /\ file'.h = file.h /\ file'.rd = file.rd
    /\ kind' = kind /\ disk' = disk

LEMMA MovedKeeps ==
    ASSUME FileInv, Moved
    PROVE  /\ SlotsTypeOK' /\ OnAFile(disk, streams, file)' /\ HandlesAreOwned'
<1>1. SlotsTypeOK'
  BY DEF FileInv, Moved, SlotsTypeOK
<1>2. file.h # 0 => file.h \in Handles
  BY DEF FileInv, SlotsTypeOK, Slots
<1>3. OnAFile(disk, streams, file)'
  BY <1>2 DEF FileInv, Moved, OnAFile
<1>4. HandlesAreOwned'
  BY <1>2 DEF FileInv, Moved, HandlesAreOwned
<1> QED
  BY <1>1, <1>3, <1>4

LEMMA FillFacts ==
    ASSUME FileInv, CanFill(streams, file)
    PROVE  /\ FillStream(streams, file) \in [Handles -> Stream]
           /\ \A h \in Handles :
                /\ FillStream(streams, file)[h].mode = streams[h].mode
                /\ FillStream(streams, file)[h].path = streams[h].path
           /\ Filled \in Slots /\ Filled.h = file.h /\ Filled.rd = file.rd
           /\ Consumed(Filled) \in Slots
           /\ Consumed(Filled).h = file.h /\ Consumed(Filled).rd = file.rd
<1>1. streams \in [Handles -> Stream] /\ file \in Slots
  BY DEF FileInv, SlotsTypeOK
<1>2. CASE ~NeedsByte(file)
  <2>1. FillStream(streams, file) = streams /\ Filled = file
    BY <1>2 DEF FillStream, Filled, FillSlots
  <2>2. Consumed(file) \in Slots /\ Consumed(file).h = file.h /\ Consumed(file).rd = file.rd
    BY <1>1, EmptySeq DEF Consumed, Slots
  <2> QED BY <1>1, <2>1, <2>2
<1>3. CASE NeedsByte(file)
  <2>1. Readable(streams, file)
    BY <1>3 DEF CanFill
  <2>2. FillStream(streams, file) = Advanced(streams, file, 1)
    BY <1>3 DEF FillStream
  <2>3. Chunk(streams, file, 1) \in Seq(Byte)
    BY <2>1, ReadFacts
  <2>4. Filled \in Slots /\ Filled.h = file.h /\ Filled.rd = file.rd
    <3> DEFINE chunk == Chunk(streams, file, 1)
    <3>1. Filled = IF chunk = <<>> THEN [file EXCEPT !.eof = 1, !.eoln = 1]
                   ELSE [file EXCEPT !.peek = chunk, !.eoln = Flag(chunk = <<Newline>>)]
      BY <1>3 DEF Filled, FillSlots
    <3>2. chunk \in Seq(Byte) /\ Flag(chunk = <<Newline>>) \in {0, 1}
      BY <2>3 DEF Flag
    <3> HIDE DEF chunk
    <3> QED BY <1>1, <3>1, <3>2 DEF Slots
  <2>5. Consumed(Filled) \in Slots /\ Consumed(Filled).h = Filled.h
        /\ Consumed(Filled).rd = Filled.rd
    BY <2>4, EmptySeq DEF Consumed, Slots
  <2> QED BY <2>1, <2>2, <2>4, <2>5, ReadFacts
<1> QED
  BY <1>2, <1>3

LEMMA FetchMoves ==
    ASSUME FileInv, NEW at, Fetch(at), file' = Filled \/ file' = Consumed(Filled)
    PROVE  Moved
  BY FillFacts DEF Fetch, Moved

LEMMA FetchFieldMoves ==
    ASSUME FileInv, NEW at, NEW n \in Nat, FetchField(at, n)
    PROVE  Moved
<1>1. Readable(streams, file) /\ streams' = Advanced(streams, file, n)
      /\ kind' = kind /\ disk' = disk
  BY DEF FetchField
<1>2. file' = file \/ file' = [file EXCEPT !.eof = 1]
  BY DEF FetchField
<1>3. file \in Slots
  BY DEF FileInv, SlotsTypeOK
<1>4. file' \in Slots /\ file'.h = file.h /\ file'.rd = file.rd
  BY <1>2, <1>3 DEF Slots
<1> QED
  BY <1>1, <1>4, ReadFacts DEF Moved

---------------------------------------------------------------------------
(* The statement in progress.                                               *)

LEMMA NoJobOK == JobOK(NoJob)
  BY DEF JobOK, NoJob, TextLabels, FieldLabels

LEMMA ContinueKeeps ==
    ASSUME NEW STATE j, JobOK(j), kind' = kind, Continue(j)
    PROVE  JobOK(job)'
<1>1. job' = NoJob \/ job' = j
  BY DEF Continue
<1> QED
  BY <1>1, NoJobOK DEF JobOK, DataLeft, FieldsLeft, TextLeft

LEMMA DeliveredOK ==
    ASSUME NEW STATE j, NEW STATE value, kind = "text",
           JobOK(j), j.at \in TextLabels, TextLeft(j)
    PROVE  JobOK(Delivered(j, value))
<1> DEFINE d == Delivered(j, value)
<1>1. DOMAIN j = {"at", "left", "whole", "got", "acc", "out", "byte", "value", "shift"}
  BY DEF JobOK, NoJob
<1>2. /\ DOMAIN d = DOMAIN j /\ d.left = Tail(j.left)
      /\ d.at = NextLabel(Tail(j.left), j.whole)
  BY <1>1 DEF Delivered
<1>3. Tail(j.left) \in Seq(TextSorts)
  BY HeadTailProperties DEF TextLeft
<1>4. \/ d.at \in {"rln", "idle"}
      \/ d.at \in TextLabels /\ Tail(j.left) # <<>>
  <2>1. CASE Tail(j.left) = <<>>
    BY <1>2, <2>1 DEF NextLabel
  <2>2. CASE Tail(j.left) # <<>>
    <3>1. Head(Tail(j.left)) \in TextSorts
      BY <1>3, <2>2, HeadTailProperties
    <3> QED BY <1>2, <2>2, <3>1 DEF NextLabel, LabelOf, TextSorts, TextLabels
  <2> QED BY <2>1, <2>2
<1>5. DOMAIN d = DOMAIN NoJob
  BY <1>2 DEF JobOK
<1> HIDE DEF d
<1>6. JobOK(d)
  BY <1>2, <1>3, <1>4, <1>5 DEF JobOK, TextLeft, TextLabels, FieldLabels
<1> QED
  BY <1>6 DEF d

(* A round of a loop changes the token and the label only.                  *)
LEMMA RoundOK ==
    ASSUME NEW STATE j, NEW STATE k, kind = "text", JobOK(j), TextLeft(j),
           DOMAIN k = DOMAIN j, k.left = j.left, k.at \in TextLabels
    PROVE  JobOK(k)
  BY DEF JobOK, TextLeft, TextLabels, FieldLabels

LEMMA FieldReadOK ==
    ASSUME NEW STATE j, NEW STATE value, kind = "typed",
           JobOK(j), j.at \in FieldLabels
    PROVE  JobOK(FieldRead(j, value))
<1> DEFINE d == FieldRead(j, value)
<1>1. DOMAIN j = {"at", "left", "whole", "got", "acc", "out", "byte", "value", "shift"}
  BY DEF JobOK, NoJob
<1>2. /\ DOMAIN d = DOMAIN j /\ d.left = Tail(j.left)
      /\ d.at = FieldLabel(Tail(j.left))
  BY <1>1 DEF FieldRead
<1>3. Tail(j.left) \in Seq(FieldSorts)
  BY HeadTailProperties DEF FieldsLeft, JobOK
<1>4. \/ d.at = "idle"
      \/ d.at \in FieldLabels /\ Tail(j.left) # <<>>
  <2> HIDE DEF d
  <2>1. CASE Tail(j.left) = <<>>
    <3>1. FieldLabel(Tail(j.left)) = "idle"
      BY <2>1, Zenon DEF FieldLabel
    <3> QED BY <1>2, <3>1
  <2>2. CASE Tail(j.left) # <<>>
    <3>1. Head(Tail(j.left)) \in FieldSorts
      BY <1>3, <2>2, HeadTailProperties
    <3> QED BY <1>2, <2>2, <3>1 DEF FieldLabel, LabelOfField, FieldSorts, FieldLabels
  <2> QED BY <2>1, <2>2
<1>5. DOMAIN d = DOMAIN NoJob
  BY <1>2 DEF JobOK
<1> HIDE DEF d
<1>6. JobOK(d)
  BY <1>2, <1>3, <1>4, <1>5 DEF JobOK, FieldsLeft, TextLabels, FieldLabels
<1> QED
  BY <1>6 DEF d

(* A byte of an integer leaves the fields as they are.                      *)
LEMMA AfterByteOK ==
    ASSUME NEW STATE j, NEW STATE chunk, JobOK(j), j.at \in FieldLabels
    PROVE  /\ JobOK(AfterByte(j, chunk)) /\ AfterByte(j, chunk).at = j.at
           /\ AfterByte(j, chunk).byte = j.byte + 1
           /\ AfterByte(j, chunk).shift = IF chunk = <<>> THEN Unset ELSE j.shift * Radix
<1>1. DOMAIN j = {"at", "left", "whole", "got", "acc", "out", "byte", "value", "shift"}
  BY DEF JobOK, NoJob
<1>2. \E b, v, m : /\ AfterByte(j, chunk) = [j EXCEPT !.byte = b, !.value = v, !.shift = m]
                   /\ b = j.byte + 1
                   /\ m = IF chunk = <<>> THEN Unset ELSE j.shift * Radix
  <2>1. CASE chunk = <<>>
    <3>1. AfterByte(j, chunk) = [j EXCEPT !.byte = @ + 1, !.value = j.value, !.shift = Unset]
      BY <1>1, <2>1 DEF AfterByte
    <3> QED BY <2>1, <3>1
  <2>2. CASE chunk # <<>>
    <3>1. AfterByte(j, chunk) =
              [j EXCEPT !.byte = @ + 1, !.value = AddByte(@, chunk[1], j.shift),
                        !.shift = @ * Radix]
      BY <2>2 DEF AfterByte
    <3> QED BY <2>2, <3>1
  <2> QED BY <2>1, <2>2
<1>3. PICK b, v, m : /\ AfterByte(j, chunk) = [j EXCEPT !.byte = b, !.value = v, !.shift = m]
                     /\ b = j.byte + 1
                     /\ m = IF chunk = <<>> THEN Unset ELSE j.shift * Radix
  BY <1>2
<1> DEFINE k == [j EXCEPT !.byte = b, !.value = v, !.shift = m]
<1>4. /\ DOMAIN k = DOMAIN j /\ k.at = j.at /\ k.left = j.left
      /\ k.byte = b /\ k.shift = m
  BY <1>1
<1> HIDE DEF k
<1>5. JobOK(k)
  BY <1>4 DEF JobOK, FieldsLeft, TextLabels, FieldLabels
<1> QED
  BY <1>3, <1>4, <1>5 DEF k

---------------------------------------------------------------------------
(* Reading a text.                                                          *)

LEMMA TextStatement ==
    ASSUME FileInv, NEW at \in TextLabels \ {"rln"}, job.at = at
    PROVE  /\ kind = "text" /\ JobOK(job) /\ TextLeft(job) /\ job.at \in TextLabels
           /\ DOMAIN job = {"at", "left", "whole", "got", "acc", "out", "byte", "value", "shift"}
  BY DEF FileInv, JobOK, NoJob

LEMMA ReadStepKeeps == ASSUME FileInv, ReadStep PROVE FileInv'
<1>1. CASE ReadChar
  <2>1. Fetch("char") /\ file' = Consumed(Filled)
        /\ Continue(Delivered(job, <<SeqOf(Filled.peek)>>))
    BY <1>1 DEF ReadChar
  <2>2. Moved /\ kind' = kind
    BY <2>1, FetchMoves DEF Fetch
  <2>3. JobOK(Delivered(job, <<SeqOf(Filled.peek)>>))
    BY <2>1, TextStatement, DeliveredOK DEF Fetch, TextLabels
  <2> QED BY <2>1, <2>2, <2>3, MovedKeeps, ContinueKeeps DEF FileInv
<1>2. CASE StringEnds
  <2>1. Fetch("tread") /\ file' = Filled /\ Continue(Delivered(job, job.acc))
    BY <1>2 DEF StringEnds
  <2>2. Moved /\ kind' = kind
    BY <2>1, FetchMoves DEF Fetch
  <2>3. JobOK(Delivered(job, job.acc))
    BY <2>1, TextStatement, DeliveredOK DEF Fetch, TextLabels
  <2> QED BY <2>1, <2>2, <2>3, MovedKeeps, ContinueKeeps DEF FileInv
<1>3. CASE TakeCharacter
  <2> DEFINE label == IF job.whole THEN "tread" ELSE "tread.cont"
             k == [Took(job, Filled) EXCEPT !.at = label]
  <2>1. Fetch("tread") /\ file' = Consumed(Filled) /\ Continue(k)
    BY <1>3 DEF TakeCharacter
  <2>2. Moved /\ kind' = kind
    BY <2>1, FetchMoves DEF Fetch
  <2>3. /\ kind = "text" /\ JobOK(job) /\ TextLeft(job)
        /\ DOMAIN job = {"at", "left", "whole", "got", "acc", "out", "byte", "value", "shift"}
    BY <2>1, TextStatement DEF Fetch, TextLabels
  <2>4. DOMAIN k = DOMAIN job /\ k.left = job.left /\ k.at \in TextLabels
    BY <2>3 DEF Took, TextLabels
  <2> HIDE DEF k
  <2>5. JobOK(k)
    BY <2>3, <2>4, RoundOK
  <2> QED BY <2>1, <2>2, <2>5, MovedKeeps, ContinueKeeps DEF FileInv
<1>4. CASE WordGoesOn
  <2> DEFINE k == [job EXCEPT !.at = "tread"]
  <2>1. Fetch("tread.cont") /\ file' = Filled
        /\ (Continue(Delivered(job, job.acc)) \/ Continue(k))
    BY <1>4 DEF WordGoesOn
  <2>2. Moved /\ kind' = kind
    BY <2>1, FetchMoves DEF Fetch
  <2>3. /\ kind = "text" /\ JobOK(job) /\ TextLeft(job) /\ job.at \in TextLabels
        /\ DOMAIN job = {"at", "left", "whole", "got", "acc", "out", "byte", "value", "shift"}
    BY <2>1, TextStatement DEF Fetch, TextLabels
  <2>4. DOMAIN k = DOMAIN job /\ k.left = job.left /\ k.at \in TextLabels
    BY <2>3 DEF TextLabels
  <2> HIDE DEF k
  <2>5. JobOK(k) /\ JobOK(Delivered(job, job.acc))
    BY <2>3, <2>4, RoundOK, DeliveredOK
  <2>6. JobOK(job)'
    BY <2>1, <2>2, <2>5, ContinueKeeps
  <2> QED BY <2>2, <2>6, MovedKeeps DEF FileInv
<1>5. CASE SkipBlanks
  <2> DEFINE k == [job EXCEPT !.at = "ti.acc"]
  <2>1. /\ Fetch("ti.skip") /\ (file' = Filled \/ file' = Consumed(Filled))
        /\ (Continue(Delivered(job, job.acc)) \/ Continue(job) \/ Continue(k))
    BY <1>5 DEF SkipBlanks
  <2>2. Moved /\ kind' = kind
    BY <2>1, FetchMoves DEF Fetch
  <2>3. /\ kind = "text" /\ JobOK(job) /\ TextLeft(job) /\ job.at \in TextLabels
        /\ DOMAIN job = {"at", "left", "whole", "got", "acc", "out", "byte", "value", "shift"}
    BY <2>1, TextStatement DEF Fetch, TextLabels
  <2>4. DOMAIN k = DOMAIN job /\ k.left = job.left /\ k.at \in TextLabels
    BY <2>3 DEF TextLabels
  <2> HIDE DEF k
  <2>5. JobOK(k) /\ JobOK(Delivered(job, job.acc))
    BY <2>3, <2>4, RoundOK, DeliveredOK
  <2>6. JobOK(job)'
    BY <2>1, <2>2, <2>3, <2>5, ContinueKeeps
  <2> QED BY <2>2, <2>6, MovedKeeps DEF FileInv
<1>6. CASE TakeNumber
  <2> DEFINE k == Took(job, Filled)
  <2>1. /\ Fetch("ti.acc") /\ (file' = Filled \/ file' = Consumed(Filled))
        /\ (Continue(Delivered(job, job.acc)) \/ Continue(k))
    BY <1>6 DEF TakeNumber
  <2>2. Moved /\ kind' = kind
    BY <2>1, FetchMoves DEF Fetch
  <2>3. /\ kind = "text" /\ JobOK(job) /\ TextLeft(job) /\ job.at \in TextLabels
        /\ DOMAIN job = {"at", "left", "whole", "got", "acc", "out", "byte", "value", "shift"}
    BY <2>1, TextStatement DEF Fetch, TextLabels
  <2>4. DOMAIN k = DOMAIN job /\ k.left = job.left /\ k.at \in TextLabels
    BY <2>3 DEF Took, TextLabels
  <2> HIDE DEF k
  <2>5. JobOK(k) /\ JobOK(Delivered(job, job.acc))
    BY <2>3, <2>4, RoundOK, DeliveredOK
  <2>6. JobOK(job)'
    BY <2>1, <2>2, <2>5, ContinueKeeps
  <2> QED BY <2>2, <2>6, MovedKeeps DEF FileInv
<1>7. CASE SkipLine
  <2> DEFINE k == [job EXCEPT !.at = "idle"]
  <2>1. /\ Fetch("rln") /\ (file' = Filled \/ file' = Consumed(Filled))
        /\ (Continue(k) \/ Continue(job))
    BY <1>7 DEF SkipLine
  <2>2. Moved /\ kind' = kind
    BY <2>1, FetchMoves DEF Fetch
  <2>3. JobOK(job)
    BY DEF FileInv
  <2>4. DOMAIN k = DOMAIN job /\ k.at = "idle"
    BY <2>3 DEF JobOK, NoJob
  <2> HIDE DEF k
  <2>5. JobOK(k)
    BY <2>3, <2>4 DEF JobOK, TextLabels, FieldLabels
  <2>6. JobOK(job)'
    BY <2>1, <2>2, <2>3, <2>5, ContinueKeeps
  <2> QED BY <2>2, <2>6, MovedKeeps DEF FileInv
<1> QED
  BY <1>1, <1>2, <1>3, <1>4, <1>5, <1>6, <1>7 DEF ReadStep

LEMMA AskTextKeeps ==
    ASSUME FileInv, TextEof \/ Eoln
    PROVE  FileInv'
<1>1. Fetch("idle") /\ file' = Filled /\ job' = job
  BY DEF TextEof, Eoln, AskText
<1>2. Moved /\ kind' = kind
  BY <1>1, FetchMoves DEF Fetch
<1>3. JobOK(job)'
  BY <1>1, <1>2 DEF FileInv, JobOK, TextLeft, FieldsLeft, DataLeft
<1> QED
  BY <1>2, <1>3, MovedKeeps DEF FileInv

LEMMA BeginReadKeeps == ASSUME FileInv, BeginRead PROVE FileInv'
<1>1. /\ kind = "text" /\ UNCHANGED slotVars
  BY DEF BeginRead
<1>2. PICK sorts \in Requests, whole \in BOOLEAN :
          /\ sorts # <<>> \/ whole
          /\ Begin(NextLabel(sorts, whole), sorts, whole)
  BY DEF BeginRead
<1> DEFINE label == NextLabel(sorts, whole)
<1>3. job' = [NoJob EXCEPT !.at = label, !.left = sorts, !.whole = whole]
  BY <1>2 DEF Begin
<1>4. sorts \in Seq(TextSorts)
  BY <1>2, TextAssumption
<1>5. label = "rln" \/ (label \in TextLabels /\ sorts # <<>>)
  <2>1. CASE sorts = <<>>
    BY <1>2, <2>1 DEF NextLabel
  <2>2. CASE sorts # <<>>
    <3>1. Head(sorts) \in TextSorts
      BY <1>4, <2>2, HeadTailProperties
    <3> QED BY <2>2, <3>1 DEF NextLabel, LabelOf, TextSorts, TextLabels
  <2> QED BY <2>1, <2>2
<1> HIDE DEF label
<1>6. DOMAIN job' = DOMAIN NoJob /\ job'.at = label /\ job'.left = sorts
  BY <1>3 DEF NoJob
<1>7. JobOK(job)'
  BY <1>1, <1>4, <1>5, <1>6 DEF JobOK, TextLeft, TextLabels, FieldLabels, slotVars
<1> QED
  BY <1>1, <1>7 DEF FileInv, slotVars, SlotsTypeOK, OnAFile, HandlesAreOwned

---------------------------------------------------------------------------
(* Reading a component.                                                     *)

LEMMA BeginReadComponentKeeps == ASSUME FileInv, BeginReadComponent PROVE FileInv'
<1> DEFINE label == FieldLabel(Component)
<1>1. /\ kind = "typed" /\ UNCHANGED slotVars
      /\ job' = [NoJob EXCEPT !.at = label, !.left = Component, !.whole = FALSE]
  BY DEF BeginReadComponent, Begin
<1>2. Component \in Seq(FieldSorts) /\ Component # <<>>
  BY TypedAssumption
<1>3. label \in FieldLabels
  <2>1. Head(Component) \in FieldSorts
    BY <1>2, HeadTailProperties
  <2> QED BY <1>2, <2>1 DEF FieldLabel, LabelOfField, FieldSorts, FieldLabels
<1> HIDE DEF label
<1>4. DOMAIN job' = DOMAIN NoJob /\ job'.at = label /\ job'.left = Component
  BY <1>1 DEF NoJob
<1>5. JobOK(job)'
  BY <1>1, <1>2, <1>3, <1>4 DEF JobOK, FieldsLeft, TextLabels, FieldLabels, slotVars
<1> QED
  BY <1>1, <1>5 DEF FileInv, slotVars, SlotsTypeOK, OnAFile, HandlesAreOwned

LEMMA FieldStatement ==
    ASSUME FileInv, NEW at \in FieldLabels, job.at = at
    PROVE  /\ kind = "typed" /\ JobOK(job) /\ job.at \in FieldLabels
  BY DEF FileInv, JobOK

LEMMA FieldStepKeeps ==
    ASSUME FileInv, ReadIntByte \/ ReadCharByte \/ ReadRealAscii
    PROVE  FileInv'
<1>1. FieldWidth \in Nat
  BY TypedAssumption
<1>2. CASE ReadIntByte
  <2> DEFINE next == AfterByte(job, Found(1))
             k == FieldRead(next, <<next.value>>)
  <2>1. FetchField("ri32", 1) /\ (Continue(next) \/ Continue(k))
    BY <1>2 DEF ReadIntByte
  <2>2. Moved /\ kind' = kind
    BY <2>1, FetchFieldMoves DEF FetchField
  <2>3. kind = "typed" /\ JobOK(job) /\ job.at \in FieldLabels
    BY <2>1, FieldStatement DEF FetchField, FieldLabels
  <2>4. JobOK(next) /\ next.at \in FieldLabels
    BY <2>3, AfterByteOK
  <2>5. JobOK(k)
    <3> HIDE DEF next
    <3> QED BY <2>3, <2>4, FieldReadOK
  <2> HIDE DEF next, k
  <2>6. JobOK(job)'
    BY <2>1, <2>2, <2>4, <2>5, ContinueKeeps
  <2> QED BY <2>2, <2>6, MovedKeeps DEF FileInv
<1>3. CASE ReadCharByte
  <2> DEFINE v == IF Found(1) = <<>> THEN <<0>> ELSE Found(1)
  <2>1. FetchField("rch", 1) /\ Continue(FieldRead(job, v))
    BY <1>3 DEF ReadCharByte
  <2> HIDE DEF v
  <2>2. Moved /\ kind' = kind
    BY <2>1, FetchFieldMoves DEF FetchField
  <2>3. JobOK(FieldRead(job, v))
    BY <2>1, FieldStatement, FieldReadOK DEF FetchField, FieldLabels
  <2> QED BY <2>1, <2>2, <2>3, ContinueKeeps, MovedKeeps DEF FileInv
<1>4. CASE ReadRealAscii
  <2> DEFINE v == Unpadded(Found(FieldWidth))
  <2>1. FetchField("rr", FieldWidth) /\ Continue(FieldRead(job, v))
    BY <1>4 DEF ReadRealAscii
  <2> HIDE DEF v
  <2>2. Moved /\ kind' = kind
    BY <1>1, <2>1, FetchFieldMoves DEF FetchField
  <2>3. JobOK(FieldRead(job, v))
    BY <2>1, FieldStatement, FieldReadOK DEF FetchField, FieldLabels
  <2> QED BY <2>1, <2>2, <2>3, ContinueKeeps, MovedKeeps DEF FileInv
<1> QED
  BY <1>2, <1>3, <1>4

---------------------------------------------------------------------------
(* Writing.                                                                 *)

LEMMA ExtendedKeeps ==
    ASSUME FileInv, Writable(streams, file), NEW STATE data, data \in Seq(Byte),
           disk' = Extended(disk, streams, file, data),
           UNCHANGED <<kind, streams, file>>
    PROVE  /\ SlotsTypeOK' /\ OnAFile(disk, streams, file)' /\ HandlesAreOwned'
<1> DEFINE q == streams[file.h].path
<1>1. q \in Paths /\ disk[q] \in Seq(Byte) /\ file.h # 0
  BY DEF FileInv, OnAFile, Writable
<1>2. disk' = [disk EXCEPT ![q] = disk[q] \o data]
  BY DEF Extended
<1>3. disk[q] \o data \in Seq(Byte)
  <2> HIDE DEF q
  <2> QED BY <1>1, ConcatProperties
<1>4. DOMAIN disk = Paths /\ \A p \in Paths : disk[p] \in Seq(Byte) \cup {Missing}
  BY DEF FileInv, SlotsTypeOK
<1> HIDE DEF q
<1>5. /\ DOMAIN disk' = Paths /\ \A p \in Paths : disk'[p] \in Seq(Byte) \cup {Missing}
      /\ disk'[q] \in Seq(Byte)
  BY <1>1, <1>2, <1>3, <1>4
<1>6. SlotsTypeOK'
  BY <1>5 DEF FileInv, SlotsTypeOK
<1>7. OnAFile(disk, streams, file)'
  BY <1>1, <1>5 DEF OnAFile, q
<1>8. HandlesAreOwned'
  BY <1>1, <1>5, FileAssumption DEF FileInv, HandlesAreOwned, q
<1> QED
  BY <1>6, <1>7, <1>8

LEMMA WriteTextKeeps == ASSUME FileInv, WriteText PROVE FileInv'
<1>1. Writable(streams, file) /\ UNCHANGED <<kind, streams, file, job>>
  BY DEF WriteText
<1>2. PICK first \in Texts, second \in Texts, newline \in BOOLEAN :
          disk' = Extended(disk, streams, file,
                           first \o second \o IF newline THEN <<Newline>> ELSE <<>>)
  BY DEF WriteText
<1> DEFINE data == first \o second \o IF newline THEN <<Newline>> ELSE <<>>
<1>3. data \in Seq(Byte)
  <2>1. first \in Seq(Byte) /\ second \in Seq(Byte) /\ Newline \in Byte
    BY TextAssumption, FileAssumption
  <2>2. <<Newline>> \in Seq(Byte) /\ <<>> \in Seq(Byte)
    BY <2>1, EmptySeq
  <2>3. first \o second \in Seq(Byte)
    BY <2>1, ConcatProperties
  <2> QED BY <2>2, <2>3, ConcatProperties
<1> HIDE DEF data
<1>4. disk' = Extended(disk, streams, file, data)
  BY <1>2 DEF data
<1>5. JobOK(job)'
  BY <1>1 DEF FileInv, JobOK, TextLeft, FieldsLeft, DataLeft
<1> QED
  BY <1>1, <1>3, <1>4, <1>5, ExtendedKeeps DEF FileInv

LEMMA PaddedIsText ==
    ASSUME NEW text \in Seq(Byte)
    PROVE  Padded(text) \in Seq(Byte)
<1> DEFINE m == FieldWidth - Len(text)
           blanks == [k \in 1..m |-> Space]
<1>1. m \in Int /\ Space \in Byte
  BY FileAssumption, TypedAssumption, LenProperties
<1>2. blanks \in Seq(Byte)
  <2> HIDE DEF m
  <2>1. CASE m \in Nat
    BY <1>1, <2>1, SeqDef
  <2>2. CASE m \notin Nat
    <3>1. 1..m = 1..0
      BY <1>1, <2>2
    <3>2. [k \in 1..0 |-> Space] \in Seq(Byte)
      BY <1>1, SeqDef
    <3> QED BY <3>1, <3>2
  <2> QED BY <2>1, <2>2
<1> HIDE DEF blanks
<1>3. text \o blanks \in Seq(Byte)
  BY <1>2, ConcatProperties
<1> QED
  BY <1>3 DEF Padded, blanks

LEMMA PiecesAreBytes ==
    ASSUME NEW sort \in FieldSorts, NEW v \in FieldValues(sort)
    PROVE  FieldPieces(sort, v) \in Seq(Seq(Byte)) /\ FieldPieces(sort, v) # <<>>
<1>1. CASE sort = "integer"
  <2> DEFINE n == v[1]
             n1 == FloorDiv256(n)
             n2 == FloorDiv256(n1)
             n3 == FloorDiv256(n2)
  <2>1. n \in Int
    BY <1>1 DEF FieldValues
  <2>2. ByteMod256(n) \in Byte /\ n1 \in Int
    BY <2>1, BytesAreBytes
  <2>3. ByteMod256(n1) \in Byte /\ n2 \in Int
    BY <2>2, BytesAreBytes
  <2>4. ByteMod256(n2) \in Byte /\ n3 \in Int
    BY <2>3, BytesAreBytes
  <2>5. ByteMod256(n3) \in Byte
    BY <2>4, BytesAreBytes
  <2>6. FieldPieces(sort, v) = <<<<ByteMod256(n)>>, <<ByteMod256(n1)>>,
                                 <<ByteMod256(n2)>>, <<ByteMod256(n3)>>>>
    BY <1>1 DEF FieldPieces, IntPieces
  <2> HIDE DEF n, n1, n2, n3
  <2> QED BY <2>2, <2>3, <2>4, <2>5, <2>6
<1>2. CASE sort = "char"
  <2>1. FieldPieces(sort, v) = <<<<ByteMod256(v[1])>>>> /\ v[1] \in Int
    BY <1>2, FileAssumption DEF FieldPieces, FieldValues, Byte
  <2>2. ByteMod256(v[1]) \in Byte
    BY <2>1, BytesAreBytes
  <2> QED BY <2>1, <2>2
<1>3. CASE sort = "real"
  <2>1. FieldPieces(sort, v) = <<Padded(v)>> /\ v \in Seq(Byte)
    BY <1>3 DEF FieldPieces, FieldValues
  <2> QED BY <2>1, PaddedIsText
<1> QED
  BY <1>1, <1>2, <1>3 DEF FieldSorts

LEMMA BeginWriteKeeps == ASSUME FileInv, BeginWrite PROVE FileInv'
<1>1. kind = "typed" /\ UNCHANGED slotVars
  BY DEF BeginWrite
<1>2. PICK v \in Values :
          job' = [NoJob EXCEPT !.at = "write", !.left = Component, !.got = v]
  BY DEF BeginWrite
<1>3. /\ DOMAIN job' = DOMAIN NoJob /\ job'.at = "write" /\ job'.left = Component
      /\ job'.got = v /\ job'.out = <<>>
  BY <1>2 DEF NoJob
<1>4. /\ Component \in Seq(FieldSorts) /\ Component # <<>> /\ v \in Seq(Seq(Int))
      /\ Len(v) = Len(Component) /\ \A k \in 1..Len(v) : v[k] \in FieldValues(Component[k])
  BY TypedAssumption
<1>5. DataLeft(job')
  BY <1>3, <1>4, EmptySeq DEF DataLeft
<1>6. JobOK(job)'
  BY <1>1, <1>3, <1>5 DEF JobOK, DataLeft, TextLabels, FieldLabels, slotVars
<1> QED
  BY <1>1, <1>6 DEF FileInv, slotVars, SlotsTypeOK, OnAFile, HandlesAreOwned

(* There is a piece to write, and what is left after it is as it was.       *)
LEMMA LoadFieldOK ==
    ASSUME NEW STATE j, DOMAIN j = DOMAIN NoJob, DataLeft(j), j.out = <<>>
    PROVE  /\ DOMAIN LoadField(j) = DOMAIN NoJob /\ DataLeft(LoadField(j))
           /\ LoadField(j).at = j.at /\ LoadField(j).out # <<>>
<1> DEFINE k == LoadField(j)
           o == FieldPieces(Head(j.left), Head(j.got))
<1>1. DOMAIN j = {"at", "left", "whole", "got", "acc", "out", "byte", "value", "shift"}
  BY DEF NoJob
<1>2. /\ DOMAIN k = DOMAIN NoJob /\ k.at = j.at /\ k.out = o
      /\ k.left = Tail(j.left) /\ k.got = Tail(j.got)
  BY <1>1 DEF LoadField
<1>3. j.left \in Seq(FieldSorts) /\ j.left # <<>> /\ j.got \in Seq(Seq(Int))
      /\ Len(j.got) = Len(j.left)
  BY DEF DataLeft
<1>4. Len(j.left) \in Nat \ {0}
  BY <1>3, EmptySeq
<1>5. j.got # <<>>
  <2> SUFFICES ASSUME j.got = <<>> PROVE FALSE
    OBVIOUS
  <2>1. Len(j.got) = 0
    BY EmptySeq
  <2> QED BY <2>1, <1>3, <1>4
<1>6. /\ Head(j.left) = j.left[1] /\ Head(j.got) = j.got[1]
      /\ Head(j.left) \in FieldSorts /\ Head(j.got) \in FieldValues(Head(j.left))
  <2>1. Head(j.left) = j.left[1] /\ Head(j.got) = j.got[1]
    BY <1>3, <1>5
  <2>2. j.got[1] \in FieldValues(j.left[1])
    BY <1>4 DEF DataLeft
  <2> QED BY <1>3, <2>1, <2>2, HeadTailProperties
<1>7. o \in Seq(Seq(Byte)) /\ o # <<>>
  BY <1>6, PiecesAreBytes
<1>8. /\ Tail(j.left) \in Seq(FieldSorts) /\ Len(Tail(j.left)) = Len(j.left) - 1
      /\ \A i \in 1..Len(Tail(j.left)) : Tail(j.left)[i] = j.left[i + 1]
  BY <1>3, HeadTailProperties
<1>9. /\ Tail(j.got) \in Seq(Seq(Int)) /\ Len(Tail(j.got)) = Len(j.got) - 1
      /\ \A i \in 1..Len(Tail(j.got)) : Tail(j.got)[i] = j.got[i + 1]
  BY <1>3, <1>5, HeadTailProperties
<1>10. \A i \in 1..Len(Tail(j.left)) : Tail(j.got)[i] \in FieldValues(Tail(j.left)[i])
  <2> TAKE i \in 1..Len(Tail(j.left))
  <2>1. i + 1 \in 1..Len(j.left)
    BY <1>4, <1>8
  <2>2. j.got[i + 1] \in FieldValues(j.left[i + 1])
    BY <2>1 DEF DataLeft
  <2>3. Tail(j.left)[i] = j.left[i + 1] /\ Tail(j.got)[i] = j.got[i + 1]
    BY <1>3, <1>8, <1>9
  <2> QED BY <2>2, <2>3
<1> HIDE DEF k, o
<1>11. DataLeft(k)
  BY <1>2, <1>3, <1>7, <1>8, <1>9, <1>10 DEF DataLeft
<1> QED
  BY <1>2, <1>7, <1>11 DEF k

LEMMA WritePieceKeeps == ASSUME FileInv, WritePiece PROVE FileInv'
<1> DEFINE j == IF job.out = <<>> THEN LoadField(job) ELSE job
           rest == [j EXCEPT !.out = Tail(@)]
<1>1. /\ job.at = "write" /\ Writable(streams, file)
      /\ disk' = Extended(disk, streams, file, Head(j.out))
      /\ job' = NoJob \/ (job' = rest /\ (rest.out # <<>> \/ rest.left # <<>>))
      /\ UNCHANGED <<kind, streams, file>>
  BY DEF WritePiece
<1>2. kind = "typed" /\ DOMAIN job = DOMAIN NoJob /\ DataLeft(job)
  BY <1>1 DEF FileInv, JobOK
<1>3. DOMAIN j = DOMAIN NoJob /\ DataLeft(j) /\ j.at = "write" /\ j.out # <<>>
  BY <1>1, <1>2, LoadFieldOK
<1> HIDE DEF j
<1>4. j.out \in Seq(Seq(Byte))
  BY <1>3 DEF DataLeft
<1>5. Head(j.out) \in Seq(Byte) /\ Tail(j.out) \in Seq(Seq(Byte))
  BY <1>3, <1>4, HeadTailProperties
<1>6. SlotsTypeOK' /\ OnAFile(disk, streams, file)' /\ HandlesAreOwned'
  BY <1>1, <1>5, ExtendedKeeps
<1>7. /\ DOMAIN rest = DOMAIN NoJob /\ rest.at = "write" /\ rest.out = Tail(j.out)
      /\ rest.left = j.left /\ rest.got = j.got
  BY <1>3 DEF NoJob
<1> HIDE DEF rest
<1>8. (rest.out # <<>> \/ rest.left # <<>>) => DataLeft(rest)
  BY <1>3, <1>5, <1>7 DEF DataLeft
<1>9. (rest.out # <<>> \/ rest.left # <<>>) => JobOK(rest)
  BY <1>2, <1>7, <1>8 DEF JobOK, TextLabels, FieldLabels
<1>10. JobOK(job)'
  <2>1. CASE job' = NoJob
    BY <1>1, <2>1, NoJobOK DEF JobOK, TextLeft, FieldsLeft, DataLeft, NoJob, TextLabels, FieldLabels
  <2>2. CASE job' = rest /\ (rest.out # <<>> \/ rest.left # <<>>)
    BY <1>1, <1>9, <2>2 DEF JobOK, TextLeft, FieldsLeft, DataLeft
  <2> QED BY <1>1, <2>1, <2>2
<1> QED
  BY <1>6, <1>10 DEF FileInv

---------------------------------------------------------------------------
(* Opening and closing.                                                     *)

LEMMA SameJobOK == ASSUME JobOK(job), job' = job, kind' = kind PROVE JobOK(job)'
  BY DEF JobOK, TextLeft, FieldsLeft, DataLeft

(* After a close, nothing is open.                                          *)
LEMMA ClosedFacts ==
    ASSUME FileInv, NEW STATE f, f \in Slots, f.h = file.h, f.rd = file.rd
    PROVE  /\ CloseStream(streams, f) \in [Handles -> Stream]
           /\ \A h \in Handles : CloseStream(streams, f)[h].mode = "closed"
           /\ CloseSlots(f) \in Slots /\ CloseSlots(f).h = 0 /\ CloseSlots(f).rd = 0
           /\ CloseSlots(f).path = f.path
<1>1. streams \in [Handles -> Stream] /\ (f.h # 0 => f.h \in Handles)
  BY DEF FileInv, SlotsTypeOK, Slots
<1>2. NoStream \in Stream /\ NoStream.mode = "closed"
  BY DEF NoStream, Stream
<1>3. \A h \in Handles : h # f.h => streams[h].mode = "closed"
  BY DEF FileInv, HandlesAreOwned
<1>4. f.h = 0 => f.rd = 0
  BY DEF FileInv, HandlesAreOwned
<1>5. /\ CloseStream(streams, f) \in [Handles -> Stream]
      /\ \A h \in Handles : CloseStream(streams, f)[h].mode = "closed"
  <2>1. CASE f.h = 0
    BY <1>1, <1>3, <2>1, HandleFacts DEF CloseStream
  <2>2. CASE f.h # 0
    <3>1. CloseStream(streams, f) = [streams EXCEPT ![f.h] = NoStream]
      BY <2>2 DEF CloseStream
    <3> QED BY <1>1, <1>2, <1>3, <2>2, <3>1
  <2> QED BY <2>1, <2>2
<1>6. CloseSlots(f) \in Slots /\ CloseSlots(f).h = 0 /\ CloseSlots(f).rd = 0
      /\ CloseSlots(f).path = f.path
  BY <1>4 DEF CloseSlots, Slots
<1> QED
  BY <1>5, <1>6

LEMMA OpenedFacts ==
    ASSUME NEW STATE f, f \in Slots, NEW h \in Handles, NEW forRead \in BOOLEAN
    PROVE  /\ Opened(f, h, forRead) \in Slots /\ Opened(f, h, forRead).h = h
           /\ Opened(f, h, forRead).rd = Flag(forRead)
           /\ Opened(f, h, forRead).eof = 0
           /\ kind = "text" => Opened(f, h, forRead).peek = <<>>
<1> DEFINE open == [f EXCEPT !.h = h, !.rd = IF forRead THEN 1 ELSE 0, !.eof = 0]
<1>1. open \in Slots /\ open.h = h /\ open.rd = Flag(forRead) /\ open.eof = 0
  BY DEF Slots, Flag
<1>2. Opened(f, h, forRead) =
          IF kind = "text" THEN [open EXCEPT !.peek = <<>>, !.eoln = 0] ELSE open
  BY DEF Opened
<1> HIDE DEF open
<1> QED
  BY <1>1, <1>2, EmptySeq DEF Slots

LEMMA WithPathFacts ==
    ASSUME file \in Slots, NEW f \in WithPath(file)
    PROVE  f \in Slots /\ f.h = file.h /\ f.rd = file.rd
  BY DEF WithPath, Slots

(* The one handle that is open afterwards is the one that was given out.    *)
LEMMA OpenStep ==
    ASSUME FileInv, Idle, NEW f \in WithPath(file), NEW h \in Handles,
           NEW forRead \in BOOLEAN, f.path # NoPath,
           streams' = [CloseStream(streams, f) EXCEPT ![h] =
               [path |-> f.path, mode |-> IF forRead THEN "reading" ELSE "writing", pos |-> 0]],
           file' = Opened(CloseSlots(f), h, forRead),
           DOMAIN disk' = Paths, \A p \in Paths : disk'[p] \in Seq(Byte) \cup {Missing},
           disk'[f.path] # Missing, kind' = kind, job' = job
    PROVE  FileInv'
<1>1. file \in Slots /\ JobOK(job) /\ kind \in {"text", "typed"}
  BY DEF FileInv, SlotsTypeOK
<1>2. f \in Slots /\ f.h = file.h /\ f.rd = file.rd
  BY <1>1, WithPathFacts
<1> DEFINE closed == CloseStream(streams, f)
           slots == CloseSlots(f)
           new == [path |-> f.path, mode |-> IF forRead THEN "reading" ELSE "writing", pos |-> 0]
<1>3. /\ closed \in [Handles -> Stream]
      /\ \A g \in Handles : closed[g].mode = "closed"
      /\ slots \in Slots /\ slots.path = f.path
  BY <1>2, ClosedFacts
<1>4. new \in Stream /\ new.path = f.path /\ new.mode # "closed"
      /\ new.mode = IF forRead THEN "reading" ELSE "writing"
  BY <1>2 DEF Stream, Slots
<1>5. streams' = [closed EXCEPT ![h] = new]
  OBVIOUS
<1>6. f.path \in Paths
  BY <1>2 DEF Slots
<1> HIDE DEF closed, new
<1>7. /\ streams' \in [Handles -> Stream] /\ streams'[h] = new
      /\ \A g \in Handles : streams'[g].mode # "closed" <=> g = h
  BY <1>3, <1>4, <1>5
<1>8. file' \in Slots /\ file'.h = h /\ file'.rd = Flag(forRead)
  <2> HIDE DEF slots
  <2> QED BY <1>3, OpenedFacts DEF slots
<1>9. SlotsTypeOK'
  BY <1>1, <1>7, <1>8 DEF SlotsTypeOK
<1>10. OnAFile(disk, streams, file)'
  BY <1>4, <1>6, <1>7, <1>8 DEF OnAFile
<1>11. HandlesAreOwned'
  BY <1>4, <1>6, <1>7, <1>8, HandleFacts DEF HandlesAreOwned, Flag
<1> QED
  BY <1>1, <1>9, <1>10, <1>11, SameJobOK DEF FileInv

LEMMA SlotStepKeeps == ASSUME FileInv, SlotStep PROVE FileInv'
<1> USE DEF Idle
<1>1. CASE UseAnswer
  BY <1>1, SameJobOK DEF UseAnswer, slotVars, FileInv, SlotsTypeOK, OnAFile, HandlesAreOwned
<1>2. CASE AssignFile
  <2>1. PICK p \in Paths : file' = [file EXCEPT !.path = p]
    BY <1>2 DEF AssignFile
  <2>2. UNCHANGED <<kind, disk, streams, job>>
    BY <1>2 DEF AssignFile
  <2>3. file' \in Slots /\ file'.h = file.h /\ file'.rd = file.rd
    BY <2>1 DEF FileInv, SlotsTypeOK, Slots
  <2>4. Moved
    BY <2>2, <2>3 DEF Moved, FileInv, SlotsTypeOK
  <2> QED BY <2>2, <2>4, MovedKeeps, SameJobOK DEF FileInv
<1>3. CASE CloseFile
  <2>1. /\ streams' = CloseStream(streams, file) /\ file' = CloseSlots(file)
        /\ UNCHANGED <<kind, disk, job>>
    BY <1>3 DEF CloseFile
  <2>2. /\ streams' \in [Handles -> Stream] /\ \A h \in Handles : streams'[h].mode = "closed"
        /\ file' \in Slots /\ file'.h = 0 /\ file'.rd = 0
    BY <2>1, ClosedFacts DEF FileInv, SlotsTypeOK
  <2>3. SlotsTypeOK' /\ OnAFile(disk, streams, file)' /\ HandlesAreOwned'
    BY <2>1, <2>2, HandleFacts DEF FileInv, SlotsTypeOK, OnAFile, HandlesAreOwned
  <2> QED BY <2>1, <2>3, SameJobOK DEF FileInv
<1>4. CASE Reset
  <2>1. PICK f \in WithPath(file), h \in Handles :
            /\ f.path # NoPath /\ disk[f.path] # Missing
            /\ streams' = [CloseStream(streams, f) EXCEPT ![h] =
                               [path |-> f.path, mode |-> "reading", pos |-> 0]]
            /\ file' = Opened(CloseSlots(f), h, TRUE)
    BY <1>4 DEF Reset
  <2>2. UNCHANGED <<kind, disk, job>> /\ Idle
    BY <1>4 DEF Reset
  <2> QED BY <2>1, <2>2, OpenStep DEF FileInv, SlotsTypeOK
<1>5. CASE Rewrite
  <2>1. PICK f \in WithPath(file), h \in Handles :
            /\ f.path # NoPath
            /\ streams' = [CloseStream(streams, f) EXCEPT ![h] =
                               [path |-> f.path, mode |-> "writing", pos |-> 0]]
            /\ disk' = [disk EXCEPT ![f.path] = <<>>]
            /\ file' = Opened(CloseSlots(f), h, FALSE)
    BY <1>5 DEF Rewrite
  <2>2. UNCHANGED <<kind, job>> /\ Idle
    BY <1>5 DEF Rewrite
  <2>3. f.path \in Paths
    BY <2>1, WithPathFacts DEF FileInv, SlotsTypeOK, Slots
  <2>4. /\ DOMAIN disk' = Paths /\ \A p \in Paths : disk'[p] \in Seq(Byte) \cup {Missing}
        /\ disk'[f.path] # Missing
    <3>1. PICK e \in Seq(Byte) : disk' = [disk EXCEPT ![f.path] = e]
      BY <2>1, EmptySeq
    <3>2. DOMAIN disk = Paths /\ \A p \in Paths : disk[p] \in Seq(Byte) \cup {Missing}
      BY DEF FileInv, SlotsTypeOK
    <3>3. Missing \notin Seq(Byte)
      BY FileAssumption
    <3> QED BY <2>3, <3>1, <3>2, <3>3
  <2> QED BY <2>1, <2>2, <2>4, OpenStep
<1>6. CASE Restart
  <2>1. /\ streams' = [h \in Handles |-> NoStream] /\ file' = NoSlots /\ job' = NoJob
        /\ UNCHANGED <<kind, disk>>
    BY <1>6 DEF Restart
  <2>2. NoStream \in Stream /\ NoStream.mode = "closed" /\ NoSlots \in Slots
        /\ NoSlots.h = 0 /\ NoSlots.rd = 0
    BY EmptySeq DEF NoStream, Stream, NoSlots, Slots
  <2>3. SlotsTypeOK' /\ OnAFile(disk, streams, file)' /\ HandlesAreOwned'
    BY <2>1, <2>2, HandleFacts DEF FileInv, SlotsTypeOK, OnAFile, HandlesAreOwned
  <2>4. JobOK(job)'
    BY <2>1 DEF JobOK, NoJob, TextLabels, FieldLabels
  <2> QED BY <2>3, <2>4 DEF FileInv
<1> QED
  BY <1>1, <1>2, <1>3, <1>4, <1>5, <1>6 DEF SlotStep

---------------------------------------------------------------------------

LEMMA FileInvInitial == ASSUME Init PROVE FileInv
<1>1. NoStream \in Stream /\ NoStream.mode = "closed" /\ NoSlots \in Slots
      /\ NoSlots.h = 0 /\ NoSlots.rd = 0
  BY EmptySeq DEF NoStream, Stream, NoSlots, Slots
<1>2. kind \in {"text", "typed"} /\ disk \in InitialDisks[kind]
      /\ streams = [h \in Handles |-> NoStream] /\ file = NoSlots /\ job = NoJob
  BY DEF Init
<1>3. disk \in [Paths -> Seq(Byte) \cup {Missing}]
  BY <1>2, FileAssumption
<1>4. SlotsTypeOK /\ OnAFile(disk, streams, file) /\ HandlesAreOwned
  BY <1>1, <1>2, <1>3, HandleFacts DEF SlotsTypeOK, OnAFile, HandlesAreOwned
<1> QED
  BY <1>2, <1>4, NoJobOK DEF FileInv

LEMMA FileInvKept == ASSUME FileInv, [Next]_vars PROVE FileInv'
<1>1. CASE SlotStep
  BY <1>1, SlotStepKeeps
<1>2. CASE TextStep
  BY <1>2, BeginReadKeeps, ReadStepKeeps, AskTextKeeps, WriteTextKeeps DEF TextStep
<1>3. CASE TypedStep
  <2>1. CASE TypedEof
    BY <2>1, SameJobOK DEF TypedEof, slotVars, FileInv, SlotsTypeOK, OnAFile, HandlesAreOwned
  <2> QED
    BY <1>3, <2>1, BeginWriteKeeps, BeginReadComponentKeeps, WritePieceKeeps, FieldStepKeeps
       DEF TypedStep, FieldStep
<1>4. CASE UNCHANGED vars
  BY <1>4, SameJobOK DEF vars, FileInv, SlotsTypeOK, OnAFile, HandlesAreOwned
<1> QED
  BY <1>1, <1>2, <1>3, <1>4 DEF Next

(* The invariant the other theorems rest on holds of every execution.       *)
THEOREM FilesInvariant == Spec => []FileInv
  BY FileInvInitial, FileInvKept, PTL DEF Spec

(* Whatever is opened again, closed twice or cut short (lowerResetRewrite,  *)
(* lowerCloseFile), the host has open exactly the handle in $h, on a file   *)
(* that exists and in the direction $rd says.                               *)
THEOREM HandlesAreNeverLost == Spec => []HandlesAreOwned
<1>1. FileInv => HandlesAreOwned
  BY DEF FileInv
<1> QED
  BY <1>1, FilesInvariant, PTL

---------------------------------------------------------------------------
(* Reading an integer.                                                      *)


(* The multiplier is the weight of the next byte unless the file has ended, *)
(* and then no byte comes.                                                  *)
MultiplierInv ==
    job.at = "ri32" =>
        /\ job.byte \in 0..3
        /\ Readable(streams, file) =>
             AtEnd(streams, file) \/ job.shift = Weight[job.byte + 1]

LEMMA TextStepKind == ASSUME FileInv, TextStep PROVE kind = "text" /\ kind' = kind
<1>1. CASE ReadStep
  <2>1. \E at \in TextLabels : Fetch(at)
    BY <1>1 DEF ReadStep, ReadChar, StringEnds, TakeCharacter, WordGoesOn, SkipBlanks,
                TakeNumber, SkipLine, TextLabels
  <2>2. PICK at \in TextLabels : Fetch(at)
    BY <2>1
  <2> QED BY <2>2 DEF Fetch, FileInv, JobOK
<1> QED
  BY <1>1 DEF TextStep, BeginRead, TextEof, Eoln, AskText, Fetch, WriteText, slotVars

LEMMA MultiplierKept ==
    ASSUME FileInv, MultiplierInv, [Next]_vars
    PROVE  MultiplierInv'
<1>1. FileInv' /\ DOMAIN job = DOMAIN NoJob
  BY FileInvKept DEF FileInv, JobOK
<1> DEFINE Fresh(j) == j.byte = 0 /\ j.shift = 1
<1>2. Weight[1] = 1
  BY DEF Weight
<1>3. ASSUME job'.at # "ri32" \/ Fresh(job') PROVE MultiplierInv'
  BY <1>2, <1>3 DEF MultiplierInv
<1>4. CASE UNCHANGED <<job, streams, file, disk>>
  BY <1>4 DEF MultiplierInv, Readable, AtEnd, Pos, Content
<1>5. CASE SlotStep
  <2>1. CASE UseAnswer
    BY <1>4, <2>1 DEF UseAnswer, slotVars
  <2>2. CASE ~UseAnswer
    <3>1. CASE Restart
      BY <1>3, <3>1 DEF Restart, NoJob
    <3>2. CASE AssignFile \/ CloseFile \/ Reset \/ Rewrite
      <4>1. Idle /\ job' = job
        BY <3>2 DEF AssignFile, CloseFile, Reset, Rewrite
      <4> QED BY <1>3, <4>1 DEF Idle
    <3> QED BY <1>5, <2>2, <3>1, <3>2 DEF SlotStep
  <2> QED BY <2>1, <2>2
<1>6. CASE TextStep
  <2>1. kind' = "text"
    BY <1>6, TextStepKind
  <2>2. job'.at # "ri32"
    BY <1>1, <2>1 DEF FileInv, JobOK, FieldLabels
  <2> QED BY <1>3, <2>2
<1>7. CASE TypedStep
  <2>1. CASE BeginWrite
    <3>1. job'.at = "write"
      BY <2>1 DEF BeginWrite, NoJob
    <3> QED BY <1>3, <3>1
  <2>2. CASE BeginReadComponent
    <3>1. Fresh(job')
      BY <2>2 DEF BeginReadComponent, Begin, NoJob
    <3> QED BY <1>3, <3>1
  <2>3. CASE WritePiece
    <3> DEFINE j == IF job.out = <<>> THEN LoadField(job) ELSE job
    <3>1. job.at = "write" /\ (job' = NoJob \/ job' = [j EXCEPT !.out = Tail(@)])
      BY <2>3 DEF WritePiece
    <3>2. j.at = "write" /\ DOMAIN j = DOMAIN NoJob
      BY <1>1, <3>1 DEF LoadField, NoJob
    <3> HIDE DEF j
    <3>3. job'.at # "ri32"
      BY <3>1, <3>2 DEF NoJob
    <3> QED BY <1>3, <3>3
  <2>4. ASSUME NEW STATE j, NEW STATE v, DOMAIN j = DOMAIN NoJob, Continue(FieldRead(j, v))
        PROVE  MultiplierInv'
    <3>1. job' = NoJob \/ job' = FieldRead(j, v)
      BY <2>4 DEF Continue
    <3>2. Fresh(FieldRead(j, v))
      BY <2>4 DEF FieldRead, NoJob
    <3>3. NoJob.at # "ri32"
      BY DEF NoJob
    <3> QED BY <1>3, <3>1, <3>2, <3>3
  <2>5. CASE ReadCharByte
    <3>1. Continue(FieldRead(job, IF Found(1) = <<>> THEN <<0>> ELSE Found(1)))
      BY <2>5 DEF ReadCharByte
    <3> QED BY <1>1, <2>4, <3>1
  <2>6. CASE ReadRealAscii
    <3>1. Continue(FieldRead(job, Unpadded(Found(FieldWidth))))
      BY <2>6 DEF ReadRealAscii
    <3> QED BY <1>1, <2>4, <3>1
  <2>7. CASE ReadIntByte
    <3> DEFINE next == AfterByte(job, Found(1))
    <3>1. /\ FetchField("ri32", 1)
          /\ Continue(IF next.byte < 4 THEN next ELSE FieldRead(next, <<next.value>>))
      BY <2>7 DEF ReadIntByte
    <3>2. /\ job.at = "ri32" /\ Readable(streams, file) /\ disk' = disk
          /\ streams' = Advanced(streams, file, 1) /\ file'.h = file.h
      <4>1. file' = file \/ file' = [file EXCEPT !.eof = 1]
        BY <3>1 DEF FetchField
      <4>2. file'.h = file.h
        BY <4>1 DEF FileInv, SlotsTypeOK, Slots
      <4> QED BY <3>1, <4>2 DEF FetchField
    <3>3. /\ job.byte \in 0..3
          /\ AtEnd(streams, file) \/ job.shift = Weight[job.byte + 1]
      BY <3>2 DEF MultiplierInv
    <3>4. /\ next.byte = job.byte + 1
          /\ next.shift = IF Found(1) = <<>> THEN Unset ELSE job.shift * Radix
          /\ DOMAIN next = DOMAIN NoJob /\ next.at = "ri32"
      BY <3>2, AfterByteOK DEF FileInv, JobOK, FieldLabels
    <3>5. AtEnd(streams, file) => AtEnd(streams, file)'
      BY <3>2, NextByte DEF AtEnd, Pos, Content
    <3>6. ~AtEnd(streams, file) => next.shift = job.shift * Radix
      BY <3>2, <3>4, NextByte DEF Found
    <3>7. job.byte < 3 => Weight[job.byte + 1] * Radix = Weight[job.byte + 2]
      <4>1. Radix \in Nat
        BY FileAssumption
      <4> QED BY <3>3, <4>1 DEF Weight
    <3> HIDE DEF next
    <3>8. CASE next.byte < 4
      <4>1. job' = NoJob \/ job' = next
        BY <3>1, <3>8 DEF Continue
      <4>2. next.byte \in 0..3
            /\ (AtEnd(streams, file)' \/ next.shift = Weight[next.byte + 1])
        BY <3>3, <3>4, <3>5, <3>6, <3>7, <3>8
      <4>3. NoJob.at # "ri32"
        BY DEF NoJob
      <4> QED BY <1>3, <4>1, <4>2, <4>3 DEF MultiplierInv
    <3>9. CASE ~(next.byte < 4)
      BY <2>4, <3>1, <3>4, <3>9
    <3> QED BY <3>8, <3>9
  <2>8. CASE TypedEof
    BY <1>4, <2>8 DEF TypedEof, slotVars
  <2> QED BY <1>7, <2>1, <2>2, <2>3, <2>5, <2>6, <2>7, <2>8 DEF TypedStep, FieldStep
<1>8. CASE UNCHANGED vars
  BY <1>4, <1>8 DEF vars
<1> QED
  BY <1>5, <1>6, <1>7, <1>8 DEF Next

(* The reader of a 32-bit integer (lowerReadI32LE) never multiplies a byte  *)
(* with a multiplier that was not computed, however short the file is.      *)
THEOREM MultiplierIsDefined == Spec => []MultiplierDefined
<1>1. Init => MultiplierInv
  BY DEF Init, NoJob, MultiplierInv
<1>2. MultiplierInv => MultiplierDefined
  BY DEF MultiplierInv, MultiplierDefined
<1> QED
  BY <1>1, <1>2, MultiplierKept, FilesInvariant, PTL DEF Spec

---------------------------------------------------------------------------
(* The buffer of a text.                                                    *)

Agrees(s, f) ==
    /\ Len(f.peek) =< 1
    /\ f.peek # <<>> =>
         /\ Pos(s, f) >= 1
         /\ f.peek[1] = Content(s, f)[Pos(s, f)]
         /\ f.eoln = Flag(f.peek[1] = Newline)
    /\ f.eof = 1 => f.peek = <<>> /\ f.eoln = 1 /\ AtEnd(s, f)

(* A byte read ahead is the one the host has just passed; the end is noted  *)
(* when there is none.                                                      *)
LEMMA FillAgrees ==
    ASSUME FileInv, Readable(streams, file), Agrees(streams, file)
    PROVE  /\ Agrees(FillStream(streams, file), Filled)
           /\ Agrees(FillStream(streams, file), Consumed(Filled))
<1> DEFINE s == FillStream(streams, file)
<1>1. file \in Slots /\ Filled \in Slots /\ Filled.h = file.h
  BY FillFacts DEF FileInv, SlotsTypeOK, CanFill
<1>2. Agrees(s, Filled)
  <2>1. CASE ~NeedsByte(file)
    <3>1. s = streams /\ Filled = file
      BY <2>1 DEF FillStream, Filled, FillSlots
    <3> QED BY <3>1
  <2>2. CASE NeedsByte(file)
    <3> DEFINE chunk == Chunk(streams, file, 1)
    <3>1. /\ file.peek = <<>> /\ file.eof = 0 /\ s = Advanced(streams, file, 1)
          /\ Filled = IF chunk = <<>> THEN [file EXCEPT !.eof = 1, !.eoln = 1]
                      ELSE [file EXCEPT !.peek = chunk, !.eoln = Flag(chunk = <<Newline>>)]
      BY <2>2 DEF NeedsByte, FillStream, Filled, FillSlots
    <3>2. CASE AtEnd(streams, file)
      <4>1. chunk = <<>> /\ AtEnd(s, file)
        BY <3>1, <3>2, NextByte
      <4>2. Filled.eof = 1 /\ Filled.eoln = 1 /\ Filled.peek = <<>> /\ Filled.h = file.h
        BY <1>1, <3>1, <4>1 DEF Slots
      <4>3. AtEnd(s, Filled)
        BY <4>1, <4>2 DEF AtEnd, Pos, Content
      <4> QED BY <4>2, <4>3, EmptySeq DEF Agrees
    <3>3. CASE ~AtEnd(streams, file)
      <4> DEFINE b == Content(streams, file)[Pos(streams, file) + 1]
      <4>1. /\ chunk # <<>> /\ chunk = <<b>>
            /\ Pos(s, file) = Pos(streams, file) + 1
        BY <3>1, <3>3, NextByte
      <4>2. Filled.eof = 0 /\ Filled.eoln = Flag(<<b>> = <<Newline>>) /\ Filled.peek = <<b>>
            /\ Filled.h = file.h
        BY <1>1, <3>1, <4>1 DEF Slots
      <4>3. Pos(streams, file) \in Nat /\ Content(s, file) = Content(streams, file)
        BY <3>1, ReadFacts DEF Content
      <4>4. Pos(s, Filled) = Pos(s, file) /\ Content(s, Filled) = Content(s, file)
        BY <4>2 DEF Pos, Content
      <4>5. Pos(s, Filled) >= 1 /\ b = Content(s, Filled)[Pos(s, Filled)]
        BY <4>1, <4>3, <4>4
      <4> HIDE DEF b, s
      <4>6. Flag(<<b>> = <<Newline>>) = Flag(b = Newline)
        BY DEF Flag
      <4>7. Len(<<b>>) = 1 /\ <<b>>[1] = b
        OBVIOUS
      <4> QED BY <4>2, <4>5, <4>6, <4>7 DEF Agrees
    <3> QED BY <3>2, <3>3
  <2> QED BY <2>1, <2>2
<1>3. /\ Consumed(Filled).peek = <<>> /\ Consumed(Filled).h = Filled.h
      /\ Consumed(Filled).eof = Filled.eof /\ Consumed(Filled).eoln = Filled.eoln
  BY <1>1 DEF Consumed, Slots
<1>4. AtEnd(s, Consumed(Filled)) <=> AtEnd(s, Filled)
  BY <1>3 DEF AtEnd, Pos, Content
<1> HIDE DEF s
<1>5. Agrees(s, Consumed(Filled))
  BY <1>2, <1>3, <1>4, EmptySeq DEF Agrees
<1> QED
  BY <1>2, <1>5 DEF s

LEMMA TypedStepKind == ASSUME FileInv, TypedStep PROVE kind = "typed" /\ kind' = kind
<1>1. CASE FieldStep
  <2>1. job.at \in FieldLabels \cup {"write"} /\ kind' = kind
    BY <1>1 DEF FieldStep, ReadIntByte, ReadCharByte, ReadRealAscii, WritePiece, FetchField,
                FieldLabels
  <2> QED BY <2>1 DEF FileInv, JobOK
<1> QED
  BY <1>1 DEF TypedStep, BeginWrite, BeginReadComponent, TypedEof, slotVars

LEMMA FetchAgrees ==
    ASSUME FileInv, BufferAgrees, NEW at, Fetch(at), file' = Filled \/ file' = Consumed(Filled)
    PROVE  BufferAgrees'
<1> SUFFICES ASSUME kind' = "text", Readable(streams, file)' PROVE Agrees(streams, file)'
  BY DEF BufferAgrees, Agrees
<1>1. Moved /\ kind' = kind /\ disk' = disk /\ streams' = FillStream(streams, file)
  BY FetchMoves DEF Fetch
<1>2. Readable(streams, file)
  <2>1. file.h = 0 \/ file.h \in Handles
    BY DEF FileInv, SlotsTypeOK, Slots
  <2> QED BY <1>1, <2>1 DEF Moved, Readable
<1>3. Agrees(streams, file)
  BY <1>1, <1>2 DEF BufferAgrees, Agrees
<1>4. Agrees(streams', file')
  BY <1>1, <1>2, <1>3, FillAgrees
<1> QED
  BY <1>1, <1>4 DEF Agrees, Pos, AtEnd, Content

LEMMA BufferKept ==
    ASSUME FileInv, BufferAgrees, [Next]_vars
    PROVE  BufferAgrees'
<1>1. CASE UNCHANGED slotVars
  BY <1>1 DEF slotVars, BufferAgrees, Readable, AtEnd, Pos, Content
<1>2. ASSUME ~Readable(streams, file)' PROVE BufferAgrees'
  BY <1>2 DEF BufferAgrees
<1>3. CASE SlotStep
  <2>1. CASE UseAnswer
    BY <1>1, <2>1 DEF UseAnswer
  <2>2. CASE AssignFile
    <3>1. PICK p \in Paths : file' = [file EXCEPT !.path = p]
      BY <2>2 DEF AssignFile
    <3>2. UNCHANGED <<kind, disk, streams>>
      BY <2>2 DEF AssignFile
    <3>3. /\ file'.h = file.h /\ file'.peek = file.peek /\ file'.eof = file.eof
          /\ file'.eoln = file.eoln
      BY <3>1 DEF FileInv, SlotsTypeOK, Slots
    <3> QED BY <3>2, <3>3 DEF BufferAgrees, Readable, AtEnd, Pos, Content
  <2>3. CASE CloseFile
    <3>1. file' = CloseSlots(file) /\ file \in Slots
      BY <2>3 DEF CloseFile, FileInv, SlotsTypeOK
    <3>2. file'.h = 0
      BY <3>1, ClosedFacts
    <3> QED BY <1>2, <3>2 DEF Readable
  <2>4. ASSUME NEW f \in WithPath(file), NEW h \in Handles, NEW forRead \in BOOLEAN,
               file' = Opened(CloseSlots(f), h, forRead), kind' = kind
        PROVE  BufferAgrees'
    <3>1. f \in Slots /\ f.h = file.h /\ f.rd = file.rd
      BY WithPathFacts DEF FileInv, SlotsTypeOK
    <3>2. CloseSlots(f) \in Slots
      BY <3>1, ClosedFacts
    <3>3. file'.eof = 0 /\ (kind = "text" => file'.peek = <<>>)
      BY <2>4, <3>2, OpenedFacts
    <3> QED BY <2>4, <3>3, EmptySeq DEF BufferAgrees
  <2>5. CASE Reset
    <3>1. \E f \in WithPath(file), h \in Handles : file' = Opened(CloseSlots(f), h, TRUE)
      BY <2>5 DEF Reset
    <3>2. kind' = kind
      BY <2>5 DEF Reset
    <3> QED BY <2>4, <3>1, <3>2
  <2>6. CASE Rewrite
    <3>1. \E f \in WithPath(file), h \in Handles : file' = Opened(CloseSlots(f), h, FALSE)
      BY <2>6 DEF Rewrite
    <3>2. kind' = kind
      BY <2>6 DEF Rewrite
    <3> QED BY <2>4, <3>1, <3>2
  <2>7. CASE Restart
    <3>1. file'.h = 0
      BY <2>7 DEF Restart, NoSlots
    <3> QED BY <1>2, <3>1 DEF Readable
  <2> QED BY <1>3, <2>1, <2>2, <2>3, <2>5, <2>6, <2>7 DEF SlotStep
<1>4. CASE TextStep
  <2>1. CASE ReadStep \/ TextEof \/ Eoln
    <3>1. \E at \in TextLabels \cup {"idle"} :
              Fetch(at) /\ (file' = Filled \/ file' = Consumed(Filled))
      BY <2>1 DEF ReadStep, ReadChar, StringEnds, TakeCharacter, WordGoesOn, SkipBlanks,
                  TakeNumber, SkipLine, TextEof, Eoln, AskText, TextLabels
    <3> QED BY <3>1, FetchAgrees
  <2>2. CASE BeginRead
    BY <1>1, <2>2 DEF BeginRead
  <2>3. CASE WriteText
    <3>1. Writable(streams, file) /\ UNCHANGED <<streams, file>>
      BY <2>3 DEF WriteText
    <3> QED BY <1>2, <3>1 DEF Writable, Readable
  <2> QED BY <1>4, <2>1, <2>2, <2>3 DEF TextStep
<1>5. CASE TypedStep
  BY <1>5, TypedStepKind DEF BufferAgrees
<1>6. CASE UNCHANGED vars
  BY <1>1, <1>6 DEF vars, slotVars
<1> QED
  BY <1>3, <1>4, <1>5, <1>6 DEF Next

(* The character read ahead, eof and eoln of a text that is being read      *)
(* (lowerTextFillPeek) agree with the file and the position in it.          *)
THEOREM BufferFollowsTheFile == Spec => []BufferAgrees
<1>1. Init => BufferAgrees
  BY DEF Init, NoSlots, BufferAgrees, Readable
<1> QED
  BY <1>1, BufferKept, FilesInvariant, PTL DEF Spec

---------------------------------------------------------------------------
(* The types of what a statement keeps beside the slots.                    *)

(* A token, and an integer so far.                                          *)
NumbersOK(j) ==
    /\ j.acc \in Seq(Byte) /\ j.byte \in 0..3
    /\ j.value \in -Half..Half - 1 /\ j.shift \in Nat
PlaceOK(place) == place.pos \in Nat /\ place.eof \in {0, 1}
(* Nothing is read ahead in a typed file, or in one that is written.        *)
PeekIsRead ==
    /\ kind = "typed" \/ Writable(streams, file) => file.peek = <<>>
    /\ kind = "text" /\ Writable(streams, file) => file.eof = 0
WorkInv == NumbersOK(job) /\ PlaceOK(before) /\ PeekIsRead

LEMMA SumsStayInRange ==
    /\ Half \in Nat /\ 0 \in -Half..Half - 1
    /\ \A n \in Int : Wrapped(n) \in -Half..Half - 1
<1>1. Radix \in Nat /\ Radix >= 2 /\ Radix = 2 * (Radix \div 2)
  BY FileAssumption
<1> DEFINE k == Radix \div 2
           m == k * Radix * Radix * Radix
<1>2. k \in Nat /\ k >= 1
  BY <1>1
<1>3. m \in Nat /\ m >= 1
  <2> HIDE DEF k
  <2>1. k * Radix \in Nat /\ k * Radix >= 1
    BY <1>1, <1>2
  <2>2. k * Radix * Radix \in Nat /\ k * Radix * Radix >= 1
    <3> DEFINE a == k * Radix
    <3> HIDE DEF a
    <3> QED BY <1>1, <2>1 DEF a
  <2> DEFINE b == k * Radix * Radix
  <2>3. b * Radix \in Nat /\ b * Radix >= 1
    <3> HIDE DEF b
    <3> QED BY <1>1, <2>2 DEF b
  <2> QED BY <2>3
<1>4. Full = 2 * m
  <2>1. Full = (2 * k) * Radix * Radix * Radix
    BY <1>1 DEF Full
  <2> HIDE DEF k
  <2> QED BY <1>1, <1>2, <2>1
<1> HIDE DEF m
<1>5. Half = m
  BY <1>3, <1>4 DEF Half
<1>6. ASSUME NEW n \in Int PROVE Wrapped(n) \in -m..m - 1
  <2> DEFINE r == (n + m) % (2 * m)
  <2>1. r \in 0..2 * m - 1
    BY <1>3
  <2>2. Wrapped(n) = r - m
    BY <1>4, <1>5 DEF Wrapped
  <2> HIDE DEF r
  <2> QED BY <1>3, <2>1, <2>2
<1> QED
  BY <1>3, <1>5, <1>6

LEMMA NoJobTyped == NumbersOK(NoJob) /\ PlaceOK(NoPlace)
  BY SumsStayInRange, EmptySeq DEF NumbersOK, NoJob, PlaceOK, NoPlace

LEMMA ContinueTyped ==
    ASSUME PlaceOK(before), NEW STATE j, NumbersOK(j), Continue(j)
    PROVE  NumbersOK(job)' /\ PlaceOK(before)'
<1>1. (job' = NoJob \/ job' = j) /\ (before' = NoPlace \/ before' = before)
  BY DEF Continue
<1> QED
  BY <1>1, NoJobTyped DEF NumbersOK, PlaceOK, Half, Full

(* What a round of a loop leaves of the token and the integer.              *)
LEMMA RoundsAreTyped ==
    ASSUME NEW STATE j, DOMAIN j = DOMAIN NoJob, NumbersOK(j), NEW STATE v, NEW STATE label
    PROVE  /\ NumbersOK(Delivered(j, v)) /\ NumbersOK([j EXCEPT !.at = label])
<1>1. DOMAIN j = {"at", "left", "whole", "got", "acc", "out", "byte", "value", "shift"}
  BY DEF NoJob
<1>2. /\ Delivered(j, v).acc = <<>> /\ Delivered(j, v).byte = j.byte
      /\ Delivered(j, v).value = j.value /\ Delivered(j, v).shift = j.shift
  BY <1>1 DEF Delivered
<1>3. LET k == [j EXCEPT !.at = label]
      IN  k.acc = j.acc /\ k.byte = j.byte /\ k.value = j.value /\ k.shift = j.shift
  BY <1>1
<1> QED
  BY <1>2, <1>3, EmptySeq DEF NumbersOK

LEMMA TookTyped ==
    ASSUME NEW STATE j, DOMAIN j = DOMAIN NoJob, NumbersOK(j), NEW STATE f, f \in Slots
    PROVE  NumbersOK(Took(j, f)) /\ DOMAIN Took(j, f) = DOMAIN NoJob
<1>1. DOMAIN j = {"at", "left", "whole", "got", "acc", "out", "byte", "value", "shift"}
  BY DEF NoJob
<1>2. LET k == Took(j, f)
      IN  /\ k.acc = j.acc \o f.peek /\ k.byte = j.byte /\ k.value = j.value
          /\ k.shift = j.shift /\ DOMAIN k = DOMAIN j
  BY <1>1 DEF Took
<1>3. j.acc \o f.peek \in Seq(Byte)
  BY ConcatProperties DEF NumbersOK, Slots
<1> QED
  BY <1>2, <1>3 DEF NumbersOK

LEMMA FieldReadTyped ==
    ASSUME NEW STATE j, DOMAIN j = DOMAIN NoJob, j.acc \in Seq(Byte), NEW STATE v
    PROVE  NumbersOK(FieldRead(j, v))
<1>1. DOMAIN j = {"at", "left", "whole", "got", "acc", "out", "byte", "value", "shift"}
  BY DEF NoJob
<1>2. LET k == FieldRead(j, v)
      IN  k.acc = j.acc /\ k.byte = 0 /\ k.value = 0 /\ k.shift = 1
  BY <1>1 DEF FieldRead
<1> QED
  BY <1>2, SumsStayInRange DEF NumbersOK

LEMMA ReadStepTyped ==
    ASSUME FileInv, WorkInv, ReadStep
    PROVE  NumbersOK(job)' /\ PlaceOK(before)'
<1>1. DOMAIN job = DOMAIN NoJob /\ NumbersOK(job) /\ PlaceOK(before)
  BY DEF FileInv, JobOK, WorkInv
<1>2. ASSUME NEW v, Continue(Delivered(job, v)) PROVE NumbersOK(job)' /\ PlaceOK(before)'
  BY <1>1, <1>2, RoundsAreTyped, ContinueTyped
<1>3. ASSUME NEW l, Continue([job EXCEPT !.at = l]) PROVE NumbersOK(job)' /\ PlaceOK(before)'
  BY <1>1, <1>3, RoundsAreTyped, ContinueTyped
<1>4. CASE Continue(job)
  BY <1>1, <1>4, ContinueTyped
<1>5. ASSUME NEW at, Fetch(at)
      PROVE  NumbersOK(Took(job, Filled)) /\ DOMAIN Took(job, Filled) = DOMAIN NoJob
  <2>1. Filled \in Slots
    BY <1>5, FillFacts DEF Fetch
  <2> QED BY <1>1, <2>1, TookTyped
<1>6. CASE ReadChar
  BY <1>2, <1>6 DEF ReadChar
<1>7. CASE StringEnds
  BY <1>2, <1>7 DEF StringEnds
<1>8. CASE TakeCharacter
  <2> DEFINE k == Took(job, Filled)
             l == IF job.whole THEN "tread" ELSE "tread.cont"
  <2>1. Fetch("tread") /\ Continue([k EXCEPT !.at = l])
    BY <1>8 DEF TakeCharacter
  <2>2. NumbersOK(k) /\ DOMAIN k = DOMAIN NoJob
    BY <1>5, <2>1
  <2> HIDE DEF k, l
  <2> QED BY <1>1, <2>1, <2>2, RoundsAreTyped, ContinueTyped
<1>9. CASE WordGoesOn
  BY <1>2, <1>3, <1>9 DEF WordGoesOn
<1>10. CASE SkipBlanks
  BY <1>2, <1>3, <1>4, <1>10 DEF SkipBlanks
<1>11. CASE TakeNumber
  <2>1. Fetch("ti.acc")
        /\ (Continue(Delivered(job, job.acc)) \/ Continue(Took(job, Filled)))
    BY <1>11 DEF TakeNumber
  <2> QED BY <1>1, <1>2, <1>5, <2>1, ContinueTyped
<1>12. CASE SkipLine
  BY <1>3, <1>4, <1>12 DEF SkipLine
<1> QED
  BY <1>6, <1>7, <1>8, <1>9, <1>10, <1>11, <1>12 DEF ReadStep

LEMMA AfterByteTyped ==
    ASSUME NEW STATE j, DOMAIN j = DOMAIN NoJob, NumbersOK(j),
           NEW STATE chunk, chunk # <<>> => chunk[1] \in Byte
    PROVE  /\ DOMAIN AfterByte(j, chunk) = DOMAIN NoJob
           /\ AfterByte(j, chunk).acc \in Seq(Byte)
           /\ AfterByte(j, chunk).byte < 4 => NumbersOK(AfterByte(j, chunk))
<1>1. DOMAIN j = {"at", "left", "whole", "got", "acc", "out", "byte", "value", "shift"}
  BY DEF NoJob
<1>2. Radix \in Nat
  BY FileAssumption
<1> DEFINE k == AfterByte(j, chunk)
<1>3. /\ DOMAIN k = DOMAIN j /\ k.acc = j.acc /\ k.byte = j.byte + 1
      /\ chunk = <<>> => k.value = j.value /\ k.shift = 0
      /\ chunk # <<>> => /\ k.value = AddByte(j.value, chunk[1], j.shift)
                         /\ k.shift = j.shift * Radix
  <2>1. CASE chunk = <<>>
    BY <1>1, <2>1 DEF AfterByte, Unset
  <2>2. CASE chunk # <<>>
    <3>1. k = [j EXCEPT !.byte = @ + 1, !.value = AddByte(@, chunk[1], j.shift),
                        !.shift = @ * Radix]
      BY <2>2 DEF AfterByte
    <3> HIDE DEF k
    <3> QED BY <1>1, <2>2, <3>1
  <2> QED BY <2>1, <2>2
<1> HIDE DEF k
<1>4. k.value \in -Half..Half - 1 /\ k.shift \in Nat
  <2>1. j.value \in Int /\ j.value \in -Half..Half - 1 /\ j.shift \in Nat
    BY SumsStayInRange DEF NumbersOK
  <2>2. CASE chunk = <<>>
    BY <1>3, <2>1, <2>2
  <2>3. CASE chunk # <<>>
    <3>1. chunk[1] * j.shift \in Int /\ j.shift * Radix \in Nat
      BY <1>2, <2>1, <2>3 DEF Byte
    <3>2. Wrapped(chunk[1] * j.shift) \in Int
      BY <3>1, SumsStayInRange
    <3> DEFINE product == Wrapped(chunk[1] * j.shift)
    <3>3. AddByte(j.value, chunk[1], j.shift) \in -Half..Half - 1
      <4>1. AddByte(j.value, chunk[1], j.shift) = Wrapped(j.value + product)
        BY DEF AddByte
      <4> HIDE DEF product
      <4>2. j.value + product \in Int
        BY <2>1, <3>2 DEF product
      <4> QED BY <4>1, <4>2, SumsStayInRange
    <3> QED BY <1>3, <2>3, <3>1, <3>3
  <2> QED BY <2>2, <2>3
<1>5. k.byte < 4 => NumbersOK(k)
  BY <1>3, <1>4 DEF NumbersOK
<1>6. DOMAIN k = DOMAIN NoJob /\ k.acc \in Seq(Byte)
  BY <1>3 DEF NumbersOK
<1> QED
  BY <1>5, <1>6 DEF k

LEMMA FieldStepTyped ==
    ASSUME FileInv, WorkInv, ReadIntByte \/ ReadCharByte \/ ReadRealAscii
    PROVE  NumbersOK(job)' /\ PlaceOK(before)'
<1>1. DOMAIN job = DOMAIN NoJob /\ NumbersOK(job) /\ PlaceOK(before)
  BY DEF FileInv, JobOK, WorkInv
<1>2. ASSUME NEW STATE j, NEW STATE v, DOMAIN j = DOMAIN NoJob, j.acc \in Seq(Byte),
             Continue(FieldRead(j, v))
      PROVE  NumbersOK(job)' /\ PlaceOK(before)'
  BY <1>1, <1>2, FieldReadTyped, ContinueTyped
<1>3. CASE ReadIntByte
  <2> DEFINE next == AfterByte(job, Found(1))
  <2>1. FetchField("ri32", 1)
        /\ Continue(IF next.byte < 4 THEN next ELSE FieldRead(next, <<next.value>>))
    BY <1>3 DEF ReadIntByte
  <2>2. Found(1) # <<>> => Found(1)[1] \in Byte
    <3>1. Found(1) \in Seq(Byte)
      BY <2>1, ReadFacts DEF FetchField, Found
    <3> QED BY <3>1
  <2>3. /\ DOMAIN next = DOMAIN NoJob /\ next.acc \in Seq(Byte)
        /\ next.byte < 4 => NumbersOK(next)
    BY <1>1, <2>2, AfterByteTyped
  <2> HIDE DEF next
  <2> QED BY <1>1, <1>2, <2>1, <2>3, ContinueTyped
<1>4. CASE ReadCharByte
  <2>1. Continue(FieldRead(job, IF Found(1) = <<>> THEN <<0>> ELSE Found(1)))
    BY <1>4 DEF ReadCharByte
  <2> QED BY <1>1, <1>2, <2>1 DEF NumbersOK
<1>5. CASE ReadRealAscii
  <2>1. Continue(FieldRead(job, Unpadded(Found(FieldWidth))))
    BY <1>5 DEF ReadRealAscii
  <2> QED BY <1>1, <1>2, <2>1 DEF NumbersOK
<1> QED
  BY <1>3, <1>4, <1>5

(* A statement begins at a place in the file: what was read ahead has been  *)
(* passed by the host.                                                      *)
LEMMA HereIsAPlace == ASSUME FileInv, BufferAgrees, WorkInv PROVE Here \in Nat
<1>1. CASE file.h = 0
  BY <1>1 DEF Here
<1>2. CASE file.h # 0
  <2>1. file.h \in Handles /\ streams \in [Handles -> Stream] /\ file \in Slots
        /\ kind \in {"text", "typed"}
    BY <1>2 DEF FileInv, SlotsTypeOK, Slots
  <2>2. Pos(streams, file) \in Nat /\ file.peek \in Seq(Byte)
    BY <2>1 DEF Pos, Stream, Slots
  <2>3. Here = Pos(streams, file) - Len(file.peek)
    BY <1>2 DEF Here
  <2>4. CASE file.peek = <<>>
    BY <2>2, <2>3, <2>4, EmptySeq
  <2>5. CASE file.peek # <<>>
    <3>1. kind = "text" /\ ~Writable(streams, file)
      BY <2>1, <2>5 DEF WorkInv, PeekIsRead
    <3>2. Readable(streams, file)
      BY <1>2, <2>1, <3>1 DEF FileInv, HandlesAreOwned, Readable, Writable, Slots
    <3>3. Len(file.peek) =< 1 /\ Pos(streams, file) >= 1
      BY <2>5, <3>1, <3>2 DEF BufferAgrees
    <3>4. Len(file.peek) \in Nat
      BY <2>2
    <3> QED BY <2>2, <2>3, <3>3, <3>4
  <2> QED BY <2>4, <2>5
<1> QED
  BY <1>1, <1>2

LEMMA BeginTyped ==
    ASSUME FileInv, BufferAgrees, WorkInv, NEW at, NEW left, NEW whole, Begin(at, left, whole)
    PROVE  NumbersOK(job)' /\ PlaceOK(before)'
<1>1. /\ job'.acc = NoJob.acc /\ job'.byte = NoJob.byte /\ job'.value = NoJob.value
      /\ job'.shift = NoJob.shift
  BY DEF Begin, NoJob
<1>2. before'.pos = Here /\ before'.eof = file.eof
  BY DEF Begin
<1>3. file.eof \in {0, 1}
  BY DEF FileInv, SlotsTypeOK, Slots
<1> QED
  BY <1>1, <1>2, <1>3, NoJobTyped, HereIsAPlace DEF NumbersOK, PlaceOK, Half, Full

LEMMA PeekKept == ASSUME FileInv, WorkInv, [Next]_vars PROVE PeekIsRead'
<1>1. CASE UNCHANGED slotVars
  BY <1>1 DEF slotVars, WorkInv, PeekIsRead, Writable
<1>2. file \in Slots /\ kind \in {"text", "typed"} /\ streams \in [Handles -> Stream]
  BY DEF FileInv, SlotsTypeOK
<1>3. ASSUME file'.peek = <<>>, kind' = "text" => file'.eof = 0 \/ file'.h = 0
      PROVE  PeekIsRead'
  BY <1>3 DEF PeekIsRead, Writable
<1>4. CASE SlotStep
  <2>1. CASE UseAnswer
    BY <1>1, <2>1 DEF UseAnswer
  <2>2. CASE AssignFile
    <3>1. PICK p \in Paths : file' = [file EXCEPT !.path = p]
      BY <2>2 DEF AssignFile
    <3>2. /\ file'.h = file.h /\ file'.peek = file.peek /\ file'.eof = file.eof
          /\ UNCHANGED <<kind, streams>>
      BY <1>2, <2>2, <3>1 DEF AssignFile, Slots
    <3> QED BY <3>2 DEF WorkInv, PeekIsRead, Writable
  <2>3. CASE CloseFile
    <3>1. file' = CloseSlots(file) /\ kind' = kind
      BY <2>3 DEF CloseFile
    <3>2. file'.h = 0 /\ file'.peek = file.peek
      BY <1>2, <3>1, ClosedFacts DEF CloseSlots, Slots
    <3>3. ~Writable(streams, file)'
      BY <3>2 DEF Writable
    <3> QED BY <3>1, <3>2, <3>3 DEF WorkInv, PeekIsRead
  <2>4. ASSUME NEW f \in WithPath(file), NEW h \in Handles, NEW forRead \in BOOLEAN,
               file' = Opened(CloseSlots(f), h, forRead), kind' = kind
        PROVE  PeekIsRead'
    <3>1. f \in Slots /\ f.h = file.h /\ f.rd = file.rd /\ f.peek = file.peek
      BY <1>2, WithPathFacts DEF WithPath, Slots
    <3>2. CloseSlots(f) \in Slots /\ CloseSlots(f).peek = file.peek
      BY <3>1, ClosedFacts DEF CloseSlots, Slots
    <3>3. CASE kind = "text"
      BY <1>3, <2>4, <3>2, <3>3, OpenedFacts
    <3>4. CASE kind = "typed"
      <4>1. file'.peek = CloseSlots(f).peek
        BY <2>4, <3>2, <3>4 DEF Opened, Slots
      <4>2. file'.peek = <<>>
        BY <3>2, <3>4, <4>1 DEF WorkInv, PeekIsRead
      <4> QED BY <1>3, <2>4, <3>4, <4>2
    <3> QED BY <1>2, <3>3, <3>4
  <2>5. CASE Reset
    <3>1. \E f \in WithPath(file), h \in Handles : file' = Opened(CloseSlots(f), h, TRUE)
      BY <2>5 DEF Reset
    <3>2. kind' = kind
      BY <2>5 DEF Reset
    <3> QED BY <2>4, <3>1, <3>2
  <2>6. CASE Rewrite
    <3>1. \E f \in WithPath(file), h \in Handles : file' = Opened(CloseSlots(f), h, FALSE)
      BY <2>6 DEF Rewrite
    <3>2. kind' = kind
      BY <2>6 DEF Rewrite
    <3> QED BY <2>4, <3>1, <3>2
  <2>7. CASE Restart
    BY <1>3, <2>7 DEF Restart, NoSlots
  <2> QED BY <1>4, <2>1, <2>2, <2>3, <2>5, <2>6, <2>7 DEF SlotStep
<1>5. CASE TextStep
  <2>1. kind = "text" /\ kind' = kind
    BY <1>5, TextStepKind
  <2>2. ASSUME NEW at, Fetch(at), file' = Filled \/ file' = Consumed(Filled)
        PROVE  PeekIsRead'
    <3> SUFFICES ASSUME Writable(streams, file)' PROVE FALSE
      BY <2>1 DEF PeekIsRead
    <3>1. Moved
      BY <2>2, FetchMoves
    <3>2. file.h = 0 \/ file.h \in Handles
      BY <1>2 DEF Slots
    <3>3. Writable(streams, file)
      BY <3>1, <3>2 DEF Moved, Writable
    <3>4. file.peek = <<>> /\ ~Readable(streams, file)
      BY <3>3 DEF WorkInv, PeekIsRead, Readable, Writable
    <3>5. file.eof # 0
      BY <2>2, <3>4 DEF Fetch, CanFill, NeedsByte
    <3> QED BY <2>1, <3>3, <3>5 DEF WorkInv, PeekIsRead
  <2>3. CASE ReadStep \/ TextEof \/ Eoln
    <3>1. \E at \in TextLabels \cup {"idle"} :
              Fetch(at) /\ (file' = Filled \/ file' = Consumed(Filled))
      BY <2>3 DEF ReadStep, ReadChar, StringEnds, TakeCharacter, WordGoesOn, SkipBlanks,
                  TakeNumber, SkipLine, TextEof, Eoln, AskText, TextLabels
    <3> QED BY <2>2, <3>1
  <2>4. CASE BeginRead
    BY <1>1, <2>4 DEF BeginRead
  <2>5. CASE WriteText
    BY <2>5 DEF WriteText, WorkInv, PeekIsRead, Writable
  <2> QED BY <1>5, <2>3, <2>4, <2>5 DEF TextStep
<1>6. CASE TypedStep
  <2>1. kind = "typed" /\ kind' = kind
    BY <1>6, TypedStepKind
  <2>2. file.peek = <<>>
    BY <2>1 DEF WorkInv, PeekIsRead
  <2>3. file' = file \/ file' = [file EXCEPT !.eof = 1]
    BY <1>6 DEF TypedStep, FieldStep, BeginWrite, BeginReadComponent, TypedEof, WritePiece,
                ReadIntByte, ReadCharByte, ReadRealAscii, FetchField, slotVars
  <2>4. file'.peek = <<>>
    BY <1>2, <2>2, <2>3 DEF Slots
  <2> QED BY <1>3, <2>1, <2>4
<1>7. CASE UNCHANGED vars
  BY <1>1, <1>7 DEF vars, slotVars
<1> QED
  BY <1>4, <1>5, <1>6, <1>7 DEF Next

LEMMA WorkKept == ASSUME FileInv, BufferAgrees, WorkInv, [Next]_vars PROVE WorkInv'
<1>1. PeekIsRead'
  BY PeekKept
<1> SUFFICES NumbersOK(job)' /\ PlaceOK(before)'
  BY <1>1 DEF WorkInv
<1>2. DOMAIN job = DOMAIN NoJob /\ NumbersOK(job) /\ PlaceOK(before)
  BY DEF FileInv, JobOK, WorkInv
<1>3. ASSUME UNCHANGED <<job, before>> PROVE NumbersOK(job)' /\ PlaceOK(before)'
  BY <1>2, <1>3 DEF NumbersOK, PlaceOK, Half, Full
<1>4. ASSUME job' = NoJob, before' = NoPlace PROVE NumbersOK(job)' /\ PlaceOK(before)'
  BY <1>4, NoJobTyped DEF NumbersOK, PlaceOK, Half, Full
<1>5. CASE SlotStep
  BY <1>3, <1>4, <1>5 DEF SlotStep, UseAnswer, AssignFile, CloseFile, Reset, Rewrite, Restart
<1>6. CASE TextStep
  <2>1. CASE BeginRead
    BY <2>1, BeginTyped DEF BeginRead
  <2> QED
    BY <1>3, <1>6, <2>1, ReadStepTyped DEF TextStep, TextEof, Eoln, AskText, WriteText
<1>7. CASE TypedStep
  <2>1. CASE BeginReadComponent
    BY <2>1, BeginTyped DEF BeginReadComponent
  <2>2. CASE BeginWrite
    <3>1. PICK v \in Values :
              job' = [NoJob EXCEPT !.at = "write", !.left = Component, !.got = v]
      BY <2>2 DEF BeginWrite
    <3>2. /\ job'.acc = NoJob.acc /\ job'.byte = NoJob.byte /\ job'.value = NoJob.value
          /\ job'.shift = NoJob.shift /\ before' = NoPlace
      BY <2>2, <3>1 DEF BeginWrite, NoJob
    <3> QED BY <3>2, NoJobTyped DEF NumbersOK, PlaceOK, Half, Full
  <2>3. CASE WritePiece
    <3> DEFINE j == IF job.out = <<>> THEN LoadField(job) ELSE job
    <3>1. (job' = NoJob \/ job' = [j EXCEPT !.out = Tail(@)]) /\ before' = before
      BY <2>3 DEF WritePiece
    <3>2. /\ DOMAIN j = DOMAIN NoJob /\ j.acc = job.acc /\ j.byte = job.byte
          /\ j.value = job.value /\ j.shift = job.shift
      BY <1>2 DEF LoadField, NoJob
    <3> HIDE DEF j
    <3>3. LET k == [j EXCEPT !.out = Tail(@)]
          IN  /\ k.acc = job.acc /\ k.byte = job.byte
              /\ k.value = job.value /\ k.shift = job.shift
      BY <3>2 DEF NoJob
    <3> QED BY <1>2, <3>1, <3>3, NoJobTyped DEF NumbersOK, PlaceOK, Half, Full
  <2> QED
    BY <1>3, <1>7, <2>1, <2>2, <2>3, FieldStepTyped DEF TypedStep, FieldStep, TypedEof
<1>8. CASE UNCHANGED vars
  BY <1>3, <1>8 DEF vars
<1> QED
  BY <1>5, <1>6, <1>7, <1>8 DEF Next

(* The state of a file variable and of the statement on it is type-correct: *)
(* the sum of an integer stays in the machine's range whatever bytes the    *)
(* file has, no byte is counted past the fourth, and the character read     *)
(* ahead (lowerTextFillPeek) has been taken from before the place the host  *)
(* is at.                                                                   *)
THEOREM FileTypes == Spec => []TypeOK
<1>1. Init => WorkInv
  <2> SUFFICES ASSUME Init PROVE WorkInv
    OBVIOUS
  <2>1. job = NoJob /\ before = NoPlace /\ file.peek = <<>> /\ file.h = 0
    BY DEF Init, NoSlots
  <2> QED BY <2>1, NoJobTyped DEF WorkInv, PeekIsRead, Writable
<1>2. FileInv /\ WorkInv => TypeOK
  BY DEF FileInv, JobOK, WorkInv, NumbersOK, PlaceOK, TypeOK
<1> QED
  BY <1>1, <1>2, WorkKept, FilesInvariant, BufferFollowsTheFile, PTL DEF Spec

---------------------------------------------------------------------------
(* What is written is what is read.                                         *)

(* lowerByteMod256 and lowerFloorDiv256 make a division that rounds down.   *)
LEMMA DivisionRoundsDown ==
    ASSUME Radix = 256, NEW n \in Int
    PROVE  /\ ByteMod256(n) \in 0..255
           /\ FloorDiv256(n) \in Int
           /\ n = 256 * FloorDiv256(n) + ByteMod256(n)
  BY SMT DEF ByteMod256, FloorDiv256, TruncMod, TruncDiv

(* The four bytes of an integer, read with the multipliers MultiplierDefined  *)
(* says they have.                                                            *)
ReadBack(pieces) ==
    LET v1 == AddByte(0, pieces[1][1], Weight[1])
        v2 == AddByte(v1, pieces[2][1], Weight[2])
        v3 == AddByte(v2, pieces[3][1], Weight[3])
    IN  AddByte(v3, pieces[4][1], Weight[4])

(* With bytes of eight bits, every 32-bit integer that is written           *)
(* (lowerWriteI32LE) and read again (lowerReadI32LE) is the same integer,   *)
(* although the machine divides towards zero and wraps.                     *)
THEOREM IntegersRoundTrip ==
    ASSUME Radix = 256, NEW n \in Int, 0 =< n + Half, n < Half
    PROVE  ReadBack(IntPieces(n)) = n
<1> DEFINE b0 == ByteMod256(n)
           n1 == FloorDiv256(n)
           b1 == ByteMod256(n1)
           n2 == FloorDiv256(n1)
           b2 == ByteMod256(n2)
           n3 == FloorDiv256(n2)
           b3 == ByteMod256(n3)
           n4 == FloorDiv256(n3)
<1>1. b0 \in 0..255 /\ n1 \in Int /\ n = 256 * n1 + b0
  BY SMT, DivisionRoundsDown
<1>2. b1 \in 0..255 /\ n2 \in Int /\ n1 = 256 * n2 + b1
  BY SMT, <1>1, DivisionRoundsDown
<1>3. b2 \in 0..255 /\ n3 \in Int /\ n2 = 256 * n3 + b2
  BY SMT, <1>2, DivisionRoundsDown
<1>4. b3 \in 0..255 /\ n4 \in Int /\ n3 = 256 * n4 + b3
  BY SMT, <1>3, DivisionRoundsDown
<1>5. IntPieces(n) = <<<<b0>>, <<b1>>, <<b2>>, <<b3>>>>
  BY SMT DEF IntPieces
<1> HIDE DEF b0, b1, b2, b3, n1, n2, n3, n4
<1>6. Full = 256 * 256 * 256 * 256 /\ Half = 128 * 256 * 256 * 256
  BY SMT DEF Full, Half
<1>7. \A x \in Int : 0 =< x + Half /\ x < Half => Wrapped(x) = x
  BY SMT, <1>6 DEF Wrapped
<1>8. Weight[1] = 1 /\ Weight[2] = 256 /\ Weight[3] = 256 * 256 /\ Weight[4] = 256 * 256 * 256
  BY SMT DEF Weight
<1>9. AddByte(0, b0, Weight[1]) = b0
  BY SMT, <1>1, <1>6, <1>7, <1>8 DEF AddByte
<1>10. AddByte(b0, b1, Weight[2]) = b0 + 256 * b1
  BY SMT, <1>1, <1>2, <1>6, <1>7, <1>8 DEF AddByte
<1>11. AddByte(b0 + 256 * b1, b2, Weight[3]) = b0 + 256 * b1 + 65536 * b2
  BY SMT, <1>1, <1>2, <1>3, <1>6, <1>7, <1>8 DEF AddByte
<1>12. n4 \in {-1, 0} /\ (n4 = -1 <=> b3 >= 128)
  BY SMT, <1>1, <1>2, <1>3, <1>4, <1>6
<1>13. Wrapped((256 * 65536) * b3) =
           IF b3 >= 128 THEN (256 * 65536) * b3 - (65536 * 65536) ELSE (256 * 65536) * b3
  BY SMT, <1>4, <1>6 DEF Wrapped
<1>14. b0 + 256 * b1 + 65536 * b2 + Wrapped((256 * 65536) * b3) = n
  BY SMT, <1>1, <1>2, <1>3, <1>4, <1>12, <1>13
<1>15. AddByte(b0 + 256 * b1 + 65536 * b2, b3, Weight[4]) = n
  BY SMT, <1>7, <1>8, <1>14, <1>4 DEF AddByte
<1> QED
  BY SMT, <1>5, <1>9, <1>10, <1>11, <1>15 DEF ReadBack
================================================================================
