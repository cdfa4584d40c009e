------------------------------- MODULE TypedIO --------------------------------
(* The code generated for statements on a typed file: a component is written  *)
(* and read field by field, an integer byte by byte, a real as characters in  *)
(* a field of fixed width. A step is one call of the host.                    *)
EXTENDS FileSlots

CONSTANTS Component,   \* the sorts of the fields: integer, char or real
          FieldWidth,  \* the width of a real: 24
          Values       \* the components a program writes

FieldSorts == {"integer", "char", "real"}
FieldValues(sort) ==
    CASE sort = "integer" -> [1..1 -> Int]
      [] sort = "char" -> [1..1 -> Byte]
      [] sort = "real" -> Seq(Byte)
ASSUME TypedAssumption ==
    /\ Component \in Seq(FieldSorts) /\ Component # <<>>
    /\ FieldWidth \in Nat \ {0}
    /\ \A v \in Values :
         /\ v \in Seq(Seq(Int))
         /\ Len(v) = Len(Component)
         /\ \A k \in 1..Len(v) : v[k] \in FieldValues(Component[k])

---------------------------------------------------------------------------
(* The VM's integers: division cuts towards zero, sums wrap at 32 bits (four  *)
(* bytes here).                                                               *)

Full == Radix * Radix * Radix * Radix
Half == Full \div 2
Wrapped(n) == ((n + Half) % Full) - Half
TruncDiv(n, m) == IF n >= 0 THEN n \div m ELSE -((-n) \div m)
TruncMod(n, m) == IF n >= 0 THEN n % m ELSE -((-n) % m)

(* lowerByteMod256 and lowerFloorDiv256: the remainder and the quotient of a  *)
(* division that rounds down, made from one that cuts.                        *)
ByteMod256(n) ==
    LET rem == TruncMod(n, Radix) IN IF rem < 0 THEN rem + Radix ELSE rem
(* Mutant of FloorDiv256: negative numbers are cut towards zero.              *)
CutDiv256(n) == TruncDiv(n, Radix)
FloorDiv256(n) ==
    LET q == TruncDiv(n, Radix)
    IN  IF n < 0 /\ TruncMod(n, Radix) # 0 THEN q - 1 ELSE q

---------------------------------------------------------------------------
(* Writing: the pieces handed to the host, one call each.                     *)

(* lowerWriteI32LE, the loop over four bytes unrolled.                        *)
IntPieces(n) ==
    LET n1 == FloorDiv256(n)
        n2 == FloorDiv256(n1)
        n3 == FloorDiv256(n2)
    IN  <<<<ByteMod256(n)>>, <<ByteMod256(n1)>>, <<ByteMod256(n2)>>, <<ByteMod256(n3)>>>>
(* lowerWriteRealAscii: blanks up to the width; a longer text stays as it is. *)
Padded(text) == text \o [k \in 1..FieldWidth - Len(text) |-> Space]
(* lowerWriteScalarComponent *)
FieldPieces(sort, v) ==
    CASE sort = "integer" -> IntPieces(v[1])
      [] sort = "char" -> <<<<ByteMod256(v[1])>>>>
      [] sort = "real" -> <<Padded(v)>>
(* How many bytes the fields before one take.                                 *)
Width(sort) == CASE sort = "integer" -> 4 [] sort = "char" -> 1 [] sort = "real" -> FieldWidth
Offset[k \in 0..Len(Component)] ==
    IF k = 0 THEN 0 ELSE Offset[k - 1] + Width(Component[k])
Size == Offset[Len(Component)]

BeginWrite ==
    /\ Idle /\ kind = "typed" /\ Writable(streams, file)
    /\ Room(Size)
    /\ \E v \in Values :
           job' = [NoJob EXCEPT !.at = "write", !.left = Component, !.got = v]
    /\ before' = NoPlace
    /\ UNCHANGED <<slotVars, answer>>
(* lowerWriteRecordComponent: the fields in the order of their declaration,   *)
(* each loaded when the one before has been written.                          *)
LoadField(j) ==
    [j EXCEPT !.out = FieldPieces(Head(j.left), Head(j.got)),
              !.left = Tail(@), !.got = Tail(@)]
WritePiece ==
    /\ job.at = "write" /\ Writable(streams, file)
    /\ LET j == IF job.out = <<>> THEN LoadField(job) ELSE job
           rest == [j EXCEPT !.out = Tail(@)]
       IN  /\ disk' = Extended(disk, streams, file, Head(j.out))
           /\ job' = IF rest.out = <<>> /\ rest.left = <<>> THEN NoJob ELSE rest
    /\ UNCHANGED <<kind, streams, file, before, answer>>

---------------------------------------------------------------------------
(* Reading.                                                                   *)

LabelOfField == [integer |-> "ri32", char |-> "rch", real |-> "rr"]
FieldLabel(left) == IF left = <<>> THEN "idle" ELSE LabelOfField[Head(left)]
(* Mutant of FieldRead: the multiplier is that of the integer before.         *)
FieldReadOnly(j, v) ==
    [j EXCEPT !.got = Append(@, v), !.left = Tail(@), !.at = FieldLabel(Tail(j.left)),
              !.byte = 0, !.value = 0]
(* Mutant of FieldRead: the bytes are counted on.                             *)
FieldReadOn(j, v) ==
    [j EXCEPT !.got = Append(@, v), !.left = Tail(@), !.at = FieldLabel(Tail(j.left)),
              !.value = 0, !.shift = 1]
(* The field is stored; the next begins with a sum and a multiplier of its own*)
FieldRead(j, v) ==
    [j EXCEPT !.got = Append(@, v), !.left = Tail(@), !.at = FieldLabel(Tail(j.left)),
              !.byte = 0, !.value = 0, !.shift = 1]
Unset == 0
Found(n) == Chunk(streams, file, n)
FetchField(at, n) ==
    /\ job.at = at /\ Readable(streams, file)
    /\ streams' = Advanced(streams, file, n)
    /\ file' = IF Found(n) = <<>> THEN [file EXCEPT !.eof = 1] ELSE file
    /\ UNCHANGED <<kind, disk>>

BeginReadComponent ==
    /\ Idle /\ kind = "typed" /\ Readable(streams, file)
    /\ Begin(FieldLabel(Component), Component, FALSE)
    /\ UNCHANGED <<slotVars, answer>>
(* lowerReadI32LE: a byte that is there is added at its place; the multiplier *)
(* of the next is computed on that path only.                                 *)
AddByte(value, byte, shift) == Wrapped(value + Wrapped(byte * shift))
AfterByte(j, chunk) ==
    IF chunk = <<>> THEN [j EXCEPT !.byte = @ + 1, !.shift = Unset]
    ELSE [j EXCEPT !.byte = @ + 1, !.value = AddByte(@, chunk[1], j.shift),
                   !.shift = @ * Radix]
ReadIntByte ==
    /\ FetchField("ri32", 1)
    /\ LET next == AfterByte(job, Found(1))
       IN  Continue(IF next.byte < 4 THEN next ELSE FieldRead(next, <<next.value>>))
(* lowerReadCharByte *)
ReadCharByte ==
    /\ FetchField("rch", 1)
    /\ Continue(FieldRead(job, IF Found(1) = <<>> THEN <<0>> ELSE Found(1)))
(* lowerReadRealAscii: coerce.flt takes the text without the blanks behind it.*)
Unpadded(text) ==
    SubSeq(text, 1, CHOOSE n \in 0..Len(text) :
                        /\ n = 0 \/ text[n] # Space
                        /\ \A k \in n + 1..Len(text) : text[k] = Space)
ReadRealAscii ==
    /\ FetchField("rr", FieldWidth)
    /\ Continue(FieldRead(job, Unpadded(Found(FieldWidth))))

(* lowerEofExpr of a typed file: only the flag.                               *)
TypedEof ==
    /\ Idle /\ kind = "typed"
    /\ answer' = Answer("eof", Truth(file.eof))
    /\ UNCHANGED <<slotVars, job, before>>

FieldStep == WritePiece \/ ReadIntByte \/ ReadCharByte \/ ReadRealAscii
TypedStep == BeginWrite \/ BeginReadComponent \/ FieldStep \/ TypedEof

---------------------------------------------------------------------------
(* While there is another byte of an integer to read, the multiplier has been *)
(* computed for it: the path on which it is not is never followed by one that *)
(* uses it.                                                                   *)
Weight == <<1, Radix, Radix * Radix, Radix * Radix * Radix>>
MultiplierDefined ==
    job.at = "ri32" /\ Readable(streams, file) /\ ~AtEnd(streams, file) =>
        job.shift = Weight[job.byte + 1]
================================================================================
