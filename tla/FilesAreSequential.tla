-------------------------- MODULE FilesAreSequential --------------------------
(* What the slots, the handles and the loops of the generated code add up to  *)
(* is the sequential file of PascalFile.                                      *)
EXTENDS Files

(* What is left to the VM: an integer has 32 bits, the text of a real has no  *)
(* blanks in it and fits its field (lowerWriteRealAscii writes a longer one   *)
(* as it is).                                                                 *)
ASSUME ValuesAssumption ==
    \A v \in Values, k \in DOMAIN Component :
        /\ Component[k] = "integer" => v[k][1] \in -Half..Half - 1
        /\ Component[k] = "real" =>
             Len(v[k]) =< FieldWidth /\ \A j \in DOMAIN v[k] : v[k][j] # Space
ASSUME MissingAssumption == Missing \notin Seq(Seq(Seq(Int)))

(* The sequential file the slots stand for.                                   *)

SignedLE(b) ==
    LET sum == b[1] + Radix * (b[2] + Radix * (b[3] + Radix * b[4]))
    IN  IF sum >= Half THEN sum - Full ELSE sum
Field(sort, bytes) ==
    CASE sort = "integer" -> <<SignedLE(bytes)>>
      [] sort = "char" -> bytes
      [] sort = "real" -> Unpadded(bytes)
(* The whole components among the bytes of a file.                            *)
Components(bytes) ==
    [c \in 1..Len(bytes) \div Size |->
        [k \in DOMAIN Component |->
            Field(Component[k], SubSeq(bytes, (c - 1) * Size + Offset[k - 1] + 1,
                                              (c - 1) * Size + Offset[k]))]]
Elements(bytes) ==
    IF bytes = Missing THEN Missing ELSE IF kind = "text" THEN bytes ELSE Components(bytes)
Data(k) ==
    IF k = "text"
    THEN {a \o b \o c : a, b \in Texts, c \in {<<>>, <<Newline>>}}
    ELSE {<<v>> : v \in Values}
(* The statement in progress has not happened yet.                            *)
Place == IF ~Busy THEN [pos |-> Here, eof |-> file.eof] ELSE before

Contents == [p \in Paths |-> Elements(disk[p])]
CutFiles == {p \in Paths : kind = "typed" /\ disk[p] # Missing /\ Len(disk[p]) % Size # 0}
OpenOn ==
    IF file.h = 0 THEN [path |-> NoPath, mode |-> "closed"]
    ELSE [path |-> streams[file.h].path, mode |-> streams[file.h].mode]
ElementsRead == IF kind = "text" THEN Place.pos ELSE Place.pos \div Size
NoneLeft == kind = "typed" /\ Place.eof = 1

Sequential == INSTANCE PascalFile WITH
    contents <- Contents, cut <- CutFiles, name <- file.path, open <- OpenOn,
    at <- ElementsRead, missed <- NoneLeft
(* A file variable behaves as a sequential file: texts are read as the lines, *)
(* words and numbers they consist of, eof and eoln answer for the place       *)
(* reached, and components are read back as they were written.                *)
ImplementsSequentialFile == Sequential!Spec
================================================================================
