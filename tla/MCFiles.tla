-------------------------------- MODULE MCFiles --------------------------------
(* Small files: bytes of two bits, of which one ends a line and one is blank. *)
EXTENDS FilesAreSequential

MCRequests == {<<>>, <<"char">>, <<"string">>, <<"number">>, <<"string", "number">>,
               <<"number", "char">>}
MCTexts == {<<>>, <<3>>}
MCComponent == <<"integer", "char", "integer", "real">>
MCValues == {<<<<-128>>, <<2>>, <<5>>, <<3>>>>, <<<<127>>, <<0>>, <<-65>>, <<0, 3>>>>}
MCMaxLength == [text |-> 3, typed |-> 22]
(* One file that holds something, and one that does not exist.                *)
Holding(bytes) == [p \in Paths |-> IF p = "one" THEN bytes ELSE Missing]
MCInitialDisks ==
    [text |-> {Holding(bytes) : bytes \in UNION {[1..n -> 1..3] : n \in 0..3}},
     typed |-> {Holding(Missing), Holding(<<1, 2>>), Holding(<<0, 0, 0, 2, 3, 1, 2, 0, 0, 3>>)}]
================================================================================
