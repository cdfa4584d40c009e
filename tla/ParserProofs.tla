----------------------------- MODULE ParserProofs -----------------------------
(***************************************************************************)
(* What holds of the parser on every stream of tokens, of any length and   *)
(* with any errors: what its calls have left to do is always something a   *)
(* parse function does, the cursor stays in the stream, and every step     *)
(* outside the loop over the fields of a record comes nearer to the        *)
(* consumption of a token.                                                 *)
(***************************************************************************)
EXTENDS Parser, LoopLemmas, SequenceTheorems, TLAPS

(* The names.                                                               *)
LEMMA Names ==
    /\ "program" \in Items /\ "id" \in Items /\ "num" \in Items /\ ";" \in Items
    /\ "." \in Items /\ ":" \in Items /\ "," \in Items /\ "=" \in Items
    /\ ":=" \in Items /\ "(" \in Items /\ ")" \in Items /\ "[" \in Items
    /\ "]" \in Items /\ ".." \in Items /\ "begin" \in Items /\ "end" \in Items
    /\ "of" \in Items /\ "then" \in Items /\ "do" \in Items /\ "to" \in Items
    /\ "until" \in Items /\ "procedure" \in Items /\ "eof" \in Items
    /\ "Literal" \in Items /\ "Identifier" \in Items /\ "Call" \in Items
    /\ "Group" \in Items /\ "Index" \in Items /\ "Select" \in Items /\ "Not" \in Items
    /\ "UnaryPlus" \in Items /\ "Star" \in Items /\ "Plus" \in Items
    /\ "Equal" \in Items /\ "Expression" \in Items /\ "Relation" \in Items
    /\ "SimpleExpression" \in Items /\ "MoreTerms" \in Items /\ "Term" \in Items
    /\ "MoreFactors" \in Items /\ "Factor" \in Items /\ "CallOrIdentifier" \in Items
    /\ "Indexes" \in Items /\ "Selects" \in Items /\ "FieldName" \in Items
    /\ "ArgList" \in Items /\ "MoreArgs" \in Items /\ "IdentList" \in Items
    /\ "MoreIdents" \in Items /\ "TypeDenoter" \in Items /\ "FileOf" \in Items
    /\ "Fields" \in Items /\ "ConstSection" \in Items /\ "ConstDecls" \in Items
    /\ "ConstRecovery" \in Items /\ "TypeSection" \in Items /\ "TypeDecls" \in Items
    /\ "VarSection" \in Items /\ "VarDecls" \in Items /\ "ParamList" \in Items
    /\ "Params" \in Items /\ "Param" \in Items /\ "MoreParams" \in Items
    /\ "Subprograms" \in Items /\ "Subprogram" \in Items /\ "Block" \in Items
    /\ "Program" \in Items /\ "CompoundStmt" \in Items /\ "Statements" \in Items
    /\ "MoreStatements" \in Items /\ "NextStatement" \in Items /\ "Statement" \in Items
    /\ "ElsePart" \in Items /\ "Direction" \in Items /\ "RepeatBody" \in Items
    /\ "MoreRepeated" \in Items /\ "NextRepeated" \in Items /\ "CaseArms" \in Items
    /\ "CaseArm" \in Items /\ "CaseLabel" \in Items /\ "UpperLabel" \in Items
    /\ "MoreLabels" \in Items /\ "MoreArms" \in Items /\ "NextArm" \in Items
    /\ "CaseElse" \in Items /\ "AfterName" \in Items /\ "TargetField" \in Items
    /\ "TargetIndex" \in Items /\ "Target" \in Items /\ "AssignRecovery" \in Items
  BY DEF Items, Kinds, Nodes, ParseFunctions

(* Lists of them.                                                           *)
LEMMA OneItem == ASSUME NEW a \in Items PROVE <<a>> \in Seq(Items)
  OBVIOUS

LEMMA FourItems ==
    ASSUME NEW a \in Items, NEW b \in Items, NEW c \in Items,
           NEW d \in Items
    PROVE  <<a, b, c, d>> \in Seq(Items)
  OBVIOUS

LEMMA FiveItems ==
    ASSUME NEW a \in Items, NEW b \in Items, NEW c \in Items,
           NEW d \in Items, NEW e \in Items
    PROVE  <<a, b, c, d, e>> \in Seq(Items)
  OBVIOUS

LEMMA SixItems ==
    ASSUME NEW a \in Items, NEW b \in Items, NEW c \in Items,
           NEW d \in Items, NEW e \in Items, NEW f \in Items
    PROVE  <<a, b, c, d, e, f>> \in Seq(Items)
  OBVIOUS

LEMMA SevenItems ==
    ASSUME NEW a \in Items, NEW b \in Items, NEW c \in Items,
           NEW d \in Items, NEW e \in Items, NEW f \in Items, NEW g \in Items
    PROVE  <<a, b, c, d, e, f, g>> \in Seq(Items)
  OBVIOUS

(* The stack, and what a step leaves of it.                                 *)
LEMMA Replaced ==
    ASSUME work \in Seq(Items), work # <<>>, NEW items \in Seq(Items)
    PROVE  /\ Head(work) \in Items /\ Tail(work) \in Seq(Items)
           /\ items \o Tail(work) \in Seq(Items)
  BY HeadTailProperties, ConcatProperties

LEMMA Nothing == <<>> \in Seq(Items)
  BY EmptySeq

---------------------------------------------------------------------------
(* The cursor.                                                              *)

LEMMA AtEof ==
    ASSUME TypeOK
    PROVE  /\ Len(stream) \in Nat /\ index \in 1..Len(stream) /\ Current \in STRING
           /\ Current = "eof" <=> index = Len(stream)
  BY LenProperties DEF TypeOK, Current

LEMMA AdvancedStays ==
    ASSUME TypeOK
    PROVE  /\ Advanced \in DOMAIN stream
           /\ Current # "eof" => Advanced = index + 1
           /\ Advanced >= index
<1> DEFINE n == Len(stream)
<1>1. /\ n \in Nat /\ index \in 1..n /\ DOMAIN stream = 1..n
      /\ Current = "eof" <=> index = n
  BY AtEof, LenProperties DEF TypeOK
<1>2. Advanced = IF index < n THEN index + 1 ELSE index
  BY DEF Advanced
<1> HIDE DEF n
<1> QED
  BY <1>1, <1>2

(* syncStatement and syncDeclaration come to a token they stop at, at the   *)
(* latest to the end of the stream.                                         *)
LEMMA SkipToStops ==
    ASSUME TypeOK, NEW kinds
    PROVE  /\ SkipTo(kinds) \in DOMAIN stream /\ SkipTo(kinds) >= index
           /\ Current \notin kinds \cup {"eof"} => SkipTo(kinds) > index
<1> DEFINE n == Len(stream)
           Stops(k) == stream[k] \in kinds \cup {"eof"}
           S == {k \in index..n : Stops(k)}
           First(k) == /\ stream[k] \in kinds \cup {"eof"}
                       /\ \A j \in index..k - 1 : stream[j] \notin kinds
<1>1. n \in Nat /\ index \in 1..n /\ DOMAIN stream = 1..n /\ stream[n] = "eof"
  BY AtEof, LenProperties DEF TypeOK
<1>2. \E k \in index..n : First(k)
  <2>1. S \in SUBSET Nat /\ n \in S
    <3>1. n \in index..n /\ Stops(n)
      BY <1>1
    <3>2. index..n \subseteq Nat
      BY <1>1
    <3> HIDE DEF Stops, n
    <3> QED BY <3>1, <3>2
  <2> HIDE DEF S
  <2>2. PICK k \in S : \A j \in S : k <= j
    BY <2>1, LeastExists
  <2> USE DEF S
  <2>3. k \in index..n /\ Stops(k)
    BY <2>2
  <2>4. \A j \in index..k - 1 : ~Stops(j)
    <3> SUFFICES ASSUME NEW j \in index..k - 1, Stops(j) PROVE FALSE
      OBVIOUS
    <3>1. k \in Int /\ j \in Int /\ index \in Int /\ n \in Int /\ k <= n /\ j < k /\ index <= j
      <4> HIDE DEF Stops, n
      <4> QED BY <1>1, <2>3
    <3>2. j \in index..n
      <4> HIDE DEF Stops, n
      <4> QED BY <3>1
    <3>3. k <= j
      BY <2>2, <3>2
    <3> HIDE DEF Stops, n, S
    <3> QED BY <3>1, <3>3
  <2> QED BY <2>3, <2>4
<1>3. SkipTo(kinds) \in index..n /\ First(SkipTo(kinds))
  BY <1>2 DEF SkipTo
<1>4. SkipTo(kinds) = index => Current \in kinds \cup {"eof"}
  BY <1>3 DEF Current
<1> HIDE DEF First
<1> QED
  BY <1>1, <1>3, <1>4

---------------------------------------------------------------------------
(* The forms of a step.                                                     *)

LEMMA LeaveKeeps ==
    ASSUME TypeOK, work # <<>>, NEW items \in Seq(Items), Leave(items),
           index' \in DOMAIN stream, parsed' \in BOOLEAN, nodes' \in Seq(Nodes),
           firstError' = firstError \/ Complaint
    PROVE  TypeOK'
<1>1. stream' = stream /\ work' \in Seq(Items)
  BY Replaced DEF Leave, TypeOK
<1>2. firstError' \in 0..Len(stream)
  <2>1. index \in 0..Len(stream) /\ firstError \in 0..Len(stream)
    BY AtEof DEF TypeOK
  <2> QED BY <2>1 DEF Complaint
<1> QED
  BY <1>1, <1>2 DEF TypeOK

LEMMA FormsKeep ==
    ASSUME TypeOK, work # <<>>, NEW items \in Seq(Items)
    PROVE  /\ Take(items) => TypeOK'
           /\ Continue(items) => TypeOK'
           /\ Complain(items) => TypeOK'
<1>1. index \in DOMAIN stream /\ parsed \in BOOLEAN /\ nodes \in Seq(Nodes)
  BY DEF TypeOK
<1> QED
  BY <1>1, LeaveKeeps, AdvancedStays DEF Take, Continue, Complain, Quietly

LEMMA SkipsKeep ==
    ASSUME TypeOK, work # <<>>, NEW kinds
    PROVE  /\ ComplainAndSkip(kinds) => TypeOK'
           /\ Skip(kinds) => TypeOK'
<1>1. index \in DOMAIN stream /\ parsed \in BOOLEAN /\ nodes \in Seq(Nodes)
  BY DEF TypeOK
<1> QED
  BY <1>1, LeaveKeeps, SkipToStops, Nothing DEF ComplainAndSkip, Skip, Quietly

LEMMA ChoicesKeep ==
    ASSUME TypeOK, work # <<>>, NEW kinds, NEW items \in Seq(Items), NEW others \in Seq(Items)
    PROVE  /\ TakeIf(kinds, items, others) => TypeOK'
           /\ StopIf(kinds, items, others) => TypeOK'
  BY FormsKeep DEF TakeIf, StopIf

LEMMA ExpressionsKeep == ASSUME TypeOK, Expressions PROVE TypeOK'
<1> USE Nothing DEF At
<1>1. CASE BuildNode
  <2>1. nodes' = Append(nodes, Head(work)) /\ Head(work) \in Nodes /\ work # <<>>
        /\ parsed' = TRUE /\ Leave(<<>>) /\ UNCHANGED <<index, firstError>>
    BY <1>1 DEF BuildNode
  <2>2. nodes' \in Seq(Nodes)
    BY <2>1, AppendProperties DEF TypeOK
  <2> QED BY <2>1, <2>2, LeaveKeeps DEF TypeOK
<1>2. CASE ParseExpression
  <2>1. "SimpleExpression" \in Items /\ "Relation" \in Items
    BY Names
  <2>2. <<"SimpleExpression", "Relation">> \in Seq(Items)
    BY <2>1
  <2> QED BY <1>2, <2>2, FormsKeep DEF ParseExpression
<1>3. CASE ParseRelation
  <2>1. "SimpleExpression" \in Items /\ "Equal" \in Items
    BY Names
  <2>2. <<"SimpleExpression", "Equal">> \in Seq(Items)
    BY <2>1
  <2> QED BY <1>3, <2>2, FormsKeep, ChoicesKeep DEF ParseRelation
<1>4. CASE ParseSimpleExpression
  <2>1. "Term" \in Items /\ "MoreTerms" \in Items
    BY Names
  <2>2. <<"Term", "MoreTerms">> \in Seq(Items)
    BY <2>1
  <2> QED BY <1>4, <2>2, FormsKeep DEF ParseSimpleExpression
<1>5. CASE ParseMoreTerms
  <2>1. "Term" \in Items /\ "Plus" \in Items /\ "MoreTerms" \in Items
    BY Names
  <2>2. <<"Term", "Plus", "MoreTerms">> \in Seq(Items)
    BY <2>1
  <2> QED BY <1>5, <2>2, FormsKeep, ChoicesKeep DEF ParseMoreTerms
<1>6. CASE ParseTerm
  <2>1. "Factor" \in Items /\ "MoreFactors" \in Items
    BY Names
  <2>2. <<"Factor", "MoreFactors">> \in Seq(Items)
    BY <2>1
  <2> QED BY <1>6, <2>2, FormsKeep DEF ParseTerm
<1>7. CASE ParseMoreFactors
  <2>1. "Factor" \in Items /\ "Star" \in Items /\ "MoreFactors" \in Items
    BY Names
  <2>2. <<"Factor", "Star", "MoreFactors">> \in Seq(Items)
    BY <2>1
  <2> QED BY <1>7, <2>2, FormsKeep, ChoicesKeep DEF ParseMoreFactors
<1>8. CASE ParseFactor
  <2>1. CASE Leave(<<>>) /\ Complaint /\ parsed' = FALSE /\ UNCHANGED <<index, nodes>>
    BY <1>8, <2>1, LeaveKeeps DEF ParseFactor, TypeOK
  <2>2. "Factor" \in Items /\ "Not" \in Items /\ "UnaryPlus" \in Items
        /\ "Expression" \in Items /\ ")" \in Items /\ "Group" \in Items
        /\ "Indexes" \in Items /\ "Literal" \in Items /\ "CallOrIdentifier" \in Items
    BY Names
  <2>3. <<"Factor", "Not">> \in Seq(Items) /\ <<"Factor", "UnaryPlus">> \in Seq(Items)
        /\ <<"Literal", "Indexes">> \in Seq(Items)
        /\ <<"CallOrIdentifier", "Indexes">> \in Seq(Items)
    BY <2>2
  <2>4. <<"Expression", ")", "Group", "Indexes">> \in Seq(Items)
    BY <2>2, FourItems
  <2> QED BY <1>8, <2>1, <2>3, <2>4, FormsKeep DEF ParseFactor
<1>9. CASE ParseCallOrIdentifier
  <2>1. "ArgList" \in Items /\ ")" \in Items /\ "Call" \in Items
        /\ "Identifier" \in Items
    BY Names
  <2>2. <<"ArgList", ")", "Call">> \in Seq(Items) /\ <<"Identifier">> \in Seq(Items)
    BY <2>1
  <2> QED BY <1>9, <2>2, ChoicesKeep DEF ParseCallOrIdentifier
<1>10. CASE ParseIndexes
  <2>1. "Expression" \in Items /\ "]" \in Items /\ "Index" \in Items
        /\ "Indexes" \in Items /\ "Selects" \in Items
    BY Names
  <2>2. <<"Selects">> \in Seq(Items)
    BY <2>1
  <2>3. <<"Expression", "]", "Index", "Indexes">> \in Seq(Items)
    BY <2>1, FourItems
  <2> QED BY <1>10, <2>2, <2>3, ChoicesKeep DEF ParseIndexes
<1>11. CASE ParseSelects
  <2>1. "FieldName" \in Items
    BY Names
  <2>2. <<"FieldName">> \in Seq(Items)
    BY <2>1
  <2> QED BY <1>11, <2>2, ChoicesKeep DEF ParseSelects
<1>12. CASE ParseFieldName
  <2>1. "Select" \in Items /\ "Selects" \in Items
    BY Names
  <2>2. <<"Select", "Selects">> \in Seq(Items)
    BY <2>1
  <2> QED BY <1>12, <2>2, FormsKeep DEF ParseFieldName
<1>13. CASE ParseArgList
  <2>1. "Expression" \in Items /\ "MoreArgs" \in Items
    BY Names
  <2>2. <<"Expression", "MoreArgs">> \in Seq(Items)
    BY <2>1
  <2> QED BY <1>13, <2>2, ChoicesKeep DEF ParseArgList
<1>14. CASE ParseMoreArgs
  <2>1. "Expression" \in Items /\ "MoreArgs" \in Items
    BY Names
  <2>2. <<"Expression", "MoreArgs">> \in Seq(Items)
    BY <2>1
  <2> QED BY <1>14, <2>2, SkipsKeep, ChoicesKeep DEF ParseMoreArgs
<1> QED
  BY <1>1, <1>2, <1>3, <1>4, <1>5, <1>6, <1>7, <1>8, <1>9, <1>10, <1>11, <1>12, 
     <1>13, <1>14 DEF Expressions

LEMMA DeclarationsKeep == ASSUME TypeOK, Declarations PROVE TypeOK'
<1> USE Nothing DEF At
<1>1. CASE ParseIdentList
  <2>1. "MoreIdents" \in Items
    BY Names
  <2>2. <<"MoreIdents">> \in Seq(Items)
    BY <2>1
  <2> QED BY <1>1, <2>2, FormsKeep DEF ParseIdentList
<1>2. CASE ParseMoreIdents
  <2>1. "IdentList" \in Items
    BY Names
  <2>2. <<"IdentList">> \in Seq(Items)
    BY <2>1
  <2> QED BY <1>2, <2>2, ChoicesKeep DEF ParseMoreIdents
<1>3. CASE ParseTypeDenoter
  <2>1. "FileOf" \in Items /\ "[" \in Items /\ "Expression" \in Items /\ ".." \in Items
        /\ "]" \in Items /\ "of" \in Items /\ "TypeDenoter" \in Items
        /\ "Fields" \in Items
    BY Names
  <2>2. <<"FileOf">> \in Seq(Items)
    BY <2>1
  <2>4. <<"Fields">> \in Seq(Items)
    BY <2>1
  <2>3. <<"[", "Expression", "..", "Expression", "]", "of", "TypeDenoter">> \in Seq(Items)
    BY <2>1, SevenItems
  <2> QED BY <1>3, <2>2, <2>3, <2>4, FormsKeep, SkipsKeep DEF ParseTypeDenoter
<1>4. CASE ParseFileOf
  <2>1. "TypeDenoter" \in Items
    BY Names
  <2>2. <<"TypeDenoter">> \in Seq(Items)
    BY <2>1
  <2> QED BY <1>4, <2>2, FormsKeep, SkipsKeep DEF ParseFileOf
<1>5. CASE ParseFields
  <2>1. "end" \in Items /\ "IdentList" \in Items /\ ":" \in Items
        /\ "TypeDenoter" \in Items /\ ";" \in Items /\ "Fields" \in Items
    BY Names
  <2>2. <<"end">> \in Seq(Items)
    BY <2>1, OneItem
  <2>3. <<"IdentList", ":", "TypeDenoter", ";", "Fields">> \in Seq(Items)
    BY <2>1, FiveItems
  <2> QED BY <1>5, <2>2, <2>3, ChoicesKeep DEF ParseFields
<1>6. CASE ParseConstSection
  <2>1. "ConstDecls" \in Items
    BY Names
  <2>2. <<"ConstDecls">> \in Seq(Items)
    BY <2>1
  <2> QED BY <1>6, <2>2, ChoicesKeep DEF ParseConstSection
<1>7. CASE ParseConstDecls
  <2>1. "=" \in Items /\ "Expression" \in Items /\ ";" \in Items
        /\ "ConstRecovery" \in Items /\ "ConstDecls" \in Items
    BY Names
  <2>2. <<"=", "Expression", ";", "ConstRecovery", "ConstDecls">> \in Seq(Items)
    BY <2>1, FiveItems
  <2> QED BY <1>7, <2>2, ChoicesKeep DEF ParseConstDecls
<1>8. CASE ParseConstRecovery
  BY <1>8, FormsKeep, SkipsKeep DEF ParseConstRecovery
<1>9. CASE ParseTypeSection
  <2>1. "TypeDecls" \in Items
    BY Names
  <2>2. <<"TypeDecls">> \in Seq(Items)
    BY <2>1
  <2> QED BY <1>9, <2>2, ChoicesKeep DEF ParseTypeSection
<1>10. CASE ParseTypeDecls
  <2>1. "=" \in Items /\ "TypeDenoter" \in Items /\ ";" \in Items
        /\ "TypeDecls" \in Items
    BY Names
  <2>2. <<"=", "TypeDenoter", ";", "TypeDecls">> \in Seq(Items)
    BY <2>1, FourItems
  <2> QED BY <1>10, <2>2, ChoicesKeep DEF ParseTypeDecls
<1>11. CASE ParseVarSection
  <2>1. "VarDecls" \in Items
    BY Names
  <2>2. <<"VarDecls">> \in Seq(Items)
    BY <2>1
  <2> QED BY <1>11, <2>2, ChoicesKeep DEF ParseVarSection
<1>12. CASE ParseVarDecls
  <2>1. "IdentList" \in Items /\ ":" \in Items /\ "TypeDenoter" \in Items
        /\ ";" \in Items /\ "VarDecls" \in Items
    BY Names
  <2>2. <<"IdentList", ":", "TypeDenoter", ";", "VarDecls">> \in Seq(Items)
    BY <2>1, FiveItems
  <2> QED BY <1>12, <2>2, ChoicesKeep DEF ParseVarDecls
<1>13. CASE ParseParamList
  <2>1. "Params" \in Items
    BY Names
  <2>2. <<"Params">> \in Seq(Items)
    BY <2>1
  <2> QED BY <1>13, <2>2, ChoicesKeep DEF ParseParamList
<1>14. CASE ParseParams
  <2>1. "Param" \in Items
    BY Names
  <2>2. <<"Param">> \in Seq(Items)
    BY <2>1
  <2> QED BY <1>14, <2>2, ChoicesKeep DEF ParseParams
<1>15. CASE ParseParam
  <2>1. "IdentList" \in Items /\ ":" \in Items /\ "TypeDenoter" \in Items
        /\ "MoreParams" \in Items
    BY Names
  <2>2. <<"IdentList", ":", "TypeDenoter", "MoreParams">> \in Seq(Items)
    BY <2>1, FourItems
  <2> QED BY <1>15, <2>2, ChoicesKeep DEF ParseParam
<1>16. CASE ParseMoreParams
  <2>1. "Param" \in Items /\ ")" \in Items
    BY Names
  <2>2. <<"Param">> \in Seq(Items) /\ <<")">> \in Seq(Items)
    BY <2>1
  <2> QED BY <1>16, <2>2, ChoicesKeep DEF ParseMoreParams
<1>17. CASE ParseSubprograms
  <2>1. "Subprogram" \in Items /\ "Subprograms" \in Items
    BY Names
  <2>2. <<"Subprogram", "Subprograms">> \in Seq(Items)
    BY <2>1
  <2> QED BY <1>17, <2>2, ChoicesKeep DEF ParseSubprograms
<1>18. CASE ParseSubprogram
  <2>1. "id" \in Items /\ "ParamList" \in Items /\ ":" \in Items
        /\ "TypeDenoter" \in Items /\ ";" \in Items /\ "Block" \in Items
        /\ "procedure" \in Items
    BY Names
  <2>2. <<"id", "ParamList", ":", "TypeDenoter", ";", "Block", ";">> \in Seq(Items)
    BY <2>1, SevenItems
  <2>3. <<"procedure", "id", "ParamList", ";", "Block", ";">> \in Seq(Items)
    BY <2>1, SixItems
  <2> QED BY <1>18, <2>2, <2>3, ChoicesKeep DEF ParseSubprogram
<1>19. CASE ParseBlock
  <2>1. "ConstSection" \in Items /\ "TypeSection" \in Items /\ "VarSection" \in Items
        /\ "Subprograms" \in Items /\ "CompoundStmt" \in Items
    BY Names
  <2>2. <<"ConstSection", "TypeSection", "VarSection", "Subprograms", "CompoundStmt">>
          \in Seq(Items)
    BY <2>1, FiveItems
  <2> QED BY <1>19, <2>2, FormsKeep DEF ParseBlock
<1>20. CASE ParseProgram
  <2>1. "id" \in Items /\ ";" \in Items /\ "Block" \in Items /\ "." \in Items
        /\ "eof" \in Items
    BY Names
  <2>2. <<"id", ";", "Block", ".", "eof">> \in Seq(Items)
    BY <2>1, FiveItems
  <2> QED BY <1>20, <2>2, FormsKeep DEF ParseProgram
<1> QED
  BY <1>1, <1>2, <1>3, <1>4, <1>5, <1>6, <1>7, <1>8, <1>9, <1>10, <1>11, <1>12, 
     <1>13, <1>14, <1>15, <1>16, <1>17, <1>18, <1>19, <1>20 DEF Declarations

LEMMA StatementsKeep == ASSUME TypeOK, Statements PROVE TypeOK'
<1> USE Nothing DEF At
<1>1. CASE ParseCompoundStmt
  <2>1. "Statements" \in Items
    BY Names
  <2>2. <<"Statements">> \in Seq(Items)
    BY <2>1
  <2> QED BY <1>1, <2>2, FormsKeep DEF ParseCompoundStmt
<1>2. CASE ParseStatements
  <2>1. "end" \in Items /\ "Statement" \in Items /\ "MoreStatements" \in Items
    BY Names
  <2>2. <<"end">> \in Seq(Items) /\ <<"Statement", "MoreStatements">> \in Seq(Items)
    BY <2>1
  <2> QED BY <1>2, <2>2, ChoicesKeep DEF ParseStatements
<1>3. CASE ParseMoreStatements
  <2>1. "NextStatement" \in Items /\ "end" \in Items
    BY Names
  <2>2. <<"NextStatement">> \in Seq(Items) /\ <<"end">> \in Seq(Items)
    BY <2>1
  <2> QED BY <1>3, <2>2, ChoicesKeep DEF ParseMoreStatements
<1>4. CASE ParseNextStatement
  <2>1. "end" \in Items /\ "Statement" \in Items /\ "MoreStatements" \in Items
    BY Names
  <2>2. <<"end">> \in Seq(Items) /\ <<"Statement", "MoreStatements">> \in Seq(Items)
    BY <2>1
  <2> QED BY <1>4, <2>2, ChoicesKeep DEF ParseNextStatement
<1>5. CASE ParseStatement
  <2>1. "CompoundStmt" \in Items /\ "Expression" \in Items /\ "then" \in Items
        /\ "Statement" \in Items /\ "ElsePart" \in Items /\ "do" \in Items
        /\ "RepeatBody" \in Items /\ "id" \in Items /\ ":=" \in Items
        /\ "Direction" \in Items /\ "of" \in Items /\ "CaseArms" \in Items
        /\ "AfterName" \in Items
    BY Names
  <2>2. <<"CompoundStmt">> \in Seq(Items)
        /\ <<"Expression", "do", "Statement">> \in Seq(Items)
        /\ <<"RepeatBody">> \in Seq(Items)
        /\ <<"Expression", "of", "CaseArms">> \in Seq(Items)
        /\ <<"AfterName">> \in Seq(Items)
    BY <2>1
  <2>3. <<"Expression", "then", "Statement", "ElsePart">> \in Seq(Items)
    BY <2>1, FourItems
  <2>4. <<"id", ":=", "Expression", "Direction", "Expression", "do", "Statement">> \in Seq(Items)
    BY <2>1, SevenItems
  <2> QED BY <1>5, <2>2, <2>3, <2>4, FormsKeep, SkipsKeep DEF ParseStatement
<1>6. CASE ParseElsePart
  <2>1. "Statement" \in Items
    BY Names
  <2>2. <<"Statement">> \in Seq(Items)
    BY <2>1
  <2> QED BY <1>6, <2>2, ChoicesKeep DEF ParseElsePart
<1>7. CASE ParseDirection
  <2>1. "to" \in Items
    BY Names
  <2>2. <<"to">> \in Seq(Items)
    BY <2>1
  <2> QED BY <1>7, <2>2, ChoicesKeep DEF ParseDirection
<1>8. CASE ParseRepeatBody
  <2>1. "until" \in Items /\ "Expression" \in Items /\ "Statement" \in Items
        /\ "MoreRepeated" \in Items
    BY Names
  <2>2. <<"until", "Expression">> \in Seq(Items)
        /\ <<"Statement", "MoreRepeated">> \in Seq(Items)
    BY <2>1
  <2> QED BY <1>8, <2>2, ChoicesKeep DEF ParseRepeatBody
<1>9. CASE ParseMoreRepeated
  <2>1. "NextRepeated" \in Items /\ "until" \in Items /\ "Expression" \in Items
    BY Names
  <2>2. <<"NextRepeated">> \in Seq(Items) /\ <<"until", "Expression">> \in Seq(Items)
    BY <2>1
  <2> QED BY <1>9, <2>2, ChoicesKeep DEF ParseMoreRepeated
<1>10. CASE ParseNextRepeated
  <2>1. "until" \in Items /\ "Expression" \in Items /\ "Statement" \in Items
        /\ "MoreRepeated" \in Items
    BY Names
  <2>2. <<"until", "Expression">> \in Seq(Items)
        /\ <<"Statement", "MoreRepeated">> \in Seq(Items)
    BY <2>1
  <2> QED BY <1>10, <2>2, ChoicesKeep DEF ParseNextRepeated
<1>11. CASE ParseCaseArms
  <2>1. "CaseElse" \in Items /\ "CaseArm" \in Items /\ "MoreArms" \in Items
    BY Names
  <2>2. <<"CaseElse">> \in Seq(Items) /\ <<"CaseArm", "MoreArms">> \in Seq(Items)
    BY <2>1
  <2> QED BY <1>11, <2>2, FormsKeep DEF ParseCaseArms
<1>12. CASE ParseCaseArm
  <2>1. "CaseLabel" \in Items /\ "MoreLabels" \in Items /\ ":" \in Items
        /\ "Statement" \in Items
    BY Names
  <2>2. <<"CaseLabel", "MoreLabels", ":", "Statement">> \in Seq(Items)
    BY <2>1, FourItems
  <2> QED BY <1>12, <2>2, FormsKeep DEF ParseCaseArm
<1>13. CASE ParseCaseLabel
  <2>1. "Expression" \in Items /\ "UpperLabel" \in Items
    BY Names
  <2>2. <<"Expression", "UpperLabel">> \in Seq(Items)
    BY <2>1
  <2> QED BY <1>13, <2>2, FormsKeep DEF ParseCaseLabel
<1>14. CASE ParseUpperLabel
  <2>1. "Expression" \in Items
    BY Names
  <2>2. <<"Expression">> \in Seq(Items)
    BY <2>1
  <2> QED BY <1>14, <2>2, ChoicesKeep DEF ParseUpperLabel
<1>15. CASE ParseMoreLabels
  <2>1. "CaseLabel" \in Items /\ "MoreLabels" \in Items
    BY Names
  <2>2. <<"CaseLabel", "MoreLabels">> \in Seq(Items)
    BY <2>1
  <2> QED BY <1>15, <2>2, ChoicesKeep DEF ParseMoreLabels
<1>16. CASE ParseMoreArms
  <2>1. "NextArm" \in Items
    BY Names
  <2>2. <<"NextArm">> \in Seq(Items)
    BY <2>1
  <2> QED BY <1>16, <2>2, ChoicesKeep DEF ParseMoreArms
<1>17. CASE ParseNextArm
  <2>1. "CaseElse" \in Items /\ "CaseArm" \in Items /\ "MoreArms" \in Items
    BY Names
  <2>2. <<"CaseElse">> \in Seq(Items) /\ <<"CaseArm", "MoreArms">> \in Seq(Items)
    BY <2>1
  <2> QED BY <1>17, <2>2, ChoicesKeep DEF ParseNextArm
<1>18. CASE ParseCaseElse
  <2>1. "Statement" \in Items /\ "end" \in Items
    BY Names
  <2>2. <<"Statement", "end">> \in Seq(Items) /\ <<"end">> \in Seq(Items)
    BY <2>1
  <2> QED BY <1>18, <2>2, ChoicesKeep DEF ParseCaseElse
<1>19. CASE ParseAfterName
  <2>1. "Expression" \in Items /\ "]" \in Items /\ "Target" \in Items
        /\ "TargetField" \in Items /\ "AssignRecovery" \in Items /\ "ArgList" \in Items
        /\ ")" \in Items
    BY Names
  <2>2. <<"Expression", "]", "Target">> \in Seq(Items)
        /\ <<"TargetField">> \in Seq(Items)
        /\ <<"Expression", "AssignRecovery">> \in Seq(Items)
        /\ <<"ArgList", ")">> \in Seq(Items)
    BY <2>1
  <2> QED BY <1>19, <2>2, FormsKeep DEF ParseAfterName
<1>20. CASE ParseTargetField
  <2>1. "TargetIndex" \in Items /\ "Target" \in Items
    BY Names
  <2>2. <<"TargetIndex", "Target">> \in Seq(Items)
    BY <2>1
  <2> QED BY <1>20, <2>2, FormsKeep, SkipsKeep DEF ParseTargetField
<1>21. CASE ParseTargetIndex
  <2>1. "Expression" \in Items /\ "]" \in Items
    BY Names
  <2>2. <<"Expression", "]">> \in Seq(Items)
    BY <2>1
  <2> QED BY <1>21, <2>2, ChoicesKeep DEF ParseTargetIndex
<1>22. CASE ParseTarget
  <2>1. "Expression" \in Items
    BY Names
  <2>2. <<"Expression">> \in Seq(Items)
    BY <2>1
  <2> QED BY <1>22, <2>2, FormsKeep, SkipsKeep DEF ParseTarget
<1>23. CASE ParseAssignRecovery
  BY <1>23, FormsKeep, SkipsKeep DEF ParseAssignRecovery
<1> QED
  BY <1>1, <1>2, <1>3, <1>4, <1>5, <1>6, <1>7, <1>8, <1>9, <1>10, <1>11, <1>12, 
     <1>13, <1>14, <1>15, <1>16, <1>17, <1>18, <1>19, <1>20, <1>21, <1>22, <1>23 DEF Statements

LEMMA ExpectKeeps == ASSUME TypeOK, Expect PROVE TypeOK'
  BY Nothing, FormsKeep DEF Expect

LEMMA TypeKept == ASSUME TypeOK, [Next]_vars PROVE TypeOK'
<1>1. CASE UNCHANGED vars
  BY <1>1 DEF vars, TypeOK
<1> QED
  BY <1>1, ExpectKeeps, ExpressionsKeep, DeclarationsKeep, StatementsKeep DEF Next

LEMMA TypeInitial == ASSUME Init PROVE TypeOK
<1>1. stream \in Seq(STRING) /\ stream # <<>>
      /\ \A k \in DOMAIN stream : stream[k] = "eof" <=> k = Len(stream)
  BY ParserAssumption DEF Init
<1>2. 1 \in DOMAIN stream /\ 0 \in 0..Len(stream)
  BY <1>1, EmptySeq, LenProperties
<1>3. work \in Seq(Items) /\ nodes \in Seq(Nodes)
  <2>1. "Program" \in Items
    BY Names
  <2> QED BY <2>1, EmptySeq DEF Init
<1> QED
  BY <1>1, <1>2, <1>3 DEF Init, TypeOK

(* Whatever the stream holds, what the active calls have left to do is      *)
(* something that a parse function does, the cursor (TokenCursor) stays in  *)
(* the stream and errors are reported at one of its tokens.                 *)
THEOREM ParserTypes == Spec => []TypeOK
  BY TypeInitial, TypeKept, PTL DEF Spec

---------------------------------------------------------------------------
(* How long the parser stays at a token.                                    *)

LEMMA StepsArePositive ==
    ASSUME NEW token, NEW item \in Items
    PROVE  StepsAt(token, item) \in Nat \ {0}
<1>1. item \in DOMAIN Longer => Longer[item] \in Nat \ {0}
  BY DEF Longer
<1> QED
  BY <1>1 DEF StepsAt

LEMMA StayFromEquation ==
    ASSUME NEW token, NEW items \in Seq(Items)
    PROVE  StayFrom(token, items)
             = [k \in 1..Len(items) + 1 |->
                   IF k > Len(items) THEN 0
                   ELSE StepsAt(token, items[k]) +
                        (IF Consumes(token, items[k]) THEN 0
                         ELSE StayFrom(token, items)[k + 1])]
<1> DEFINE n == Len(items)
           D == 1..n + 1
           s(k) == StepsAt(token, items[k])
           Ends(k) == Consumes(token, items[k])
           Value(f, k) == IF k > n THEN 0 ELSE s(k) + (IF Ends(k) THEN 0 ELSE f[k + 1])
           Equation(f) == f = [k \in D |-> Value(f, k)]
           base == [k \in D |-> IF k > n THEN 0 ELSE s(k)]
           next == [k \in D |-> IF k > n \/ Ends(k) THEN 0 ELSE k + 1]
           step == [k \in D |-> [v \in Nat |-> IF k > n THEN v ELSE s(k) + v]]
<1>1. n \in Nat /\ \A k \in D : k <= n => s(k) \in Nat
  <2>1. n \in Nat /\ \A k \in 1..n : items[k] \in Items
    BY LenProperties, ElementOfSeq
  <2>2. \A k \in D : k <= n => k \in 1..n
    BY <2>1
  <2> QED BY <2>1, <2>2, StepsArePositive
<1> HIDE DEF n, s, Ends
<1>2. base \in [D -> Nat] /\ next \in [D -> Int] /\ step \in [D -> [Nat -> Nat]]
  <2>1. \A k \in D : k \in Int /\ k + 1 \in Int /\ (k > n \/ k <= n)
    BY <1>1
  <2>2. \A k \in D, v \in Nat : k <= n => s(k) + v \in Nat
    BY <1>1
  <2> HIDE DEF D
  <2>3. base \in [D -> Nat]
    BY <1>1, <2>1
  <2>4. next \in [D -> Int]
    BY <2>1
  <2>5. step \in [D -> [Nat -> Nat]]
    BY <2>1, <2>2
  <2> QED BY <2>3, <2>4, <2>5
<1>3. PICK f \in [D -> Nat] : \A k \in D :
          f[k] = IF k < next[k] /\ next[k] <= n + 1 THEN step[k][f[next[k]]] ELSE base[k]
  <2> DEFINE b == n + 1
  <2>1. b \in Int /\ 1 \in Int /\ D = 1..b
    BY <1>1
  <2> HIDE DEF base, next, step, D, b
  <2>2. HasRecursiveFunction(1, b, Nat, base, next, step)
    BY <1>2, <2>1, RecursionExists
  <2> QED BY <2>1, <2>2 DEF HasRecursiveFunction, b
<1>4. \A k \in D : f[k] = Value(f, k)
  <2> SUFFICES ASSUME NEW k \in D PROVE f[k] = Value(f, k)
    OBVIOUS
  <2>1. k \in Int /\ k >= 1 /\ k <= n + 1
    BY <1>1
  <2>2. CASE k > n \/ Ends(k)
    <3>1. next[k] = 0
      BY <2>2
    <3>2. base[k] = IF k > n THEN 0 ELSE s(k)
      OBVIOUS
    <3>3. f[k] = base[k]
      <4> HIDE DEF base, next, step, D
      <4> QED BY <3>1, <2>1, <1>3
    <3>4. k <= n => s(k) + 0 = s(k)
      BY <1>1
    <3> HIDE DEF base, next, step, D
    <3> QED BY <2>1, <1>1, <3>2, <3>3, <3>4, <2>2
  <2>3. CASE ~(k > n \/ Ends(k))
    <3>1. next[k] = k + 1 /\ k + 1 \in D /\ k < k + 1 /\ k + 1 <= n + 1
      BY <2>3, <2>1, <1>1
    <3>2. f[k] = step[k][f[k + 1]]
      <4> HIDE DEF base, next, step, D
      <4> QED BY <3>1, <1>3
    <3>3. f[k + 1] \in Nat
      <4> HIDE DEF base, next, step, D
      <4> QED BY <3>1
    <3>4. step[k][f[k + 1]] = s(k) + f[k + 1]
      <4> HIDE DEF base, next
      <4> QED BY <3>3, <2>3
    <3> QED BY <3>2, <3>4, <2>3
  <2> QED BY <2>2, <2>3
<1>5. Equation(f)
  <2> DEFINE g == [k \in D |-> Value(f, k)]
  <2> HIDE DEF Value
  <2>1. f = [k \in D |-> f[k]]
    OBVIOUS
  <2>2. [k \in D |-> f[k]] = g
    <3> HIDE DEF D
    <3> QED BY <1>4
  <2> QED BY <2>1, <2>2
<1>6. StayFrom(token, items) = CHOOSE g : Equation(g)
  BY DEF StayFrom, n, s, Ends
<1>7. Equation(StayFrom(token, items))
  <2> HIDE DEF Equation
  <2> QED BY <1>5, <1>6
<1> QED
  BY <1>7 DEF n, s, Ends

LEMMA StayFromAt ==
    ASSUME NEW token, NEW items \in Seq(Items), NEW k \in 1..Len(items) + 1
    PROVE  StayFrom(token, items)[k]
             = IF k > Len(items) THEN 0
               ELSE StepsAt(token, items[k]) +
                    (IF Consumes(token, items[k]) THEN 0
                     ELSE StayFrom(token, items)[k + 1])
  BY StayFromEquation

LEMMA StayFromIsNat ==
    ASSUME NEW token, NEW items \in Seq(Items), NEW k \in 1..Len(items) + 1
    PROVE  StayFrom(token, items)[k] \in Nat
<1> DEFINE n == Len(items)
           v(i) == StayFrom(token, items)[i]
           Bad == {i \in 1..n + 1 : v(i) \notin Nat}
<1>1. n \in Nat
  BY LenProperties
<1> SUFFICES ASSUME Bad # {} PROVE FALSE
  OBVIOUS
<1>2. PICK i \in Bad : \A j \in Bad : j <= i
  <2>1. Bad \in SUBSET Int /\ (n + 1) \in Int /\ \A j \in Bad : j <= n + 1
    BY <1>1
  <2> HIDE DEF Bad, n
  <2> QED BY <2>1, GreatestExists
<1>3. i \in 1..n + 1 /\ v(i) \notin Nat
  BY <1>2
<1>4. ~(i > n)
  <2>1. i > n => v(i) = 0
    BY <1>3, StayFromAt
  <2> QED BY <1>3, <2>1
<1>5. i \in 1..n /\ i + 1 \in 1..n + 1 /\ ~(i + 1 <= i)
  BY <1>1, <1>3, <1>4
<1>6. v(i + 1) \in Nat
  <2> HIDE DEF v
  <2> QED BY <1>2, <1>5
<1>7. StepsAt(token, items[i]) \in Nat
  BY <1>5, StepsArePositive, ElementOfSeq
<1>8. v(i) = StepsAt(token, items[i]) + (IF Consumes(token, items[i]) THEN 0 ELSE v(i + 1))
  BY <1>3, <1>4, StayFromAt
<1> HIDE DEF v, n
<1> QED
  BY <1>3, <1>6, <1>7, <1>8

LEMMA StayIsNat ==
    ASSUME NEW token, NEW items \in Seq(Items)
    PROVE  Stay(token, items) \in Nat
<1>1. 1 \in 1..Len(items) + 1
  BY LenProperties
<1> QED
  BY <1>1, StayFromIsNat DEF Stay

(* The bound for the rest of a list does not depend on what is before it.   *)
LEMMA StayFromTail ==
    ASSUME NEW token, NEW items \in Seq(Items), items # <<>>, NEW k \in 1..Len(items)
    PROVE  StayFrom(token, items)[k + 1] = StayFrom(token, Tail(items))[k]
<1> DEFINE n == Len(items)
           t == Tail(items)
           v(i) == StayFrom(token, items)[i]
           w(i) == StayFrom(token, t)[i]
           Bad == {i \in 1..n : v(i + 1) # w(i)}
<1>1. /\ n \in Nat \ {0} /\ t \in Seq(Items) /\ Len(t) = n - 1
      /\ \A i \in 1..n - 1 : t[i] = items[i + 1]
  BY HeadTailProperties, LenProperties, EmptySeq
<1> SUFFICES ASSUME Bad # {} PROVE FALSE
  OBVIOUS
<1>2. PICK i \in Bad : \A j \in Bad : j <= i
  <2>1. Bad \in SUBSET Int /\ n \in Int /\ \A j \in Bad : j <= n
    BY <1>1
  <2> HIDE DEF Bad, n
  <2> QED BY <2>1, GreatestExists
<1>3. i \in 1..n /\ v(i + 1) # w(i)
  BY <1>2
<1>4. /\ i + 1 \in 1..n + 1 /\ i \in 1..Len(t) + 1
      /\ (i + 1 > n) <=> (i = n)
      /\ (i > Len(t)) <=> (i = n)
  <2> HIDE DEF n, t, v, w
  <2> QED BY <1>1, <1>3
<1>5. v(i + 1) = IF i = n THEN 0
                 ELSE StepsAt(token, items[i + 1]) +
                      (IF Consumes(token, items[i + 1]) THEN 0 ELSE v(i + 1 + 1))
  BY <1>4, StayFromAt
<1>6. w(i) = IF i = n THEN 0
             ELSE StepsAt(token, t[i]) + (IF Consumes(token, t[i]) THEN 0 ELSE w(i + 1))
  <2> HIDE DEF t
  <2> QED BY <1>1, <1>4, StayFromAt
<1>7. CASE i = n
  BY <1>3, <1>5, <1>6, <1>7
<1>8. CASE i # n
  <2>1. i \in 1..n - 1 /\ i + 1 \in 1..n /\ ~(i + 1 <= i)
    <3> HIDE DEF n, v, w
    <3> QED BY <1>1, <1>3, <1>8
  <2>2. v(i + 1 + 1) = w(i + 1)
    <3> HIDE DEF v, w
    <3> QED BY <1>2, <2>1
  <2>3. t[i] = items[i + 1]
    BY <1>1, <2>1
  <2> HIDE DEF v, w, t
  <2> QED BY <1>3, <1>5, <1>6, <1>8, <2>2, <2>3
<1> QED
  BY <1>7, <1>8

LEMMA StayOfHead ==
    ASSUME NEW token, NEW items \in Seq(Items), items # <<>>
    PROVE  Stay(token, items)
             = StepsAt(token, Head(items)) +
               (IF Consumes(token, Head(items)) THEN 0 ELSE Stay(token, Tail(items)))
<1>1. Len(items) \in Nat \ {0}
  BY LenProperties, EmptySeq
<1>2. 1 \in 1..Len(items) + 1 /\ 1 \in 1..Len(items) /\ ~(1 > Len(items)) /\ 1 + 1 = 2
  BY <1>1
<1>3. Head(items) = items[1]
  OBVIOUS
<1>4. StayFrom(token, items)[1 + 1] = StayFrom(token, Tail(items))[1]
  BY <1>2, StayFromTail
<1> QED
  BY <1>2, <1>3, <1>4, StayFromAt DEF Stay

(* The bound for an item and what comes after it.                           *)
Steps(token, item, after) == StepsAt(token, item) + (IF Consumes(token, item) THEN 0 ELSE after)
        

LEMMA StayOfFirst ==
    ASSUME NEW token, NEW item \in Items, NEW items \in Seq(Items)
    PROVE  Stay(token, <<item>> \o items) = Steps(token, item, Stay(token, items))
<1> DEFINE all == <<item>> \o items
<1>1. all \in Seq(Items) /\ all # <<>> /\ Head(all) = item /\ Tail(all) = items
  OBVIOUS
<1> HIDE DEF all
<1>2. Stay(token, all) = Steps(token, Head(all), Stay(token, Tail(all)))
  BY <1>1, StayOfHead DEF Steps
<1> QED
  BY <1>1, <1>2 DEF all

LEMMA StayOfNext ==
    ASSUME NEW token, NEW item \in Items, NEW items \in Seq(Items), NEW rest \in Seq(Items)
    PROVE  Stay(token, (<<item>> \o items) \o rest)
             = Steps(token, item, Stay(token, items \o rest))
<1>1. (<<item>> \o items) \o rest = <<item>> \o (items \o rest)
  BY OneItem, ConcatAssociative
<1>2. items \o rest \in Seq(Items)
  BY ConcatProperties
<1> QED
  BY <1>1, <1>2, StayOfFirst

LEMMA StayOfNone ==
    ASSUME NEW token, NEW rest \in Seq(Items)
    PROVE  Stay(token, <<>> \o rest) = Stay(token, rest)
  BY ConcatEmptySeq

LEMMA StayOfOne ==
    ASSUME NEW token, NEW a \in Items, NEW rest \in Seq(Items)
    PROVE  Stay(token, <<a>> \o rest) = Steps(token, a, Stay(token, rest))
  BY StayOfFirst

LEMMA PairIsConcat ==
    ASSUME NEW a \in Items, NEW b \in Items
    PROVE  <<a, b>> = <<a>> \o <<b>>
<1> DEFINE x == <<a>>
           y == <<b>>
           z == <<a, b>>
           w == x \o y
<1>1. x \in Seq(Items) /\ Len(x) = 1 /\ x[1] = a
  OBVIOUS
<1>2. y \in Seq(Items) /\ Len(y) = 1 /\ y[1] = b
  OBVIOUS
<1>3. z \in Seq(Items) /\ Len(z) = 2 /\ z[1] = a /\ z[2] = b
  OBVIOUS
<1> HIDE DEF x, y, z
<1>4. w \in Seq(Items) /\ Len(w) = 2 /\ w[1] = a /\ w[2] = b
  BY <1>1, <1>2, ConcatProperties
<1> HIDE DEF w
<1>5. \A i \in 1..2 : w[i] = z[i]
  BY <1>3, <1>4
<1>6. w = z
  BY <1>3, <1>4, <1>5, SeqEqual
<1> QED
  BY <1>6 DEF w, x, y, z

LEMMA StayOfTwo ==
    ASSUME NEW token, NEW a \in Items, NEW b \in Items,
           NEW rest \in Seq(Items)
    PROVE  Stay(token, <<a, b>> \o rest)
             = Steps(token, a, Steps(token, b, Stay(token, rest)))
<1> DEFINE tail == <<b>>
<1>1. <<a, b>> = <<a>> \o tail
  BY PairIsConcat
<1>2. tail \in Seq(Items)
  BY OneItem
<1>3. Stay(token, tail \o rest) = Steps(token, b, Stay(token, rest))
  BY StayOfOne
<1> HIDE DEF tail
<1>4. Stay(token, (<<a>> \o tail) \o rest) = Steps(token, a, Stay(token, tail \o rest))
  BY <1>2, StayOfNext
<1> QED
  BY <1>1, <1>3, <1>4, Zenon

LEMMA StayOfThree ==
    ASSUME NEW token, NEW a \in Items, NEW b \in Items, NEW c \in Items,
           NEW rest \in Seq(Items)
    PROVE  Stay(token, <<a, b, c>> \o rest)
             = Steps(token, a, Steps(token, b, Steps(token, c, Stay(token, rest))))
<1> DEFINE tail == <<b, c>>
<1>1. <<a, b, c>> = <<a>> \o tail
  OBVIOUS
<1>2. tail \in Seq(Items)
  OBVIOUS
<1>3. Stay(token, tail \o rest) = Steps(token, b, Steps(token, c, Stay(token, rest)))
  BY StayOfTwo
<1> HIDE DEF tail
<1>4. Stay(token, (<<a>> \o tail) \o rest) = Steps(token, a, Stay(token, tail \o rest))
  BY <1>2, StayOfNext
<1> QED
  BY <1>1, <1>3, <1>4, Zenon

LEMMA StayOfFour ==
    ASSUME NEW token, NEW a \in Items, NEW b \in Items, NEW c \in Items,
           NEW d \in Items, NEW rest \in Seq(Items)
    PROVE  Stay(token, <<a, b, c, d>> \o rest)
             = Steps(token, a, Steps(token, b,
                     Steps(token, c, Steps(token, d, Stay(token, rest)))))
<1> DEFINE tail == <<b, c, d>>
<1>1. <<a, b, c, d>> = <<a>> \o tail
  OBVIOUS
<1>2. tail \in Seq(Items)
  OBVIOUS
<1>3. Stay(token, tail \o rest)
       = Steps(token, b,
              Steps(token, c, Steps(token, d, Stay(token, rest))))
  BY StayOfThree
<1> HIDE DEF tail
<1>4. Stay(token, (<<a>> \o tail) \o rest) = Steps(token, a, Stay(token, tail \o rest))
  BY <1>2, StayOfNext
<1> QED
  BY <1>1, <1>3, <1>4, Zenon

LEMMA StayOfFive ==
    ASSUME NEW token, NEW a \in Items, NEW b \in Items, NEW c \in Items,
           NEW d \in Items, NEW e \in Items, NEW rest \in Seq(Items)
    PROVE  Stay(token, <<a, b, c, d, e>> \o rest)
             = Steps(token, a, Steps(token, b,
                     Steps(token, c, Steps(token, d, Steps(token, e, Stay(token, rest))))))
<1> DEFINE tail == <<b, c, d, e>>
<1>1. <<a, b, c, d, e>> = <<a>> \o tail
  OBVIOUS
<1>2. tail \in Seq(Items)
  BY FourItems
<1>3. Stay(token, tail \o rest)
       = Steps(token, b, Steps(token, c,
              Steps(token, d, Steps(token, e, Stay(token, rest)))))
  BY StayOfFour
<1> HIDE DEF tail
<1>4. Stay(token, (<<a>> \o tail) \o rest) = Steps(token, a, Stay(token, tail \o rest))
  BY <1>2, StayOfNext
<1> QED
  BY <1>1, <1>3, <1>4, Zenon

LEMMA StayOfSix ==
    ASSUME NEW token, NEW a \in Items, NEW b \in Items, NEW c \in Items,
           NEW d \in Items, NEW e \in Items, NEW f \in Items, NEW rest \in Seq(Items)
    PROVE  Stay(token, <<a, b, c, d, e, f>> \o rest)
             = Steps(token, a, Steps(token, b, Steps(token, c,
                     Steps(token, d, Steps(token, e, Steps(token, f, Stay(token, rest)))))))
<1> DEFINE tail == <<b, c, d, e, f>>
<1>1. <<a, b, c, d, e, f>> = <<a>> \o tail
  OBVIOUS
<1>2. tail \in Seq(Items)
  BY FiveItems
<1>3. Stay(token, tail \o rest)
       = Steps(token, b, Steps(token, c,
              Steps(token, d, Steps(token, e, Steps(token, f, Stay(token, rest))))))
  BY StayOfFive
<1> HIDE DEF tail
<1>4. Stay(token, (<<a>> \o tail) \o rest) = Steps(token, a, Stay(token, tail \o rest))
  BY <1>2, StayOfNext
<1> QED
  BY <1>1, <1>3, <1>4, Zenon

---------------------------------------------------------------------------
(* What each item weighs at a token, and which items consume it.            *)

LEMMA StepsOfItems ==
    ASSUME NEW token
    PROVE  /\ StepsAt(token, "Expression") = 7 /\ StepsAt(token, "Relation") = 1
           /\ StepsAt(token, "SimpleExpression") = 5 /\ StepsAt(token, "MoreTerms") = 1
           /\ StepsAt(token, "Term") = 3 /\ StepsAt(token, "MoreFactors") = 1
           /\ StepsAt(token, "Factor") = 1 /\ StepsAt(token, "CallOrIdentifier") = 2
           /\ StepsAt(token, "Indexes") = 2 /\ StepsAt(token, "Selects") = 1
           /\ StepsAt(token, "FieldName") = 1 /\ StepsAt(token, "ArgList") = 9
           /\ StepsAt(token, "MoreArgs") = 1 /\ StepsAt(token, "IdentList") = 1
           /\ StepsAt(token, "MoreIdents") = 1 /\ StepsAt(token, "TypeDenoter") = 1
           /\ StepsAt(token, "FileOf") = 1 /\ StepsAt(token, "Fields") = 5
           /\ StepsAt(token, "ConstSection") = 1 /\ StepsAt(token, "ConstDecls") = 1
           /\ StepsAt(token, "ConstRecovery") = 1 /\ StepsAt(token, "TypeSection") = 1
           /\ StepsAt(token, "TypeDecls") = 1 /\ StepsAt(token, "VarSection") = 1
           /\ StepsAt(token, "VarDecls") = 5 /\ StepsAt(token, "ParamList") = 1
           /\ StepsAt(token, "Params") = 7 /\ StepsAt(token, "Param") = 6
           /\ StepsAt(token, "MoreParams") = 2 /\ StepsAt(token, "Subprograms") = 3
           /\ StepsAt(token, "Block") = 8 /\ StepsAt(token, "Program") = 1
           /\ StepsAt(token, "CompoundStmt") = 1 /\ StepsAt(token, "Statements") = 5
           /\ StepsAt(token, "MoreStatements") = 2 /\ StepsAt(token, "NextStatement") = 5
           /\ StepsAt(token, "Statement") = 2 /\ StepsAt(token, "ElsePart") = 1
           /\ StepsAt(token, "Direction") = 2 /\ StepsAt(token, "RepeatBody") = 12
           /\ StepsAt(token, "MoreRepeated") = 9 /\ StepsAt(token, "NextRepeated") = 12
           /\ StepsAt(token, "CaseArms") = 16 /\ StepsAt(token, "CaseArm") = 14
           /\ StepsAt(token, "CaseLabel") = 9 /\ StepsAt(token, "UpperLabel") = 1
           /\ StepsAt(token, "MoreLabels") = 1 /\ StepsAt(token, "NextArm") = 16
           /\ StepsAt(token, "CaseElse") = 2 /\ StepsAt(token, "AfterName") = 1
           /\ StepsAt(token, "TargetField") = 1 /\ StepsAt(token, "TargetIndex") = 1
           /\ StepsAt(token, "Target") = 1 /\ StepsAt(token, "AssignRecovery") = 1
           /\ StepsAt(token, "program") = 1 /\ StepsAt(token, "id") = 1
           /\ StepsAt(token, "num") = 1 /\ StepsAt(token, ";") = 1 /\ StepsAt(token, ".") = 1
           /\ StepsAt(token, ":") = 1 /\ StepsAt(token, ",") = 1 /\ StepsAt(token, "=") = 1
           /\ StepsAt(token, ":=") = 1 /\ StepsAt(token, "(") = 1 /\ StepsAt(token, ")") = 1
           /\ StepsAt(token, "[") = 1 /\ StepsAt(token, "]") = 1 /\ StepsAt(token, "..") = 1
           /\ StepsAt(token, "begin") = 1 /\ StepsAt(token, "end") = 1
           /\ StepsAt(token, "of") = 1 /\ StepsAt(token, "then") = 1
           /\ StepsAt(token, "do") = 1 /\ StepsAt(token, "to") = 1
           /\ StepsAt(token, "until") = 1 /\ StepsAt(token, "procedure") = 1
           /\ StepsAt(token, "eof") = 1 /\ StepsAt(token, "Literal") = 1
           /\ StepsAt(token, "Identifier") = 1 /\ StepsAt(token, "Call") = 1
           /\ StepsAt(token, "Group") = 1 /\ StepsAt(token, "Index") = 1
           /\ StepsAt(token, "Select") = 1 /\ StepsAt(token, "Not") = 1
           /\ StepsAt(token, "UnaryPlus") = 1 /\ StepsAt(token, "Star") = 1
           /\ StepsAt(token, "Plus") = 1 /\ StepsAt(token, "Equal") = 1
  BY DEF StepsAt, Longer

LEMMA StepsOfArms ==
    ASSUME NEW token
    PROVE  /\ token = ";" => StepsAt(token, "MoreArms") = 1
           /\ token # ";" => StepsAt(token, "MoreArms") = 17
  BY DEF StepsAt, Longer

LEMMA StepsOfSubprogram ==
    ASSUME NEW token
    PROVE  /\ token \in {"procedure", "function"} => StepsAt(token, "Subprogram") = 2
           /\ token \notin {"procedure", "function"} => StepsAt(token, "Subprogram") = 14
  BY DEF StepsAt, Longer

LEMMA NotConsuming ==
    ASSUME NEW token
    PROVE  /\ ~Consumes(token, "Expression") /\ ~Consumes(token, "Relation")
           /\ ~Consumes(token, "SimpleExpression") /\ ~Consumes(token, "MoreTerms")
           /\ ~Consumes(token, "Term") /\ ~Consumes(token, "MoreFactors")
           /\ ~Consumes(token, "Factor") /\ ~Consumes(token, "CallOrIdentifier")
           /\ ~Consumes(token, "Indexes") /\ ~Consumes(token, "Selects")
           /\ ~Consumes(token, "FieldName") /\ ~Consumes(token, "ArgList")
           /\ ~Consumes(token, "MoreArgs") /\ ~Consumes(token, "MoreIdents")
           /\ ~Consumes(token, "FileOf") /\ ~Consumes(token, "Fields")
           /\ ~Consumes(token, "ConstSection") /\ ~Consumes(token, "ConstDecls")
           /\ ~Consumes(token, "ConstRecovery") /\ ~Consumes(token, "TypeSection")
           /\ ~Consumes(token, "TypeDecls") /\ ~Consumes(token, "VarSection")
           /\ ~Consumes(token, "VarDecls") /\ ~Consumes(token, "ParamList")
           /\ ~Consumes(token, "Params") /\ ~Consumes(token, "Param")
           /\ ~Consumes(token, "MoreParams") /\ ~Consumes(token, "Subprograms")
           /\ ~Consumes(token, "Block") /\ ~Consumes(token, "Program")
           /\ ~Consumes(token, "Statements") /\ ~Consumes(token, "MoreStatements")
           /\ ~Consumes(token, "NextStatement") /\ ~Consumes(token, "ElsePart")
           /\ ~Consumes(token, "Direction") /\ ~Consumes(token, "RepeatBody")
           /\ ~Consumes(token, "MoreRepeated") /\ ~Consumes(token, "NextRepeated")
           /\ ~Consumes(token, "CaseArms") /\ ~Consumes(token, "CaseLabel")
           /\ ~Consumes(token, "UpperLabel") /\ ~Consumes(token, "MoreLabels")
           /\ ~Consumes(token, "MoreArms") /\ ~Consumes(token, "NextArm")
           /\ ~Consumes(token, "CaseElse") /\ ~Consumes(token, "AfterName")
           /\ ~Consumes(token, "TargetField") /\ ~Consumes(token, "TargetIndex")
           /\ ~Consumes(token, "Target") /\ ~Consumes(token, "AssignRecovery")
  BY DEF Consumes, Kinds

LEMMA Consuming ==
    ASSUME NEW token
    PROVE  /\ Consumes(token, "Statement") <=> token \notin StatementBoundary \cup {"eof"}
           /\ Consumes(token, "CaseArm") <=> token \notin StatementBoundary \cup {"eof"}
           /\ Consumes(token, "CompoundStmt") <=> token = "begin"
           /\ Consumes(token, "Subprogram") <=> token \in {"procedure", "function"}
           /\ Consumes(token, "IdentList") <=> token = "id"
           /\ Consumes(token, "TypeDenoter") <=> token \notin DeclarationBoundary \cup {"eof"}
  BY DEF Consumes, Kinds, StatementBoundary

LEMMA KindsConsume ==
    ASSUME NEW token, NEW kind \in Kinds
    PROVE  Consumes(token, kind) <=> (kind = token /\ kind # "eof")
  BY DEF Consumes, Kinds

LEMMA NodesDoNot ==
    ASSUME NEW token, NEW node \in Nodes
    PROVE  ~Consumes(token, node)
  BY DEF Consumes, Kinds, Nodes

---------------------------------------------------------------------------
LEMMA StepsAre ==
    ASSUME NEW token, NEW item \in Items, NEW after \in Nat
    PROVE  /\ Steps(token, item, after) \in Nat
           /\ Consumes(token, item) => Steps(token, item, after) = StepsAt(token, item)
           /\ ~Consumes(token, item) => Steps(token, item, after) = StepsAt(token, item) + after
                   
           /\ Steps(token, item, after) <= StepsAt(token, item) + after
<1>1. StepsAt(token, item) \in Nat
  BY StepsArePositive
<1> QED
  BY <1>1 DEF Steps

---------------------------------------------------------------------------
(* A step that leaves the cursor where it is comes nearer when it replaces   *)
(* the item by lighter ones.                                                *)

Lighter(items, item) ==
    /\ items \in Seq(Items)
    /\ \A rest \in Seq(Items) :
          Stay(Current, items \o rest) < Steps(Current, item, Stay(Current, rest))

LEMMA LighterNone ==
    ASSUME NEW item \in Items, ~Consumes(Current, item)
    PROVE  Lighter(<<>>, item)
<1> SUFFICES ASSUME NEW rest \in Seq(Items)
             PROVE  Stay(Current, <<>> \o rest) < Steps(Current, item, Stay(Current, rest))
  BY Nothing DEF Lighter
<1>1. Stay(Current, <<>> \o rest) = Stay(Current, rest) /\ Stay(Current, rest) \in Nat
  BY StayOfNone, StayIsNat
<1>2. StepsAt(Current, item) \in Nat \ {0}
  BY StepsArePositive
<1> QED
  BY <1>1, <1>2 DEF Steps

LEMMA LighterOne ==
    ASSUME NEW item \in Items, NEW a \in Items,
           \A n \in Nat :
             Steps(Current, a, n)
               < Steps(Current, item, n)
    PROVE  Lighter(<<a>>, item)
<1>1. <<a>> \in Seq(Items)
  BY OneItem
<1> QED
  BY <1>1, StayOfOne, StayIsNat DEF Lighter

LEMMA LighterTwo ==
    ASSUME NEW item \in Items, NEW a \in Items, NEW b \in Items,
           \A n \in Nat :
             Steps(Current, a, Steps(Current, b, n))
               < Steps(Current, item, n)
    PROVE  Lighter(<<a, b>>, item)
<1>1. <<a, b>> \in Seq(Items)
  OBVIOUS
<1> QED
  BY <1>1, StayOfTwo, StayIsNat DEF Lighter

LEMMA LighterThree ==
    ASSUME NEW item \in Items, NEW a \in Items, NEW b \in Items, NEW c \in Items,
           \A n \in Nat :
             Steps(Current, a, Steps(Current, b, Steps(Current, c, n)))
               < Steps(Current, item, n)
    PROVE  Lighter(<<a, b, c>>, item)
<1>1. <<a, b, c>> \in Seq(Items)
  OBVIOUS
<1> QED
  BY <1>1, StayOfThree, StayIsNat DEF Lighter

LEMMA LighterFour ==
    ASSUME NEW item \in Items, NEW a \in Items, NEW b \in Items, NEW c \in Items,
           NEW d \in Items,
           \A n \in Nat :
             Steps(Current, a, Steps(Current, b, Steps(Current, c, Steps(Current, d, n))))
               < Steps(Current, item, n)
    PROVE  Lighter(<<a, b, c, d>>, item)
<1>1. <<a, b, c, d>> \in Seq(Items)
  BY FourItems
<1> QED
  BY <1>1, StayOfFour, StayIsNat DEF Lighter

LEMMA LighterFive ==
    ASSUME NEW item \in Items, NEW a \in Items, NEW b \in Items, NEW c \in Items,
           NEW d \in Items, NEW e \in Items,
           \A n \in Nat :
             Steps(Current, a, Steps(Current, b,
                     Steps(Current, c, Steps(Current, d, Steps(Current, e, n)))))
               < Steps(Current, item, n)
    PROVE  Lighter(<<a, b, c, d, e>>, item)
<1>1. <<a, b, c, d, e>> \in Seq(Items)
  BY FiveItems
<1> QED
  BY <1>1, StayOfFive, StayIsNat DEF Lighter

LEMMA LighterSix ==
    ASSUME NEW item \in Items, NEW a \in Items, NEW b \in Items, NEW c \in Items,
           NEW d \in Items, NEW e \in Items, NEW f \in Items,
           \A n \in Nat :
             Steps(Current, a, Steps(Current, b, Steps(Current, c,
                     Steps(Current, d, Steps(Current, e, Steps(Current, f, n))))))
               < Steps(Current, item, n)
    PROVE  Lighter(<<a, b, c, d, e, f>>, item)
<1>1. <<a, b, c, d, e, f>> \in Seq(Items)
  BY SixItems
<1> QED
  BY <1>1, StayOfSix, StayIsNat DEF Lighter

(* A list in which a token is consumed.                                     *)
LEMMA StepsWhenConsumed ==
    ASSUME NEW token, NEW a \in Items, NEW b \in Items, NEW c \in Items, NEW d \in Items,
           NEW n \in Nat,
           \/ Consumes(token, a) \/ Consumes(token, b)
           \/ Consumes(token, c) \/ Consumes(token, d)
    PROVE  /\ Steps(token, a, Steps(token, b, Steps(token, c, Steps(token, d, n)))) \in Nat
           /\ Steps(token, a, Steps(token, b, Steps(token, c, Steps(token, d, n))))
                <= StepsAt(token, a) + StepsAt(token, b) + StepsAt(token, c) + StepsAt(token, d)
<1> DEFINE S(x) == StepsAt(token, x)
<1>1. S(a) \in Nat /\ S(b) \in Nat /\ S(c) \in Nat /\ S(d) \in Nat
  BY StepsArePositive
<1> HIDE DEF S
<1>2. PICK u \in Nat : /\ u = Steps(token, d, n) /\ u <= S(d) + n
                       /\ Consumes(token, d) => u = S(d)
  BY StepsAre DEF S
<1>3. PICK v \in Nat : /\ v = Steps(token, c, u) /\ v <= S(c) + u
                       /\ Consumes(token, c) => v = S(c)
  BY StepsAre DEF S
<1>4. PICK w \in Nat : /\ w = Steps(token, b, v) /\ w <= S(b) + v
                       /\ Consumes(token, b) => w = S(b)
  BY StepsAre DEF S
<1>5. PICK x \in Nat : /\ x = Steps(token, a, w) /\ x <= S(a) + w
                       /\ Consumes(token, a) => x = S(a)
  BY StepsAre DEF S
<1>6. x <= S(a) + S(b) + S(c) + S(d)
  BY <1>1, <1>2, <1>3, <1>4, <1>5
<1> QED
  BY <1>2, <1>3, <1>4, <1>5, <1>6 DEF S

(* The list of a loop: the item comes again, when a token is consumed.      *)
LEMMA LighterLoop ==
    ASSUME NEW item \in Items, NEW a \in Items, NEW b \in Items, NEW c \in Items,
           NEW d \in Items, ~Consumes(Current, item), StepsAt(Current, item) = 5,
           StepsAt(Current, a) = 1, StepsAt(Current, b) = 1,
           StepsAt(Current, c) = 1, StepsAt(Current, d) = 1,
           \/ Consumes(Current, a) \/ Consumes(Current, b)
           \/ Consumes(Current, c) \/ Consumes(Current, d)
    PROVE  Lighter(<<a, b, c, d, item>>, item)
<1> SUFFICES ASSUME NEW n \in Nat
             PROVE  Steps(Current, a, Steps(Current, b, Steps(Current, c, Steps(Current, d,
                        Steps(Current, item, n)))))
                      < Steps(Current, item, n)
  BY LighterFive
<1>1. PICK m \in Nat : m = Steps(Current, item, n) /\ m = 5 + n
  BY StepsAre
<1> DEFINE k == Steps(Current, a, Steps(Current, b,
        Steps(Current, c, Steps(Current, d, m))))
<1>2. /\ k \in Nat
      /\ k <= StepsAt(Current, a) + StepsAt(Current, b) + StepsAt(Current, c)
               + StepsAt(Current, d)
  BY StepsWhenConsumed
<1> HIDE DEF k
<1>3. k <= 4
  BY <1>2
<1>4. k < m
  BY <1>1, <1>2, <1>3
<1> QED
  BY <1>1, <1>4 DEF k

(* The list for the heading of a subprogram and its block.                   *)
LEMMA LighterHeading ==
    ASSUME NEW item \in Items, NEW a \in Items, NEW b \in Items, NEW c \in Items,
           NEW d \in Items, NEW e \in Items, NEW f \in Items,
           StepsAt(Current, a) = 1, StepsAt(Current, b) = 1, StepsAt(Current, c) = 1,
           StepsAt(Current, d) = 1, StepsAt(Current, e) = 8, StepsAt(Current, f) = 1,
           \/ Consumes(Current, a) /\ StepsAt(Current, item) = 2
           \/ ~Consumes(Current, item) /\ StepsAt(Current, item) = 14
    PROVE  Lighter(<<a, b, c, d, e, f>>, item)
<1> SUFFICES ASSUME NEW n \in Nat
             PROVE  Steps(Current, a, Steps(Current, b, Steps(Current, c, Steps(Current, d,
                        Steps(Current, e, Steps(Current, f, n))))))
                      < Steps(Current, item, n)
  BY LighterSix
<1>1. CASE Consumes(Current, a) /\ StepsAt(Current, item) = 2
  <2>1. \A x : Steps(Current, a, x) = 1
    BY <1>1 DEF Steps
  <2>2. 1 < Steps(Current, item, n)
    BY <1>1 DEF Steps
  <2> QED BY <2>1, <2>2
<1>2. CASE ~Consumes(Current, item) /\ StepsAt(Current, item) = 14
  <2>1. Steps(Current, item, n) = 14 + n
    BY <1>2, StepsAre
  <2>2. PICK u \in Nat : u = Steps(Current, f, n) /\ u <= 1 + n
    BY StepsAre
  <2>3. PICK v \in Nat : v = Steps(Current, e, u) /\ v <= 8 + u
    BY StepsAre
  <2>4. PICK w \in Nat : w = Steps(Current, d, v) /\ w <= 1 + v
    BY StepsAre
  <2>5. PICK x \in Nat : x = Steps(Current, c, w) /\ x <= 1 + w
    BY StepsAre
  <2>6. PICK y \in Nat : y = Steps(Current, b, x) /\ y <= 1 + x
    BY StepsAre
  <2>7. PICK z \in Nat : z = Steps(Current, a, y) /\ z <= 1 + y
    BY StepsAre
  <2>8. z < 14 + n
    BY <2>2, <2>3, <2>4, <2>5, <2>6, <2>7
  <2> QED BY <2>1, <2>2, <2>3, <2>4, <2>5, <2>6, <2>7, <2>8
<1> QED
  BY <1>1, <1>2

LEMMA TakesAreNearer ==
    ASSUME TypeOK, NEW items, Take(items), Current # "eof"
    PROVE  Nearer
<1>1. Advanced = index + 1 /\ index \in Nat /\ index' = Advanced
  BY AdvancedStays, AtEof DEF Take
<1> QED
  BY <1>1 DEF Nearer

LEMMA StayingIsNearer ==
    ASSUME TypeOK, work # <<>>, NEW items, Lighter(items, Head(work)),
           Leave(items), UNCHANGED index
    PROVE  Nearer
<1>1. /\ Head(work) \in Items /\ Tail(work) \in Seq(Items) /\ work \in Seq(Items)
      /\ work' = items \o Tail(work)
  BY HeadTailProperties DEF TypeOK, Leave
<1>2. Stay(Current, work) = Steps(Current, Head(work), Stay(Current, Tail(work)))
  BY <1>1, StayOfHead DEF Steps
<1>3. Stay(Current, items \o Tail(work)) < Steps(Current, Head(work), Stay(Current, Tail(work)))
        
  BY <1>1 DEF Lighter
<1> QED
  BY <1>1, <1>2, <1>3 DEF Nearer

LEMMA OthersAreNearer ==
    ASSUME TypeOK, work # <<>>, NEW items, Lighter(items, Head(work)),
           Continue(items) \/ Complain(items)
    PROVE  Nearer
  BY StayingIsNearer DEF Continue, Complain

LEMMA SkipsAreNearer ==
    ASSUME TypeOK, work # <<>>, NEW kinds, Skip(kinds) \/ ComplainAndSkip(kinds),
           Current \in kinds \cup {"eof"} => ~Consumes(Current, Head(work))
    PROVE  Nearer
<1>1. /\ Head(work) \in Items /\ Tail(work) \in Seq(Items) /\ work \in Seq(Items)
      /\ work' = <<>> \o Tail(work) /\ index' = SkipTo(kinds)
  BY HeadTailProperties DEF TypeOK, Skip, ComplainAndSkip, Leave
<1>2. index' >= index /\ (Current \notin kinds \cup {"eof"} => index' > index)
  BY <1>1, SkipToStops
<1>3. index \in Int /\ index' \in Int
  BY <1>1, AtEof, SkipToStops DEF TypeOK
<1>4. CASE Current \in kinds \cup {"eof"}
  <2>1. Stay(Current, work) = Steps(Current, Head(work), Stay(Current, Tail(work)))
    BY <1>1, StayOfHead DEF Steps
  <2>2. Stay(Current, work') < Stay(Current, work)
    BY <1>1, <1>4, <2>1, LighterNone DEF Lighter
  <2> QED BY <1>2, <1>3, <2>2 DEF Nearer
<1> QED
  BY <1>2, <1>4 DEF Nearer

LEMMA TakeIfsAreNearer ==
    ASSUME TypeOK, work # <<>>, NEW kinds, "eof" \notin kinds, NEW items,
           NEW others, TakeIf(kinds, items, others),
           Current \notin kinds => Lighter(others, Head(work))
    PROVE  Nearer
  BY TakesAreNearer, OthersAreNearer DEF TakeIf

LEMMA StopIfsAreNearer ==
    ASSUME TypeOK, work # <<>>, NEW kinds, NEW items, NEW others, StopIf(kinds, items, others),
           Current \in kinds => Lighter(items, Head(work)),
           Current \notin kinds => Lighter(others, Head(work))
    PROVE  Nearer
  BY OthersAreNearer DEF StopIf

LEMMA ExpectsAreNearer == ASSUME TypeOK, Expect PROVE Nearer
<1>1. /\ work # <<>> /\ Head(work) \in Kinds /\ Head(work) \in Items
      /\ Current = Head(work) => Take(<<>>)
      /\ Current # Head(work) => Complain(<<>>)
  BY DEF Expect, Items
<1>2. CASE Current = Head(work) /\ Current # "eof"
  BY <1>1, <1>2, TakesAreNearer
<1>3. CASE Current = Head(work) /\ Current = "eof"
  <2>1. /\ Advanced = index /\ Take(<<>>)
    BY <1>1, <1>3, AtEof DEF Advanced
  <2>2. Continue(<<>>)
    BY <2>1 DEF Take, Continue
  <2>3. Lighter(<<>>, Head(work))
    BY <1>1, <1>3, KindsConsume, LighterNone
  <2> QED BY <1>1, <2>2, <2>3, Nothing, OthersAreNearer
<1>4. CASE Current # Head(work)
  <2>1. Lighter(<<>>, Head(work))
    BY <1>1, <1>4, KindsConsume, LighterNone
  <2> QED BY <1>1, <1>4, <2>1, Nothing, OthersAreNearer
<1> QED
  BY <1>2, <1>3, <1>4

---------------------------------------------------------------------------
(* The parse functions.                                                     *)

LEMMA ExpressionsAreNearer == ASSUME TypeOK, Expressions PROVE Nearer
<1> USE DEF At
<1>1. CASE BuildNode
  <2>1. work # <<>> /\ Head(work) \in Nodes /\ Head(work) \in Items
        /\ Leave(<<>>) /\ UNCHANGED index
    BY <1>1 DEF BuildNode, Items
  <2>2. Lighter(<<>>, Head(work))
    BY <2>1, NodesDoNot, LighterNone
  <2> QED BY <2>1, <2>2, StayingIsNearer
<1>2. CASE ParseExpression
  <2>1. Lighter(<<"SimpleExpression", "Relation">>, "Expression")
    <3>1. /\ "Expression" \in Items /\ "SimpleExpression" \in Items
          /\ "Relation" \in Items
      BY Names
    <3>2. /\ StepsAt(Current, "Expression") = 7 /\ StepsAt(Current, "SimpleExpression") = 5
          /\ StepsAt(Current, "Relation") = 1 /\ ~Consumes(Current, "Expression")
      BY StepsOfItems, NotConsuming
    <3>3. \A n \in Nat :
           Steps(Current, "SimpleExpression", Steps(Current, "Relation", n))
             < Steps(Current, "Expression", n)
      BY <3>2 DEF Steps
    <3> QED BY <3>1, <3>3, LighterTwo
  <2> QED BY <1>2, <2>1, OthersAreNearer DEF ParseExpression
<1>3. CASE ParseRelation
  <2>1. Lighter(<<>>, "Relation")
    BY Names, NotConsuming, LighterNone
  <2> QED BY <1>3, <2>1, TakeIfsAreNearer, OthersAreNearer DEF ParseRelation
<1>4. CASE ParseSimpleExpression
  <2>1. Lighter(<<"Term", "MoreTerms">>, "SimpleExpression")
    <3>1. /\ "SimpleExpression" \in Items /\ "Term" \in Items
          /\ "MoreTerms" \in Items
      BY Names
    <3>2. /\ StepsAt(Current, "SimpleExpression") = 5 /\ StepsAt(Current, "Term") = 3
          /\ StepsAt(Current, "MoreTerms") = 1 /\ ~Consumes(Current, "SimpleExpression")
      BY StepsOfItems, NotConsuming
    <3>3. \A n \in Nat :
           Steps(Current, "Term", Steps(Current, "MoreTerms", n))
             < Steps(Current, "SimpleExpression", n)
      BY <3>2 DEF Steps
    <3> QED BY <3>1, <3>3, LighterTwo
  <2> QED BY <1>4, <2>1, OthersAreNearer DEF ParseSimpleExpression
<1>5. CASE ParseMoreTerms
  <2>1. Lighter(<<>>, "MoreTerms")
    BY Names, NotConsuming, LighterNone
  <2> QED BY <1>5, <2>1, TakeIfsAreNearer, OthersAreNearer DEF ParseMoreTerms
<1>6. CASE ParseTerm
  <2>1. Lighter(<<"Factor", "MoreFactors">>, "Term")
    <3>1. "Term" \in Items /\ "Factor" \in Items /\ "MoreFactors" \in Items
      BY Names
    <3>2. /\ StepsAt(Current, "Term") = 3 /\ StepsAt(Current, "Factor") = 1
          /\ StepsAt(Current, "MoreFactors") = 1 /\ ~Consumes(Current, "Term")
      BY StepsOfItems, NotConsuming
    <3>3. \A n \in Nat :
           Steps(Current, "Factor", Steps(Current, "MoreFactors", n))
             < Steps(Current, "Term", n)
      BY <3>2 DEF Steps
    <3> QED BY <3>1, <3>3, LighterTwo
  <2> QED BY <1>6, <2>1, OthersAreNearer DEF ParseTerm
<1>7. CASE ParseMoreFactors
  <2>1. Lighter(<<>>, "MoreFactors")
    BY Names, NotConsuming, LighterNone
  <2> QED BY <1>7, <2>1, TakeIfsAreNearer, OthersAreNearer DEF ParseMoreFactors
<1>8. CASE ParseFactor
  <2>1. Lighter(<<>>, "Factor")
    BY Names, NotConsuming, LighterNone
  <2> QED BY <1>8, <2>1, TakesAreNearer, StayingIsNearer DEF ParseFactor
<1>9. CASE ParseCallOrIdentifier
  <2>1. Lighter(<<"Identifier">>, "CallOrIdentifier")
    <3>1. "CallOrIdentifier" \in Items /\ "Identifier" \in Items
      BY Names
    <3>2. /\ StepsAt(Current, "CallOrIdentifier") = 2 /\ StepsAt(Current, "Identifier") = 1
          /\ ~Consumes(Current, "CallOrIdentifier")
      BY StepsOfItems, NotConsuming
    <3>3. \A n \in Nat : Steps(Current, "Identifier", n) < Steps(Current, "CallOrIdentifier", n)
            
      BY <3>2 DEF Steps
    <3> QED BY <3>1, <3>3, LighterOne
  <2> QED BY <1>9, <2>1, TakeIfsAreNearer DEF ParseCallOrIdentifier
<1>10. CASE ParseIndexes
  <2>1. Lighter(<<"Selects">>, "Indexes")
    <3>1. "Indexes" \in Items /\ "Selects" \in Items
      BY Names
    <3>2. /\ StepsAt(Current, "Indexes") = 2 /\ StepsAt(Current, "Selects") = 1
          /\ ~Consumes(Current, "Indexes")
      BY StepsOfItems, NotConsuming
    <3>3. \A n \in Nat : Steps(Current, "Selects", n) < Steps(Current, "Indexes", n)
      BY <3>2 DEF Steps
    <3> QED BY <3>1, <3>3, LighterOne
  <2> QED BY <1>10, <2>1, TakeIfsAreNearer DEF ParseIndexes
<1>11. CASE ParseSelects
  <2>1. Lighter(<<>>, "Selects")
    BY Names, NotConsuming, LighterNone
  <2> QED BY <1>11, <2>1, TakeIfsAreNearer DEF ParseSelects
<1>12. CASE ParseFieldName
  <2>1. Lighter(<<>>, "FieldName")
    BY Names, NotConsuming, LighterNone
  <2> QED BY <1>12, <2>1, TakesAreNearer, OthersAreNearer DEF ParseFieldName
<1>13. CASE ParseArgList
  <2>1. Lighter(<<>>, "ArgList")
    BY Names, NotConsuming, LighterNone
  <2>2. Lighter(<<"Expression", "MoreArgs">>, "ArgList")
    <3>1. "ArgList" \in Items /\ "Expression" \in Items /\ "MoreArgs" \in Items
      BY Names
    <3>2. /\ StepsAt(Current, "ArgList") = 9 /\ StepsAt(Current, "Expression") = 7
          /\ StepsAt(Current, "MoreArgs") = 1 /\ ~Consumes(Current, "ArgList")
      BY StepsOfItems, NotConsuming
    <3>3. \A n \in Nat :
           Steps(Current, "Expression", Steps(Current, "MoreArgs", n))
             < Steps(Current, "ArgList", n)
      BY <3>2 DEF Steps
    <3> QED BY <3>1, <3>3, LighterTwo
  <2> QED BY <1>13, <2>1, <2>2, StopIfsAreNearer DEF ParseArgList
<1>14. CASE ParseMoreArgs
  <2>1. Lighter(<<>>, "MoreArgs")
    BY Names, NotConsuming, LighterNone
  <2>2. ~Consumes(Current, "MoreArgs")
    BY NotConsuming
  <2> QED BY <1>14, <2>1, <2>2, TakeIfsAreNearer, SkipsAreNearer DEF ParseMoreArgs
<1> QED
  BY <1>1, <1>2, <1>3, <1>4, <1>5, <1>6, <1>7, <1>8, <1>9, <1>10, <1>11,
     <1>12, <1>13, <1>14 DEF Expressions

LEMMA DeclarationsAreNearer == ASSUME TypeOK, Declarations, ~StuckInRecord PROVE Nearer
<1> USE DEF At
<1>1. CASE ParseIdentList
  <2>1. Current # "id" => Lighter(<<>>, "IdentList")
    BY Names, Consuming, LighterNone
  <2> QED BY <1>1, <2>1, TakesAreNearer, OthersAreNearer DEF ParseIdentList
<1>2. CASE ParseMoreIdents
  <2>1. Lighter(<<>>, "MoreIdents")
    BY Names, NotConsuming, LighterNone
  <2> QED BY <1>2, <2>1, TakeIfsAreNearer DEF ParseMoreIdents
<1>3. CASE ParseTypeDenoter
  <2>1. Current \in DeclarationBoundary \cup {"eof"} => ~Consumes(Current, "TypeDenoter")
    BY Consuming
  <2> QED BY <1>3, <2>1, TakesAreNearer, SkipsAreNearer DEF ParseTypeDenoter
<1>4. CASE ParseFileOf
  <2>1. ~Consumes(Current, "FileOf")
    BY NotConsuming
  <2> QED BY <1>4, <2>1, TakesAreNearer, SkipsAreNearer DEF ParseFileOf
<1>5. CASE ParseFields
  <2>1. Lighter(<<"end">>, "Fields")
    <3>1. "Fields" \in Items /\ "end" \in Items
      BY Names
    <3>2. /\ StepsAt(Current, "Fields") = 5 /\ StepsAt(Current, "end") = 1
          /\ ~Consumes(Current, "Fields")
      BY StepsOfItems, NotConsuming
    <3>3. \A n \in Nat : Steps(Current, "end", n) < Steps(Current, "Fields", n)
      BY <3>2 DEF Steps
    <3> QED BY <3>1, <3>3, LighterOne
  <2>2. Current \notin {"end", "eof", "begin"} \cup Sections =>
           \/ Consumes(Current, "IdentList") \/ Consumes(Current, ":")
           \/ Consumes(Current, ";") \/ Consumes(Current, "TypeDenoter")
    BY Consuming, KindsConsume DEF Kinds, DeclarationBoundary
  <2>3. ASSUME \/ Consumes(Current, "IdentList") \/ Consumes(Current, ":")
              \/ Consumes(Current, ";") \/ Consumes(Current, "TypeDenoter")
       PROVE  Lighter(<<"IdentList", ":", "TypeDenoter", ";", "Fields">>, "Fields")
    <3>1. /\ "Fields" \in Items /\ "IdentList" \in Items /\ ":" \in Items
          /\ "TypeDenoter" \in Items /\ ";" \in Items
      BY Names
    <3>2. /\ StepsAt(Current, "Fields") = 5 /\ StepsAt(Current, "IdentList") = 1
          /\ StepsAt(Current, ":") = 1 /\ StepsAt(Current, "TypeDenoter") = 1
          /\ StepsAt(Current, ";") = 1 /\ ~Consumes(Current, "Fields")
      BY StepsOfItems, NotConsuming
    <3> QED BY <2>3, <3>1, <3>2, LighterLoop
  <2> QED BY <1>5, <2>1, <2>2, <2>3, StopIfsAreNearer DEF ParseFields, StuckInRecord
<1>6. CASE ParseConstSection
  <2>1. Lighter(<<>>, "ConstSection")
    BY Names, NotConsuming, LighterNone
  <2> QED BY <1>6, <2>1, TakeIfsAreNearer DEF ParseConstSection
<1>7. CASE ParseConstDecls
  <2>1. Lighter(<<>>, "ConstDecls")
    BY Names, NotConsuming, LighterNone
  <2> QED BY <1>7, <2>1, TakeIfsAreNearer DEF ParseConstDecls
<1>8. CASE ParseConstRecovery
  <2>1. Lighter(<<>>, "ConstRecovery")
    BY Names, NotConsuming, LighterNone
  <2>2. ~Consumes(Current, "ConstRecovery")
    BY NotConsuming
  <2> QED BY <1>8, <2>1, <2>2, OthersAreNearer, SkipsAreNearer DEF ParseConstRecovery
<1>9. CASE ParseTypeSection
  <2>1. Lighter(<<>>, "TypeSection")
    BY Names, NotConsuming, LighterNone
  <2> QED BY <1>9, <2>1, TakeIfsAreNearer DEF ParseTypeSection
<1>10. CASE ParseTypeDecls
  <2>1. Lighter(<<>>, "TypeDecls")
    BY Names, NotConsuming, LighterNone
  <2> QED BY <1>10, <2>1, TakeIfsAreNearer DEF ParseTypeDecls
<1>11. CASE ParseVarSection
  <2>1. Lighter(<<>>, "VarSection")
    BY Names, NotConsuming, LighterNone
  <2> QED BY <1>11, <2>1, TakeIfsAreNearer DEF ParseVarSection
<1>12. CASE ParseVarDecls
  <2>1. Current = "id" => Consumes(Current, "IdentList")
    BY Consuming
  <2>2. ASSUME Consumes(Current, "IdentList")
       PROVE  Lighter(<<"IdentList", ":", "TypeDenoter", ";", "VarDecls">>, "VarDecls")
    <3>1. /\ "VarDecls" \in Items /\ "IdentList" \in Items /\ ":" \in Items
          /\ "TypeDenoter" \in Items /\ ";" \in Items
      BY Names
    <3>2. /\ StepsAt(Current, "VarDecls") = 5 /\ StepsAt(Current, "IdentList") = 1
          /\ StepsAt(Current, ":") = 1 /\ StepsAt(Current, "TypeDenoter") = 1
          /\ StepsAt(Current, ";") = 1 /\ ~Consumes(Current, "VarDecls")
      BY StepsOfItems, NotConsuming
    <3> QED BY <2>2, <3>1, <3>2, LighterLoop
  <2>3. Lighter(<<>>, "VarDecls")
    BY Names, NotConsuming, LighterNone
  <2> QED BY <1>12, <2>1, <2>2, <2>3, StopIfsAreNearer DEF ParseVarDecls
<1>13. CASE ParseParamList
  <2>1. Lighter(<<>>, "ParamList")
    BY Names, NotConsuming, LighterNone
  <2> QED BY <1>13, <2>1, TakeIfsAreNearer DEF ParseParamList
<1>14. CASE ParseParams
  <2>1. Lighter(<<"Param">>, "Params")
    <3>1. "Params" \in Items /\ "Param" \in Items
      BY Names
    <3>2. /\ StepsAt(Current, "Params") = 7 /\ StepsAt(Current, "Param") = 6
          /\ ~Consumes(Current, "Params")
      BY StepsOfItems, NotConsuming
    <3>3. \A n \in Nat : Steps(Current, "Param", n) < Steps(Current, "Params", n)
      BY <3>2 DEF Steps
    <3> QED BY <3>1, <3>3, LighterOne
  <2> QED BY <1>14, <2>1, TakeIfsAreNearer DEF ParseParams
<1>15. CASE ParseParam
  <2>1. Lighter(<<"IdentList", ":", "TypeDenoter", "MoreParams">>, "Param")
    <3>1. /\ "Param" \in Items /\ "IdentList" \in Items /\ ":" \in Items
          /\ "TypeDenoter" \in Items /\ "MoreParams" \in Items
      BY Names
    <3>2. /\ StepsAt(Current, "Param") = 6 /\ StepsAt(Current, "IdentList") = 1
          /\ StepsAt(Current, ":") = 1 /\ StepsAt(Current, "TypeDenoter") = 1
          /\ StepsAt(Current, "MoreParams") = 2 /\ ~Consumes(Current, "Param")
      BY StepsOfItems, NotConsuming
    <3>3. \A n \in Nat :
           Steps(Current, "IdentList", Steps(Current, ":",
              Steps(Current, "TypeDenoter", Steps(Current, "MoreParams", n))))
             < Steps(Current, "Param", n)
      BY <3>2 DEF Steps
    <3> QED BY <3>1, <3>3, LighterFour
  <2> QED BY <1>15, <2>1, TakeIfsAreNearer DEF ParseParam
<1>16. CASE ParseMoreParams
  <2>1. Lighter(<<")">>, "MoreParams")
    <3>1. "MoreParams" \in Items /\ ")" \in Items
      BY Names
    <3>2. /\ StepsAt(Current, "MoreParams") = 2 /\ StepsAt(Current, ")") = 1
          /\ ~Consumes(Current, "MoreParams")
      BY StepsOfItems, NotConsuming
    <3>3. \A n \in Nat : Steps(Current, ")", n) < Steps(Current, "MoreParams", n)
      BY <3>2 DEF Steps
    <3> QED BY <3>1, <3>3, LighterOne
  <2> QED BY <1>16, <2>1, TakeIfsAreNearer DEF ParseMoreParams
<1>17. CASE ParseSubprograms
  <2>1. Current \in {"procedure", "function"} =>
           Consumes(Current, "Subprogram") /\ StepsAt(Current, "Subprogram") = 2
    BY Consuming, StepsOfSubprogram
  <2>2. ASSUME Consumes(Current, "Subprogram") /\ StepsAt(Current, "Subprogram") = 2
       PROVE  Lighter(<<"Subprogram", "Subprograms">>, "Subprograms")
    <3>1. "Subprograms" \in Items /\ "Subprogram" \in Items
      BY Names
    <3>2. StepsAt(Current, "Subprograms") = 3 /\ ~Consumes(Current, "Subprograms")
      BY StepsOfItems, NotConsuming
    <3>3. \A n \in Nat :
           Steps(Current, "Subprogram", Steps(Current, "Subprograms", n))
             < Steps(Current, "Subprograms", n)
      BY <2>2, <3>2 DEF Steps
    <3> QED BY <3>1, <3>3, LighterTwo
  <2>3. Lighter(<<>>, "Subprograms")
    BY Names, NotConsuming, LighterNone
  <2> QED BY <1>17, <2>1, <2>2, <2>3, StopIfsAreNearer DEF ParseSubprograms
<1>18. CASE ParseSubprogram
  <2>1. ASSUME Current # "function"
       PROVE  Lighter(<<"procedure", "id", "ParamList", ";", "Block", ";">>, "Subprogram")
    <3>1. /\ "Subprogram" \in Items /\ "procedure" \in Items /\ "id" \in Items
          /\ "ParamList" \in Items /\ ";" \in Items /\ "Block" \in Items
      BY Names
    <3>2. /\ StepsAt(Current, "procedure") = 1 /\ StepsAt(Current, "id") = 1
          /\ StepsAt(Current, "ParamList") = 1 /\ StepsAt(Current, ";") = 1
          /\ StepsAt(Current, "Block") = 8
      BY StepsOfItems
    <3>3. \/ Consumes(Current, "procedure") /\ StepsAt(Current, "Subprogram") = 2
          \/ ~Consumes(Current, "Subprogram") /\ StepsAt(Current, "Subprogram") = 14
      BY <2>1, Consuming, KindsConsume, StepsOfSubprogram DEF Kinds
    <3> QED BY <3>1, <3>2, <3>3, LighterHeading
  <2> QED BY <1>18, <2>1, TakeIfsAreNearer DEF ParseSubprogram
<1>19. CASE ParseBlock
  <2>1. Lighter(<<"ConstSection", "TypeSection", "VarSection", "Subprograms",
                  "CompoundStmt">>, "Block")
    <3>1. /\ "Block" \in Items /\ "ConstSection" \in Items
          /\ "TypeSection" \in Items /\ "VarSection" \in Items
          /\ "Subprograms" \in Items /\ "CompoundStmt" \in Items
      BY Names
    <3>2. /\ StepsAt(Current, "Block") = 8 /\ StepsAt(Current, "ConstSection") = 1
          /\ StepsAt(Current, "TypeSection") = 1 /\ StepsAt(Current, "VarSection") = 1
          /\ StepsAt(Current, "Subprograms") = 3 /\ StepsAt(Current, "CompoundStmt") = 1
          /\ ~Consumes(Current, "Block")
      BY StepsOfItems, NotConsuming
    <3>3. \A n \in Nat :
           Steps(Current, "ConstSection", Steps(Current, "TypeSection",
              Steps(Current, "VarSection",
                      Steps(Current, "Subprograms", Steps(Current, "CompoundStmt", n)))))
             < Steps(Current, "Block", n)
      BY <3>2 DEF Steps
    <3> QED BY <3>1, <3>3, LighterFive
  <2> QED BY <1>19, <2>1, OthersAreNearer DEF ParseBlock
<1>20. CASE ParseProgram
  <2>1. Lighter(<<>>, "Program")
    BY Names, NotConsuming, LighterNone
  <2> QED BY <1>20, <2>1, TakesAreNearer, OthersAreNearer DEF ParseProgram
<1> QED
  BY <1>1, <1>2, <1>3, <1>4, <1>5, <1>6, <1>7, <1>8, <1>9, <1>10, <1>11,
     <1>12, <1>13, <1>14, <1>15, <1>16, <1>17, <1>18, <1>19, <1>20 DEF Declarations

LEMMA StatementsAreNearer == ASSUME TypeOK, Statements PROVE Nearer
<1> USE DEF At
<1>1. CASE ParseCompoundStmt
  <2>1. Current # "begin" => Lighter(<<>>, "CompoundStmt")
    BY Names, Consuming, LighterNone
  <2> QED BY <1>1, <2>1, TakesAreNearer, OthersAreNearer DEF ParseCompoundStmt
<1>2. CASE ParseStatements
  <2>1. Lighter(<<"end">>, "Statements")
    <3>1. "Statements" \in Items /\ "end" \in Items
      BY Names
    <3>2. /\ StepsAt(Current, "Statements") = 5 /\ StepsAt(Current, "end") = 1
          /\ ~Consumes(Current, "Statements")
      BY StepsOfItems, NotConsuming
    <3>3. \A n \in Nat : Steps(Current, "end", n) < Steps(Current, "Statements", n)
      BY <3>2 DEF Steps
    <3> QED BY <3>1, <3>3, LighterOne
  <2>2. Lighter(<<"Statement", "MoreStatements">>, "Statements")
    <3>1. /\ "Statements" \in Items /\ "Statement" \in Items
          /\ "MoreStatements" \in Items
      BY Names
    <3>2. /\ StepsAt(Current, "Statements") = 5 /\ StepsAt(Current, "Statement") = 2
          /\ StepsAt(Current, "MoreStatements") = 2 /\ ~Consumes(Current, "Statements")
      BY StepsOfItems, NotConsuming
    <3>3. \A n \in Nat :
           Steps(Current, "Statement", Steps(Current, "MoreStatements", n))
             < Steps(Current, "Statements", n)
      BY <3>2 DEF Steps
    <3> QED BY <3>1, <3>3, LighterTwo
  <2> QED BY <1>2, <2>1, <2>2, StopIfsAreNearer DEF ParseStatements
<1>3. CASE ParseMoreStatements
  <2>1. Lighter(<<"end">>, "MoreStatements")
    <3>1. "MoreStatements" \in Items /\ "end" \in Items
      BY Names
    <3>2. /\ StepsAt(Current, "MoreStatements") = 2 /\ StepsAt(Current, "end") = 1
          /\ ~Consumes(Current, "MoreStatements")
      BY StepsOfItems, NotConsuming
    <3>3. \A n \in Nat : Steps(Current, "end", n) < Steps(Current, "MoreStatements", n)
      BY <3>2 DEF Steps
    <3> QED BY <3>1, <3>3, LighterOne
  <2> QED BY <1>3, <2>1, TakeIfsAreNearer DEF ParseMoreStatements
<1>4. CASE ParseNextStatement
  <2>1. Lighter(<<"end">>, "NextStatement")
    <3>1. "NextStatement" \in Items /\ "end" \in Items
      BY Names
    <3>2. /\ StepsAt(Current, "NextStatement") = 5 /\ StepsAt(Current, "end") = 1
          /\ ~Consumes(Current, "NextStatement")
      BY StepsOfItems, NotConsuming
    <3>3. \A n \in Nat : Steps(Current, "end", n) < Steps(Current, "NextStatement", n)
      BY <3>2 DEF Steps
    <3> QED BY <3>1, <3>3, LighterOne
  <2>2. Lighter(<<"Statement", "MoreStatements">>, "NextStatement")
    <3>1. /\ "NextStatement" \in Items /\ "Statement" \in Items
          /\ "MoreStatements" \in Items
      BY Names
    <3>2. /\ StepsAt(Current, "NextStatement") = 5 /\ StepsAt(Current, "Statement") = 2
          /\ StepsAt(Current, "MoreStatements") = 2 /\ ~Consumes(Current, "NextStatement")
      BY StepsOfItems, NotConsuming
    <3>3. \A n \in Nat :
           Steps(Current, "Statement", Steps(Current, "MoreStatements", n))
             < Steps(Current, "NextStatement", n)
      BY <3>2 DEF Steps
    <3> QED BY <3>1, <3>3, LighterTwo
  <2> QED BY <1>4, <2>1, <2>2, StopIfsAreNearer DEF ParseNextStatement
<1>5. CASE ParseStatement
  <2>1. Current = "begin" => Consumes(Current, "CompoundStmt")
    BY Consuming
  <2>2. ASSUME Consumes(Current, "CompoundStmt")
       PROVE  Lighter(<<"CompoundStmt">>, "Statement")
    <3>1. "Statement" \in Items /\ "CompoundStmt" \in Items
      BY Names
    <3>2. StepsAt(Current, "Statement") = 2 /\ StepsAt(Current, "CompoundStmt") = 1
      BY StepsOfItems
    <3>3. \A n \in Nat : Steps(Current, "CompoundStmt", n) < Steps(Current, "Statement", n)
      BY <2>2, <3>2 DEF Steps
    <3> QED BY <3>1, <3>3, LighterOne
  <2>3. Current \in StatementBoundary \cup {"eof"} => ~Consumes(Current, "Statement")
    BY Consuming
  <2> QED BY <1>5, <2>1, <2>2, <2>3, OthersAreNearer, TakesAreNearer, SkipsAreNearer DEF
         ParseStatement
<1>6. CASE ParseElsePart
  <2>1. Lighter(<<>>, "ElsePart")
    BY Names, NotConsuming, LighterNone
  <2> QED BY <1>6, <2>1, TakeIfsAreNearer DEF ParseElsePart
<1>7. CASE ParseDirection
  <2>1. Lighter(<<"to">>, "Direction")
    <3>1. "Direction" \in Items /\ "to" \in Items
      BY Names
    <3>2. /\ StepsAt(Current, "Direction") = 2 /\ StepsAt(Current, "to") = 1
          /\ ~Consumes(Current, "Direction")
      BY StepsOfItems, NotConsuming
    <3>3. \A n \in Nat : Steps(Current, "to", n) < Steps(Current, "Direction", n)
      BY <3>2 DEF Steps
    <3> QED BY <3>1, <3>3, LighterOne
  <2> QED BY <1>7, <2>1, TakeIfsAreNearer DEF ParseDirection
<1>8. CASE ParseRepeatBody
  <2>1. Lighter(<<"until", "Expression">>, "RepeatBody")
    <3>1. "RepeatBody" \in Items /\ "until" \in Items /\ "Expression" \in Items
      BY Names
    <3>2. /\ StepsAt(Current, "RepeatBody") = 12 /\ StepsAt(Current, "until") = 1
          /\ StepsAt(Current, "Expression") = 7 /\ ~Consumes(Current, "RepeatBody")
      BY StepsOfItems, NotConsuming
    <3>3. \A n \in Nat :
           Steps(Current, "until", Steps(Current, "Expression", n))
             < Steps(Current, "RepeatBody", n)
      BY <3>2 DEF Steps
    <3> QED BY <3>1, <3>3, LighterTwo
  <2>2. Lighter(<<"Statement", "MoreRepeated">>, "RepeatBody")
    <3>1. /\ "RepeatBody" \in Items /\ "Statement" \in Items
          /\ "MoreRepeated" \in Items
      BY Names
    <3>2. /\ StepsAt(Current, "RepeatBody") = 12 /\ StepsAt(Current, "Statement") = 2
          /\ StepsAt(Current, "MoreRepeated") = 9 /\ ~Consumes(Current, "RepeatBody")
      BY StepsOfItems, NotConsuming
    <3>3. \A n \in Nat :
           Steps(Current, "Statement", Steps(Current, "MoreRepeated", n))
             < Steps(Current, "RepeatBody", n)
      BY <3>2 DEF Steps
    <3> QED BY <3>1, <3>3, LighterTwo
  <2> QED BY <1>8, <2>1, <2>2, StopIfsAreNearer DEF ParseRepeatBody
<1>9. CASE ParseMoreRepeated
  <2>1. Lighter(<<"until", "Expression">>, "MoreRepeated")
    <3>1. /\ "MoreRepeated" \in Items /\ "until" \in Items
          /\ "Expression" \in Items
      BY Names
    <3>2. /\ StepsAt(Current, "MoreRepeated") = 9 /\ StepsAt(Current, "until") = 1
          /\ StepsAt(Current, "Expression") = 7 /\ ~Consumes(Current, "MoreRepeated")
      BY StepsOfItems, NotConsuming
    <3>3. \A n \in Nat :
           Steps(Current, "until", Steps(Current, "Expression", n))
             < Steps(Current, "MoreRepeated", n)
      BY <3>2 DEF Steps
    <3> QED BY <3>1, <3>3, LighterTwo
  <2> QED BY <1>9, <2>1, TakeIfsAreNearer DEF ParseMoreRepeated
<1>10. CASE ParseNextRepeated
  <2>1. Lighter(<<"until", "Expression">>, "NextRepeated")
    <3>1. /\ "NextRepeated" \in Items /\ "until" \in Items
          /\ "Expression" \in Items
      BY Names
    <3>2. /\ StepsAt(Current, "NextRepeated") = 12 /\ StepsAt(Current, "until") = 1
          /\ StepsAt(Current, "Expression") = 7 /\ ~Consumes(Current, "NextRepeated")
      BY StepsOfItems, NotConsuming
    <3>3. \A n \in Nat :
           Steps(Current, "until", Steps(Current, "Expression", n))
             < Steps(Current, "NextRepeated", n)
      BY <3>2 DEF Steps
    <3> QED BY <3>1, <3>3, LighterTwo
  <2>2. Lighter(<<"Statement", "MoreRepeated">>, "NextRepeated")
    <3>1. /\ "NextRepeated" \in Items /\ "Statement" \in Items
          /\ "MoreRepeated" \in Items
      BY Names
    <3>2. /\ StepsAt(Current, "NextRepeated") = 12 /\ StepsAt(Current, "Statement") = 2
          /\ StepsAt(Current, "MoreRepeated") = 9 /\ ~Consumes(Current, "NextRepeated")
      BY StepsOfItems, NotConsuming
    <3>3. \A n \in Nat :
           Steps(Current, "Statement", Steps(Current, "MoreRepeated", n))
             < Steps(Current, "NextRepeated", n)
      BY <3>2 DEF Steps
    <3> QED BY <3>1, <3>3, LighterTwo
  <2> QED BY <1>10, <2>1, <2>2, StopIfsAreNearer DEF ParseNextRepeated
<1>11. CASE ParseCaseArms
  <2>1. Lighter(<<"CaseElse">>, "CaseArms")
    <3>1. "CaseArms" \in Items /\ "CaseElse" \in Items
      BY Names
    <3>2. /\ StepsAt(Current, "CaseArms") = 16 /\ StepsAt(Current, "CaseElse") = 2
          /\ ~Consumes(Current, "CaseArms")
      BY StepsOfItems, NotConsuming
    <3>3. \A n \in Nat : Steps(Current, "CaseElse", n) < Steps(Current, "CaseArms", n)
      BY <3>2 DEF Steps
    <3> QED BY <3>1, <3>3, LighterOne
  <2>2. Current \notin AfterArms =>
           \/ Consumes(Current, "CaseArm")
           \/ StepsAt(Current, "MoreArms") = 1
    BY Consuming, StepsOfArms DEF AfterArms, StatementBoundary
  <2>3. ASSUME \/ Consumes(Current, "CaseArm")
              \/ StepsAt(Current, "MoreArms") = 1
       PROVE  Lighter(<<"CaseArm", "MoreArms">>, "CaseArms")
    <3>1. "CaseArms" \in Items /\ "CaseArm" \in Items /\ "MoreArms" \in Items
      BY Names
    <3>2. /\ StepsAt(Current, "CaseArms") = 16 /\ StepsAt(Current, "CaseArm") = 14
          /\ ~Consumes(Current, "CaseArms")
      BY StepsOfItems, NotConsuming
    <3>3. \A n \in Nat :
           Steps(Current, "CaseArm", Steps(Current, "MoreArms", n))
             < Steps(Current, "CaseArms", n)
      BY <2>3, <3>2 DEF Steps
    <3> QED BY <3>1, <3>3, LighterTwo
  <2> QED BY <1>11, <2>1, <2>2, <2>3, OthersAreNearer DEF ParseCaseArms, AfterArms
<1>12. CASE ParseCaseArm
  <2>1. Lighter(<<"CaseLabel", "MoreLabels", ":", "Statement">>, "CaseArm")
    <3>1. /\ "CaseArm" \in Items /\ "CaseLabel" \in Items /\ "MoreLabels" \in Items
          /\ ":" \in Items /\ "Statement" \in Items
      BY Names
    <3>2. /\ StepsAt(Current, "CaseArm") = 14 /\ StepsAt(Current, "CaseLabel") = 9
          /\ StepsAt(Current, "MoreLabels") = 1 /\ StepsAt(Current, ":") = 1
          /\ StepsAt(Current, "Statement") = 2
      BY StepsOfItems
    <3>3. Consumes(Current, "CaseArm") <=> Consumes(Current, "Statement")
      BY Consuming
    <3>4. \A n \in Nat :
           Steps(Current, "CaseLabel", Steps(Current, "MoreLabels",
              Steps(Current, ":", Steps(Current, "Statement", n))))
             < Steps(Current, "CaseArm", n)
      BY <3>2, <3>3 DEF Steps
    <3> QED BY <3>1, <3>4, LighterFour
  <2> QED BY <1>12, <2>1, OthersAreNearer DEF ParseCaseArm
<1>13. CASE ParseCaseLabel
  <2>1. Lighter(<<"Expression", "UpperLabel">>, "CaseLabel")
    <3>1. /\ "CaseLabel" \in Items /\ "Expression" \in Items
          /\ "UpperLabel" \in Items
      BY Names
    <3>2. /\ StepsAt(Current, "CaseLabel") = 9 /\ StepsAt(Current, "Expression") = 7
          /\ StepsAt(Current, "UpperLabel") = 1 /\ ~Consumes(Current, "CaseLabel")
      BY StepsOfItems, NotConsuming
    <3>3. \A n \in Nat :
           Steps(Current, "Expression", Steps(Current, "UpperLabel", n))
             < Steps(Current, "CaseLabel", n)
      BY <3>2 DEF Steps
    <3> QED BY <3>1, <3>3, LighterTwo
  <2> QED BY <1>13, <2>1, OthersAreNearer DEF ParseCaseLabel
<1>14. CASE ParseUpperLabel
  <2>1. Lighter(<<>>, "UpperLabel")
    BY Names, NotConsuming, LighterNone
  <2> QED BY <1>14, <2>1, TakeIfsAreNearer DEF ParseUpperLabel
<1>15. CASE ParseMoreLabels
  <2>1. Lighter(<<>>, "MoreLabels")
    BY Names, NotConsuming, LighterNone
  <2> QED BY <1>15, <2>1, TakeIfsAreNearer DEF ParseMoreLabels
<1>16. CASE ParseMoreArms
  <2>1. Current # ";" => StepsAt(Current, "MoreArms") = 17
    BY StepsOfArms
  <2>2. ASSUME StepsAt(Current, "MoreArms") = 17
       PROVE  Lighter(<<"NextArm">>, "MoreArms")
    <3>1. "MoreArms" \in Items /\ "NextArm" \in Items
      BY Names
    <3>2. StepsAt(Current, "NextArm") = 16 /\ ~Consumes(Current, "MoreArms")
      BY StepsOfItems, NotConsuming
    <3>3. \A n \in Nat : Steps(Current, "NextArm", n) < Steps(Current, "MoreArms", n)
      BY <2>2, <3>2 DEF Steps
    <3> QED BY <3>1, <3>3, LighterOne
  <2> QED BY <1>16, <2>1, <2>2, TakeIfsAreNearer DEF ParseMoreArms
<1>17. CASE ParseNextArm
  <2>1. Lighter(<<"CaseElse">>, "NextArm")
    <3>1. "NextArm" \in Items /\ "CaseElse" \in Items
      BY Names
    <3>2. /\ StepsAt(Current, "NextArm") = 16 /\ StepsAt(Current, "CaseElse") = 2
          /\ ~Consumes(Current, "NextArm")
      BY StepsOfItems, NotConsuming
    <3>3. \A n \in Nat : Steps(Current, "CaseElse", n) < Steps(Current, "NextArm", n)
      BY <3>2 DEF Steps
    <3> QED BY <3>1, <3>3, LighterOne
  <2>2. Current \notin AfterArms =>
           \/ Consumes(Current, "CaseArm")
           \/ StepsAt(Current, "MoreArms") = 1
    BY Consuming, StepsOfArms DEF AfterArms, StatementBoundary
  <2>3. ASSUME \/ Consumes(Current, "CaseArm")
              \/ StepsAt(Current, "MoreArms") = 1
       PROVE  Lighter(<<"CaseArm", "MoreArms">>, "NextArm")
    <3>1. "NextArm" \in Items /\ "CaseArm" \in Items /\ "MoreArms" \in Items
      BY Names
    <3>2. /\ StepsAt(Current, "NextArm") = 16 /\ StepsAt(Current, "CaseArm") = 14
          /\ ~Consumes(Current, "NextArm")
      BY StepsOfItems, NotConsuming
    <3>3. \A n \in Nat :
           Steps(Current, "CaseArm", Steps(Current, "MoreArms", n))
             < Steps(Current, "NextArm", n)
      BY <2>3, <3>2 DEF Steps
    <3> QED BY <3>1, <3>3, LighterTwo
  <2> QED BY <1>17, <2>1, <2>2, <2>3, StopIfsAreNearer DEF ParseNextArm, AfterArms
<1>18. CASE ParseCaseElse
  <2>1. Lighter(<<"end">>, "CaseElse")
    <3>1. "CaseElse" \in Items /\ "end" \in Items
      BY Names
    <3>2. /\ StepsAt(Current, "CaseElse") = 2 /\ StepsAt(Current, "end") = 1
          /\ ~Consumes(Current, "CaseElse")
      BY StepsOfItems, NotConsuming
    <3>3. \A n \in Nat : Steps(Current, "end", n) < Steps(Current, "CaseElse", n)
      BY <3>2 DEF Steps
    <3> QED BY <3>1, <3>3, LighterOne
  <2> QED BY <1>18, <2>1, TakeIfsAreNearer DEF ParseCaseElse
<1>19. CASE ParseAfterName
  <2>1. Lighter(<<>>, "AfterName")
    BY Names, NotConsuming, LighterNone
  <2> QED BY <1>19, <2>1, TakesAreNearer, OthersAreNearer DEF ParseAfterName
<1>20. CASE ParseTargetField
  <2>1. ~Consumes(Current, "TargetField")
    BY NotConsuming
  <2> QED BY <1>20, <2>1, TakesAreNearer, SkipsAreNearer DEF ParseTargetField
<1>21. CASE ParseTargetIndex
  <2>1. Lighter(<<>>, "TargetIndex")
    BY Names, NotConsuming, LighterNone
  <2> QED BY <1>21, <2>1, TakeIfsAreNearer DEF ParseTargetIndex
<1>22. CASE ParseTarget
  <2>1. ~Consumes(Current, "Target")
    BY NotConsuming
  <2> QED BY <1>22, <2>1, TakesAreNearer, SkipsAreNearer DEF ParseTarget
<1>23. CASE ParseAssignRecovery
  <2>1. Lighter(<<>>, "AssignRecovery")
    BY Names, NotConsuming, LighterNone
  <2>2. ~Consumes(Current, "AssignRecovery")
    BY NotConsuming
  <2> QED BY <1>23, <2>1, <2>2, OthersAreNearer, SkipsAreNearer DEF ParseAssignRecovery
<1> QED
  BY <1>1, <1>2, <1>3, <1>4, <1>5, <1>6, <1>7, <1>8, <1>9, <1>10, <1>11,
     <1>12, <1>13, <1>14, <1>15, <1>16, <1>17, <1>18, <1>19, <1>20, <1>21, <1>22,
     <1>23 DEF Statements


LEMMA NextIsNearer == ASSUME TypeOK, Next, ~StuckInRecord PROVE Nearer
  BY ExpectsAreNearer, ExpressionsAreNearer, DeclarationsAreNearer, StatementsAreNearer DEF Next

(* Whatever the tokens are, every step of the parser consumes one or brings  *)
(* the next consumption nearer, outside the loop over the fields of a record *)
(* at a keyword at which recovery stops: no other loop of a parse function   *)
(* goes round in place after syncStatement or syncDeclaration.               *)
THEOREM StepsAreNearer == Spec => EveryStepIsNearer
<1>1. TypeOK /\ [Next]_vars => [~StuckInRecord => Nearer]_vars
  BY NextIsNearer
<1> QED
  BY <1>1, ParserTypes, PTL DEF Spec, EveryStepIsNearer

===============================================================================
