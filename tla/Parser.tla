-------------------------------- MODULE Parser --------------------------------
(***************************************************************************)
(* parse (src/pascal/parser/Parser.cpp) on its TokenCursor: a              *)
(* recursive-descent parser as a machine with a stack.                     *)
(*                                                                         *)
(* work is what the active calls of the parser still have to do, the       *)
(* innermost first.  An item is the name of a parse function or of the     *)
(* rest of one ("Statement", "ElsePart"), a kind of token, which means     *)
(* expect, or a node of the tree to be built.  Each action is one parse    *)
(* function from its beginning or from a place it returns to.              *)
(*                                                                         *)
(* One kind of token stands for all that the parser treats alike: "num"    *)
(* for literals, "+", "*" and "=" for the operators of a level.            *)
(***************************************************************************)
EXTENDS Integers, Sequences

CONSTANT Streams    \* token streams, each ending in its only "eof"

ASSUME ParserAssumption ==
    \A s \in Streams : /\ s \in Seq(STRING)
                       /\ s # <<>>
                       /\ \A k \in DOMAIN s : s[k] = "eof" <=> k = Len(s)

VARIABLES stream,      \* TokenCursor::stream_
          index,       \* TokenCursor::index_
          work,        \* the active calls
          parsed,      \* whether the last expression was one (not nullptr)
          nodes,       \* the expression nodes built, operands first
          firstError   \* where the first error was reported, 0 if nowhere

vars == <<stream, index, work, parsed, nodes, firstError>>

---------------------------------------------------------------------------
(* The cursor                                                              *)

Current == stream[index]
AdvancedPastEnd == index + 1                           \* Mutant of Advanced: not held at eof
Advanced == IF index < Len(stream) THEN index + 1 ELSE index
SkippedNothing(kinds) == index                         \* Mutant of SkipTo: does not advance
SkipTo(kinds) ==
    CHOOSE k \in index..Len(stream) :
        /\ stream[k] \in kinds \cup {"eof"}
        /\ \A j \in index..k - 1 : stream[j] \notin kinds

Sections == {"const", "type", "var", "procedure", "function"}
StatementBoundary == {";", "end"}
DeclarationBoundary == {";", "begin"} \cup Sections

---------------------------------------------------------------------------
(* What a parse function does with the item it was called for: each of      *)
(* these replaces the item by what is left to do.                           *)

At(item) == work # <<>> /\ Head(work) = item
Leave(items) == work' = items \o Tail(work) /\ UNCHANGED stream
Quietly == UNCHANGED <<parsed, nodes, firstError>>

(* match or advance: the current token is consumed.                         *)
Take(items) == Leave(items) /\ index' = Advanced /\ Quietly

(* On without consuming a token.                                            *)
Continue(items) == Leave(items) /\ UNCHANGED index /\ Quietly

Complaint == firstError' = IF firstError = 0 THEN index ELSE firstError
Complain(items) == Leave(items) /\ Complaint /\ UNCHANGED <<index, parsed, nodes>>
ComplainAndSkip(kinds) ==
    Leave(<<>>) /\ Complaint /\ index' = SkipTo(kinds) /\ UNCHANGED <<parsed, nodes>>
Skip(kinds) == Leave(<<>>) /\ index' = SkipTo(kinds) /\ Quietly

TakeIf(kinds, items, others) ==
    IF Current \in kinds THEN Take(items) ELSE Continue(others)
StopIf(kinds, items, others) ==
    Continue(IF Current \in kinds THEN items ELSE others)

---------------------------------------------------------------------------
(* expect                                                                  *)

Kinds == {"program", "id", "num", ";", ".", ":", ",", "=", ":=", "(", ")", "[", "]", "..",
          "begin", "end", "of", "then", "do", "to", "until", "procedure", "eof"}

Expect ==
    /\ work # <<>> /\ Head(work) \in Kinds
    /\ IF Current = Head(work) THEN Take(<<>>) ELSE Complain(<<>>)

---------------------------------------------------------------------------
(* Expressions                                                             *)

Nodes == {"Literal", "Identifier", "Call", "Group", "Index", "Select",
          "Not", "UnaryPlus", "Star", "Plus", "Equal"}

BuildNode ==
    /\ work # <<>> /\ Head(work) \in Nodes
    /\ nodes' = Append(nodes, Head(work))
    /\ parsed' = TRUE
    /\ Leave(<<>>) /\ UNCHANGED <<index, firstError>>

ParseExpression == At("Expression") /\ Continue(<<"SimpleExpression", "Relation">>)
ParseRelation ==
    /\ At("Relation")
    /\ IF parsed THEN TakeIf({"="}, <<"SimpleExpression", "Equal">>, <<>>) ELSE Continue(<<>>)

ParseSimpleExpression == At("SimpleExpression") /\ Continue(<<"Term", "MoreTerms">>)
(* Mutant of ParseMoreTerms: the right operand is a whole simple expression.*)
ParseTermsToTheRight ==
    /\ At("MoreTerms")
    /\ IF parsed THEN TakeIf({"+"}, <<"SimpleExpression", "Plus">>, <<>>) ELSE Continue(<<>>)
ParseMoreTerms ==
    /\ At("MoreTerms")
    /\ IF parsed THEN TakeIf({"+"}, <<"Term", "Plus", "MoreTerms">>, <<>>) ELSE Continue(<<>>)

ParseTerm == At("Term") /\ Continue(<<"Factor", "MoreFactors">>)
ParseMoreFactors ==
    /\ At("MoreFactors")
    /\ IF parsed THEN TakeIf({"*"}, <<"Factor", "Star", "MoreFactors">>, <<>>) ELSE Continue(<<>>)

ParseFactor ==
    /\ At("Factor")
    /\ \/ Current = "not" /\ Take(<<"Factor", "Not">>)
       \/ Current = "+" /\ Take(<<"Factor", "UnaryPlus">>)
       \/ Current = "(" /\ Take(<<"Expression", ")", "Group", "Indexes">>)
       \/ Current = "num" /\ Take(<<"Literal", "Indexes">>)
       \/ Current = "id" /\ Take(<<"CallOrIdentifier", "Indexes">>)
       \/ /\ Current \notin {"not", "+", "(", "num", "id"}
          /\ Leave(<<>>) /\ Complaint /\ parsed' = FALSE
          /\ UNCHANGED <<index, nodes>>

ParseCallOrIdentifier ==
    At("CallOrIdentifier") /\ TakeIf({"("}, <<"ArgList", ")", "Call">>, <<"Identifier">>)
ParseIndexes ==
    At("Indexes") /\ TakeIf({"["}, <<"Expression", "]", "Index", "Indexes">>, <<"Selects">>)
ParseSelects == At("Selects") /\ TakeIf({"."}, <<"FieldName">>, <<>>)
ParseFieldName ==
    /\ At("FieldName")
    /\ IF Current = "id" THEN Take(<<"Select", "Selects">>) ELSE Complain(<<>>)

ParseArgList == At("ArgList") /\ StopIf({")"}, <<>>, <<"Expression", "MoreArgs">>)
(* Mutant of ParseMoreArgs: a comma may be the last of the list.            *)
ParseArgsWithLastComma ==
    /\ At("MoreArgs")
    /\ IF parsed THEN TakeIf({","}, <<"ArgList">>, <<>>) ELSE Skip(StatementBoundary)
ParseMoreArgs ==
    /\ At("MoreArgs")
    /\ IF parsed THEN TakeIf({","}, <<"Expression", "MoreArgs">>, <<>>)
                 ELSE Skip(StatementBoundary)

---------------------------------------------------------------------------
(* Declarations                                                            *)

ParseIdentList ==
    /\ At("IdentList")
    /\ IF Current = "id" THEN Take(<<"MoreIdents">>) ELSE Complain(<<>>)
ParseMoreIdents == At("MoreIdents") /\ TakeIf({","}, <<"IdentList">>, <<>>)

ParseTypeDenoter ==
    /\ At("TypeDenoter")
    /\ \/ Current = "file" /\ Take(<<"FileOf">>)
       \/ /\ Current = "array"
          /\ Take(<<"[", "Expression", "..", "Expression", "]", "of", "TypeDenoter">>)
       \/ Current = "record" /\ Take(<<"Fields">>)
       \/ Current = "id" /\ Take(<<>>)
       \/ /\ Current \notin {"file", "array", "record", "id"}
          /\ ComplainAndSkip(DeclarationBoundary)

ParseFileOf ==
    /\ At("FileOf")
    /\ IF Current = "of" THEN Take(<<"TypeDenoter">>) ELSE ComplainAndSkip(DeclarationBoundary)

(* The loop over the fields of a record.                                    *)
ParseFields ==
    At("Fields") /\ StopIf({"end", "eof"}, <<"end">>,
                           <<"IdentList", ":", "TypeDenoter", ";", "Fields">>)

ParseConstSection == At("ConstSection") /\ TakeIf({"const"}, <<"ConstDecls">>, <<>>)
ParseConstDecls ==
    /\ At("ConstDecls")
    /\ TakeIf({"id"}, <<"=", "Expression", ";", "ConstRecovery", "ConstDecls">>, <<>>)
ParseConstRecovery ==
    At("ConstRecovery") /\ IF parsed THEN Continue(<<>>) ELSE Skip(DeclarationBoundary)

ParseTypeSection == At("TypeSection") /\ TakeIf({"type"}, <<"TypeDecls">>, <<>>)
ParseTypeDecls ==
    At("TypeDecls") /\ TakeIf({"id"}, <<"=", "TypeDenoter", ";", "TypeDecls">>, <<>>)

ParseVarSection == At("VarSection") /\ TakeIf({"var"}, <<"VarDecls">>, <<>>)
ParseVarDecls ==
    At("VarDecls") /\ StopIf({"id"}, <<"IdentList", ":", "TypeDenoter", ";", "VarDecls">>, <<>>)

ParseParamList == At("ParamList") /\ TakeIf({"("}, <<"Params">>, <<>>)
ParseParams == At("Params") /\ TakeIf({")"}, <<>>, <<"Param">>)
ParseParam ==
    LET param == <<"IdentList", ":", "TypeDenoter", "MoreParams">>
    IN  At("Param") /\ TakeIf({"var"}, param, param)
ParseMoreParams == At("MoreParams") /\ TakeIf({";"}, <<"Param">>, <<")">>)

ParseSubprograms ==
    At("Subprograms") /\ StopIf({"procedure", "function"}, <<"Subprogram", "Subprograms">>, <<>>)
ParseSubprogram ==
    /\ At("Subprogram")
    /\ TakeIf({"function"},
              <<"id", "ParamList", ":", "TypeDenoter", ";", "Block", ";">>,
              <<"procedure", "id", "ParamList", ";", "Block", ";">>)

ParseBlock ==
    /\ At("Block")
    /\ Continue(<<"ConstSection", "TypeSection", "VarSection", "Subprograms", "CompoundStmt">>)

(* Without the keyword there is no program and nothing more is looked at.   *)
ParseProgram ==
    /\ At("Program")
    /\ IF Current = "program" THEN Take(<<"id", ";", "Block", ".", "eof">>) ELSE Complain(<<>>)

---------------------------------------------------------------------------
(* Statements                                                              *)

ParseCompoundStmt ==
    At("CompoundStmt") /\ IF Current = "begin" THEN Take(<<"Statements">>) ELSE Complain(<<>>)
ParseStatements ==
    At("Statements") /\ StopIf({"end"}, <<"end">>, <<"Statement", "MoreStatements">>)
ParseMoreStatements == At("MoreStatements") /\ TakeIf({";"}, <<"NextStatement">>, <<"end">>)
ParseNextStatement ==
    /\ At("NextStatement")
    /\ StopIf({"end", "eof", ".", "until"}, <<"end">>, <<"Statement", "MoreStatements">>)

ParseStatement ==
    /\ At("Statement")
    /\ \/ Current = "begin" /\ Continue(<<"CompoundStmt">>)
       \/ Current = "if" /\ Take(<<"Expression", "then", "Statement", "ElsePart">>)
       \/ Current = "while" /\ Take(<<"Expression", "do", "Statement">>)
       \/ Current = "repeat" /\ Take(<<"RepeatBody">>)
       \/ /\ Current = "for"
          /\ Take(<<"id", ":=", "Expression", "Direction", "Expression", "do", "Statement">>)
       \/ Current = "case" /\ Take(<<"Expression", "of", "CaseArms">>)
       \/ Current = "id" /\ Take(<<"AfterName">>)
       \/ /\ Current \notin {"begin", "if", "while", "repeat", "for", "case", "id"}
          /\ ComplainAndSkip(StatementBoundary)

ParseElsePart == At("ElsePart") /\ TakeIf({"else"}, <<"Statement">>, <<>>)
ParseDirection == At("Direction") /\ TakeIf({"downto"}, <<>>, <<"to">>)

ParseRepeatBody ==
    /\ At("RepeatBody")
    /\ StopIf({"until"}, <<"until", "Expression">>, <<"Statement", "MoreRepeated">>)
ParseMoreRepeated ==
    At("MoreRepeated") /\ TakeIf({";"}, <<"NextRepeated">>, <<"until", "Expression">>)
ParseNextRepeated ==
    /\ At("NextRepeated")
    /\ StopIf({"until", "eof"}, <<"until", "Expression">>, <<"Statement", "MoreRepeated">>)

(* The loop over the arms of a case; a case must have one.                  *)
AfterArms == {"end", "else", "eof"}
ParseCaseArms ==
    /\ At("CaseArms")
    /\ IF Current \in AfterArms THEN Complain(<<"CaseElse">>) ELSE Continue(<<"CaseArm", "MoreArms">>)
ParseCaseArm == At("CaseArm") /\ Continue(<<"CaseLabel", "MoreLabels", ":", "Statement">>)
ParseCaseLabel == At("CaseLabel") /\ Continue(<<"Expression", "UpperLabel">>)
ParseUpperLabel == At("UpperLabel") /\ TakeIf({".."}, <<"Expression">>, <<>>)
ParseMoreLabels == At("MoreLabels") /\ TakeIf({","}, <<"CaseLabel", "MoreLabels">>, <<>>)
ParseMoreArms == At("MoreArms") /\ TakeIf({";"}, <<"NextArm">>, <<"NextArm">>)
ParseNextArm == At("NextArm") /\ StopIf(AfterArms, <<"CaseElse">>, <<"CaseArm", "MoreArms">>)
ParseCaseElse == At("CaseElse") /\ TakeIf({"else"}, <<"Statement", "end">>, <<"end">>)

ParseAfterName ==
    /\ At("AfterName")
    /\ \/ Current = "[" /\ Take(<<"Expression", "]", "Target">>)
       \/ Current = "." /\ Take(<<"TargetField">>)
       \/ Current = ":=" /\ Take(<<"Expression", "AssignRecovery">>)
       \/ Current = "(" /\ Take(<<"ArgList", ")">>)
       \/ Current \notin {"[", ".", ":=", "("} /\ Continue(<<>>)
ParseTargetField ==
    /\ At("TargetField")
    /\ IF Current = "id" THEN Take(<<"TargetIndex", "Target">>)
       ELSE ComplainAndSkip(StatementBoundary)
ParseTargetIndex == At("TargetIndex") /\ TakeIf({"["}, <<"Expression", "]">>, <<>>)
ParseTarget ==
    /\ At("Target")
    /\ IF Current = ":=" THEN Take(<<"Expression">>) ELSE ComplainAndSkip(StatementBoundary)
ParseAssignRecovery ==
    At("AssignRecovery") /\ IF parsed THEN Continue(<<>>) ELSE Skip(StatementBoundary)

---------------------------------------------------------------------------
Init ==
    /\ stream \in Streams
    /\ index = 1
    /\ work = <<"Program">>
    /\ parsed = TRUE
    /\ nodes = <<>>
    /\ firstError = 0

Expressions ==
    \/ BuildNode \/ ParseExpression \/ ParseRelation \/ ParseSimpleExpression \/ ParseMoreTerms
    \/ ParseTerm \/ ParseMoreFactors \/ ParseFactor \/ ParseCallOrIdentifier \/ ParseIndexes
    \/ ParseSelects \/ ParseFieldName \/ ParseArgList \/ ParseMoreArgs

Declarations ==
    \/ ParseIdentList \/ ParseMoreIdents \/ ParseTypeDenoter \/ ParseFileOf \/ ParseFields
    \/ ParseConstSection \/ ParseConstDecls \/ ParseConstRecovery
    \/ ParseTypeSection \/ ParseTypeDecls \/ ParseVarSection \/ ParseVarDecls
    \/ ParseParamList \/ ParseParams \/ ParseParam \/ ParseMoreParams
    \/ ParseSubprograms \/ ParseSubprogram \/ ParseBlock \/ ParseProgram

Statements ==
    \/ ParseCompoundStmt \/ ParseStatements \/ ParseMoreStatements \/ ParseNextStatement
    \/ ParseStatement \/ ParseElsePart \/ ParseDirection
    \/ ParseRepeatBody \/ ParseMoreRepeated \/ ParseNextRepeated
    \/ ParseCaseArms \/ ParseCaseArm \/ ParseCaseLabel \/ ParseUpperLabel \/ ParseMoreLabels
    \/ ParseMoreArms \/ ParseNextArm \/ ParseCaseElse
    \/ ParseAfterName \/ ParseTargetField \/ ParseTargetIndex \/ ParseTarget
    \/ ParseAssignRecovery

Next == Expect \/ Expressions \/ Declarations \/ Statements

Spec == Init /\ [][Next]_vars
FairSpec == Spec /\ WF_vars(Next)

---------------------------------------------------------------------------
Done == work = <<>>

ParseFunctions ==
    {"Expression", "Relation", "SimpleExpression", "MoreTerms", "Term", "MoreFactors", "Factor",
     "CallOrIdentifier", "Indexes", "Selects", "FieldName", "ArgList", "MoreArgs",
     "IdentList", "MoreIdents", "TypeDenoter", "FileOf", "Fields",
     "ConstSection", "ConstDecls", "ConstRecovery", "TypeSection", "TypeDecls",
     "VarSection", "VarDecls", "ParamList", "Params", "Param", "MoreParams",
     "Subprograms", "Subprogram", "Block", "Program",
     "CompoundStmt", "Statements", "MoreStatements", "NextStatement", "Statement", "ElsePart",
     "Direction", "RepeatBody", "MoreRepeated", "NextRepeated",
     "CaseArms", "CaseArm", "CaseLabel", "UpperLabel", "MoreLabels", "MoreArms", "NextArm",
     "CaseElse", "AfterName", "TargetField", "TargetIndex", "Target", "AssignRecovery"}
Items == Kinds \cup Nodes \cup ParseFunctions

TypeOK ==
    /\ stream \in Seq(STRING)
    /\ \A k \in DOMAIN stream : stream[k] = "eof" <=> k = Len(stream)
    /\ index \in DOMAIN stream
    /\ work \in Seq(Items)
    /\ parsed \in BOOLEAN
    /\ nodes \in Seq(Nodes)
    /\ firstError \in 0..Len(stream)

---------------------------------------------------------------------------
(* How long the parser can stay at a token: a bound on the steps an item    *)
(* takes before it is done or a token is consumed.  An item that cannot be  *)
(* done at a token without consuming it ends the stay, whatever comes next. *)

Longer ==
    [SimpleExpression |-> 5, Expression |-> 7, Term |-> 3, CallOrIdentifier |-> 2,
     Indexes |-> 2, ArgList |-> 9, Fields |-> 5, VarDecls |-> 5, Params |-> 7, Param |-> 6,
     MoreParams |-> 2, Subprograms |-> 3, Block |-> 8, Statements |-> 5,
     MoreStatements |-> 2, NextStatement |-> 5, Statement |-> 2, Direction |-> 2,
     RepeatBody |-> 12, MoreRepeated |-> 9, NextRepeated |-> 12, CaseArms |-> 16,
     CaseArm |-> 14, CaseLabel |-> 9, NextArm |-> 16, CaseElse |-> 2]
StepsAt(token, item) ==
    CASE item = "MoreArms" -> IF token = ";" THEN 1 ELSE 17
      [] item = "Subprogram" -> IF token \in {"procedure", "function"} THEN 2 ELSE 14
      [] item \in DOMAIN Longer -> Longer[item]
      [] OTHER -> 1
Consumes(token, item) ==
    \/ item = token /\ token \in Kinds \ {"eof"}
    \/ item \in {"Statement", "CaseArm"} /\ token \notin StatementBoundary \cup {"eof"}
    \/ item = "CompoundStmt" /\ token = "begin"
    \/ item = "Subprogram" /\ token \in {"procedure", "function"}
    \/ item = "IdentList" /\ token = "id"
    \/ item = "TypeDenoter" /\ token \notin DeclarationBoundary \cup {"eof"}
StayFrom(token, items) ==
    LET stay[k \in 1..Len(items) + 1] ==
            IF k > Len(items) THEN 0
            ELSE StepsAt(token, items[k]) +
                 (IF Consumes(token, items[k]) THEN 0 ELSE stay[k + 1])
    IN  stay
Stay(token, items) == StayFrom(token, items)[1]

(* Whatever the tokens are, every step consumes one or brings the parser    *)
(* nearer to the next: the loops over case arms, declarations, arguments    *)
(* and statements do not go round in place after recovery.  One loop does:  *)
(* that over the fields of a record, at begin or at the keyword of a        *)
(* section, where recovery stops (parseTypeDenoter, syncDeclaration).       *)
StuckInRecord == At("Fields") /\ Current \in Sections \cup {"begin"}
Nearer ==
    \/ index' > index
    \/ index' = index /\ Stay(Current, work') < Stay(Current, work)
EveryStepIsNearer == [][~StuckInRecord => Nearer]_vars

(* The parser comes to the end of every stream: no loop of a parse function  *)
(* goes round without consuming a token, whatever recovery leaves it at.    *)
Terminates == <>Done
=============================================================================
