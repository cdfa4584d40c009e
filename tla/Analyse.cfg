CONSTANTS
 Names <- MCNames
 Symbols <- MCSymbols
 NoSymbol = 0
 Programs <- MCPrograms
 ProgramBlocks <- MCBlocks
 ErrorType <- MakeError
 Predefined <- MakePredefined
 Alias <- MakeAlias
 TagOf <- CanonicalTag
 TypeOfDenoter <- MCTypeOfDenoter
 FaultsOfDenoter <- MCFaultsOfDenoter
 TypeOfConstant <- TypeOfLiteral
 ConstantFaults <- LiteralFaults
 TypedStatement <- MCTypedStatement
 StatementFaults <- MCStatementFaults
 VmIntMax = 127
 HostMax = 1000
 RealMax = 2000
SPECIFICATION Spec
INVARIANTS TypeOK ScopesFollowTheTree VerdictIsExact TreeIsTyped
PROPERTIES ImplementsEnvironment
CHECK_DEADLOCK FALSE
