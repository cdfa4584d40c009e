CONSTANTS
 Paths = {"one", "two"}
 NoPath = "none"
 Missing = Missing
 Handles = {1, 2}
 Radix = 4
 Newline = 1
 Space = 2
 InitialDisks <- MCInitialDisks
 MaxLength <- MCMaxLength
 Requests <- MCRequests
 Texts <- MCTexts
 Component <- MCComponent
 FieldWidth = 2
 Values <- MCValues
SPECIFICATION FairSpec
INVARIANTS TypeOK HandlesAreOwned BufferAgrees MultiplierDefined
PROPERTIES ImplementsSequentialFile StatementsEnd
CHECK_DEADLOCK FALSE
