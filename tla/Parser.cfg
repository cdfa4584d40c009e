CONSTANTS
    Streams <- MCStreams
    MaxExpression = 4
SPECIFICATION FairSpec
INVARIANTS
    TypeOK
    FirstErrorIsExact
    PrecedenceIsDocumented
PROPERTIES
    Terminates
    EveryStepIsNearer
CHECK_DEADLOCK FALSE
