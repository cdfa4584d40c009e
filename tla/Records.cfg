CONSTANTS
    Streams <- UnfinishedRecord
    MaxExpression = 1
SPECIFICATION FairSpec
PROPERTIES
    Terminates
CHECK_DEADLOCK FALSE
