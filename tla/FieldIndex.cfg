CONSTANTS
    Streams <- FieldIndexed
    MaxExpression = 1
SPECIFICATION Spec
INVARIANTS
    AcceptsDocumented
CHECK_DEADLOCK FALSE
