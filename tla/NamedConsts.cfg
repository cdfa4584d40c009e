CONSTANTS
    MinInt <- MCMinInt
    Compilations <- ConstCompilations
SPECIFICATION Spec
INVARIANTS
    NeverRejected
CHECK_DEADLOCK FALSE
