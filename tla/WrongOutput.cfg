CONSTANTS
    MinInt <- MCMinInt
    Compilations <- WrongCompilations
SPECIFICATION Spec
INVARIANTS
    WholeOutputMatches
CHECK_DEADLOCK FALSE
