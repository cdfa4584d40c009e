CONSTANTS
    MinInt <- MCMinInt
    Compilations <- MCCompilations
SPECIFICATION FairSpec
INVARIANTS
    TypeOK
    OperandsDefinedFirst
    NeverRejected
    CodeVerifies
    StackBalanced
    TemporariesAreFresh
    OutputMatchesSource
PROPERTIES
    ImplementsSource
CHECK_DEADLOCK FALSE
