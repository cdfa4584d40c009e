CONSTANTS
    MinInt <- MCMinInt
    MaxInt = 2
    Literals <- MCLiterals
    FnNames = {"main", "f"}
    Slots = {"x"}
    Lows <- MCLows
    Sizes = {1}
    Callees = {"g"}
    MaxArgs = 2
    MaxTemps = 3
    MaxCode = 6
SPECIFICATION Spec
INVARIANTS
    TypeOK
    EmitNeverFails
    CodeIsSafe
    StackDiscipline
    SpilledAreStored
    LiteralsFit
CHECK_DEADLOCK FALSE
