SPECIFICATION Spec
CONSTANTS
    Below = {"a"}
    Parent <- One
    ScanRetries = 1
    RootAttempts = 1
    MaxPending = 1
    Tries = 1
    MaxTrouble = 2
    Repeats = FALSE
INVARIANTS Covered GitCovered
PROPERTIES ComesToRest
CHECK_DEADLOCK FALSE
