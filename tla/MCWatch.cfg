SPECIFICATION Spec
CONSTANTS
    Owners = {r1, r2}
    Dirs = {d1}
    Limit = 3
    FairReservationChunk = 1
    MaxEvents = 1
    MaxFailures = 1
INVARIANTS BudgetKept NoStrandedCapacity
PROPERTIES ComesToRest
CHECK_DEADLOCK FALSE
