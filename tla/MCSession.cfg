SPECIFICATION Spec
CONSTANTS
    Callers = {c1, c2}
    Files = {f1}
    MaxCalls = 4
    MaxWrites = 1
    MaxFaults = 1
INVARIANTS AnswersMatch CleanIsWhole
PROPERTIES KeepsVersions SilentAfterError CloseEnds
