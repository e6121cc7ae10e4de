SPECIFICATION HFairSpec
CONSTANTS
  Ops = 3
  MaxCreated = 1
  MaxKills = 1
  Volatile = {1, 2}
  Cache = {2}
  Files = {3}
  Runner = {"launcher", "service", "reverse"}
  Uses <- ByProgram
  Serial = TRUE
  Careful = TRUE
INVARIANTS NothingLost Resumable AllMoved
PROPERTIES KeepsPromise RunningUntouched MigrationEnds
