SPECIFICATION Spec
CONSTANTS
  Updater = {launcher, daemon}
  Nobody = nobody
  Versions = 2
  MaxCommands = 3
  MaxCrashes = 2
  Leftover = {0, 1}
INVARIANTS OneInstall Recoverable DocumentTrue
PROPERTY ComesFree
CHECK_DEADLOCK FALSE
