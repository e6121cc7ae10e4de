SPECIFICATION HSpec
CONSTANTS
  Dmgs = 3
  Versions = 3
  Trusted = {1, 2, 3}
  ManifestVersion <- Identity
  BundleVersion <- Identity
  DownloadVersion <- Identity
  FourPart = {1, 2, 3}
  MaxBuilds = 3
  Replaces <- Forward
  Kinds = {"maintenance", "check", "check_now", "reconcile", "install_ready"}
  Commands = {"status", "rollback"}
  Serial = TRUE
  AutoInstall = {TRUE, FALSE}
  AgentSeen = {TRUE, FALSE}
  MaxCommands = 2
  MaxCrashes = 0
  Detached = FALSE
INVARIANTS KnownGoodWasInstalled KnownGoodIsThatVersion
PROPERTIES RollbackHonoured
