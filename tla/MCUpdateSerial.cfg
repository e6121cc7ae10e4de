SPECIFICATION HSpec
CONSTANTS
  Dmgs = 3
  Versions = 3
  Trusted = {1, 2, 3}
  ManifestVersion <- Identity
  BundleVersion <- Mislabelled
  DownloadVersion <- Identity
  FourPart = {1, 2, 3}
  MaxBuilds = 2
  Replaces <- Forward
  Kinds = {"maintenance", "check", "check_now", "reconcile", "install_ready"}
  Commands = {"status"}
  Serial = TRUE
  AutoInstall = {TRUE, FALSE}
  AgentSeen = {TRUE, FALSE}
  MaxCommands = 2
  MaxCrashes = 1
  Detached = FALSE
INVARIANTS NoSkippedUpdate PendingPackageKept
PROPERTIES NoReprompt
