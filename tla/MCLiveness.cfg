SPECIFICATION FairSpec
CONSTANTS
  Dmgs = 2
  Versions = 2
  Trusted = {1, 2}
  ManifestVersion <- Identity
  BundleVersion <- Identity
  DownloadVersion <- Identity
  FourPart = {1, 2}
  MaxBuilds = 2
  Replaces <- Forward
  Kinds = {"check", "check_now", "reconcile", "install_ready"}
  Commands = {"rollback"}
  Serial = TRUE
  AutoInstall = {TRUE, FALSE}
  AgentSeen = {TRUE, FALSE}
  MaxCommands = 1
  MaxCrashes = 1
  Detached = FALSE
PROPERTIES InstallingEnds ClosingInstalls BuildEnds
