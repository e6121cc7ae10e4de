SPECIFICATION SpecRetained
CONSTANTS
  Dmgs = 4
  Versions = 3
  Trusted = {1, 2, 3}
  ManifestVersion <- Republished
  BundleVersion <- Republished
  DownloadVersion <- Republished
  FourPart = {}
  MaxBuilds = 3
  Replaces <- Once
  Kinds = {"check", "install_ready"}
  Commands = {"status", "rollback", "install"}
  Serial = FALSE
  AutoInstall = {TRUE}
  AgentSeen = {TRUE}
  MaxCommands = 1
  MaxCrashes = 1
  Detached = TRUE
INVARIANTS OnlyTrustedInstalled TrustChain
