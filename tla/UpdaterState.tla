---------------------------- MODULE UpdaterState ----------------------------
(***************************************************************************)
(* The updater part of PersistedState (updater/src/state.rs), the document *)
(* every updater process loads, edits in memory and writes back whole, and *)
(* the pure edits the update flows make to it.                             *)
(*                                                                         *)
(* Official DMGs are numbered; 0 stands for "none".  Versions are numbers  *)
(* ordered as compare_generated_versions orders them; 0 is both "none" and *)
(* the installed version "unknown".  A workspace directory is named after  *)
(* the version it builds, so it is a version too.                          *)
(***************************************************************************)
EXTENDS Naturals

CONSTANTS
  Dmgs,           \* number of official DMGs
  Versions,       \* number of versions
  Trusted,        \* DMGs listed in trusted-dmg-manifest.json
  ManifestVersion,\* version the manifest gives to each DMG
  BundleVersion,  \* version Info.plist gives the app inside each DMG
  DownloadVersion,\* timestamp version derive_candidate_version gives each DMG
  FourPart,       \* versions with four segments (the others have three)
  MaxBuilds       \* bound: packages built in one behaviour

ASSUME CountsAssumption ==
  /\ Dmgs \in Nat \ {0}
  /\ Versions \in Nat \ {0}
  /\ MaxBuilds \in Nat

ASSUME ManifestAssumption ==
  /\ Trusted \subseteq 1..Dmgs
  /\ ManifestVersion \in [1..Dmgs -> 1..Versions]
  /\ BundleVersion \in [1..Dmgs -> 1..Versions]
  /\ DownloadVersion \in [1..Dmgs -> 1..Versions]
  /\ FourPart \subseteq 1..Versions

None == 0
Dmg == 1..Dmgs
Version == 1..Versions
DmgOrNone == 0..Dmgs
VersionOrNone == 0..Versions

(***************************************************************************)
(* A package file: the DMG it was built from, its package version, the     *)
(* build that made it (its digest) and the workspace it was built in.  The *)
(* same record is a PackageVerification: the digest and identity of that   *)
(* file as record_built_package saw it.  Build 0 is a package that was not *)
(* built by the updater (a manual install).                                *)
(***************************************************************************)
Package ==
  [dmg: DmgOrNone, ver: VersionOrNone, build: 0..MaxBuilds, at: VersionOrNone]

NoPackage == [dmg |-> None, ver |-> None, build |-> 0, at |-> None]

Status ==
  {"Idle", "CheckingUpstream", "UpdateDetected", "DownloadingDmg",
   "PreparingWorkspace", "PatchingApp", "BuildingPackage", "ReadyToInstall",
   "WaitingForAppExit", "Installing", "Installed", "Failed"}

Document ==
  [status: Status,
   installed: VersionOrNone,        \* installed_version
   candidate: VersionOrNone,        \* candidate_version
   dmg: DmgOrNone,                  \* dmg_sha256
   dmgVerified: DmgOrNone,          \* dmg_verification, None unless Verified
   headers: DmgOrNone,              \* remote_headers_fingerprint
   package: VersionOrNone,          \* artifact_paths.package_path
   packageVerified: Package,        \* package_verification
   workspace: VersionOrNone,        \* artifact_paths.workspace_dir
   rollback: VersionOrNone,         \* artifact_paths.rollback_package_path
   rollbackVerified: Package,       \* rollback_package_verification
   knownGood: VersionOrNone,        \* last_known_good_version
   blockedVersion: VersionOrNone,   \* rollback_blocked_candidate_version
   blockedDmg: DmgOrNone,           \* rollback_blocked_dmg_sha256
   authEvents: SUBSET Version,      \* install_auth_required events
   autoWaiting: BOOLEAN]            \* waiting_for_app_exit_auto_install

NewDocument ==
  [status |-> "Idle", installed |-> None, candidate |-> None, dmg |-> None,
   dmgVerified |-> None, headers |-> None, package |-> None,
   packageVerified |-> NoPackage, workspace |-> None, rollback |-> None,
   rollbackVerified |-> NoPackage, knownGood |-> None,
   blockedVersion |-> None, blockedDmg |-> None, authEvents |-> {},
   autoWaiting |-> FALSE]

-----------------------------------------------------------------------------
(* Predicates on a document d.                                             *)

\* mutant: an interrupted package build counts as a pending install
InstallIsPendingMutant(d) ==
  d.status \in {"BuildingPackage", "ReadyToInstall", "WaitingForAppExit",
                "Installing"}

InstallIsPending(d) ==
  d.status \in {"ReadyToInstall", "WaitingForAppExit", "Installing"}

\* mutant: an interrupted download is not retried
ShouldRetryMutant(d) ==
  d.status \in {"Failed", "UpdateDetected", "PreparingWorkspace",
                "PatchingApp", "BuildingPackage"}

ShouldRetry(d) ==
  d.status \in {"Failed", "DownloadingDmg", "UpdateDetected",
                "PreparingWorkspace", "PatchingApp", "BuildingPackage"}

CanBeClearedAsCurrent(d) ==
  d.status \notin {"Idle", "CheckingUpstream", "Installed"}

\* installed_version_satisfies_candidate
Satisfies(installed, candidate) ==
  installed # None /\ candidate # None /\ installed >= candidate

HasVerifiedCurrentDmg(d) ==
  /\ d.dmgVerified # None
  /\ d.candidate # None => ManifestVersion[d.dmgVerified] = d.candidate
  /\ d.dmgVerified = d.dmg

\* ensure_ready_update_has_verified_dmg
ReadyHasVerifiedDmg(d) ==
  /\ d.dmgVerified # None
  /\ d.candidate # None
  /\ ManifestVersion[d.dmgVerified] = d.candidate
  /\ d.dmg # None
  /\ d.dmgVerified = d.dmg

(***************************************************************************)
(* verify_package_binding: the recorded verification is for the file at    *)
(* the recorded path, and that file still has the recorded digest.         *)
(***************************************************************************)
Bound(files, path, verified) ==
  /\ verified # NoPackage
  /\ path # None
  /\ verified.at = path
  /\ files[path] = verified

\* expected_package_for_ready_install
ReadyPackageBound(files, d) ==
  /\ d.packageVerified # NoPackage
  /\ d.candidate # None
  /\ d.dmg # None
  /\ d.packageVerified.ver = d.candidate
  /\ d.packageVerified.dmg = d.dmg
  /\ Bound(files, d.package, d.packageVerified)

\* rollback_version_satisfies_candidate.  A version that does not parse is not
\* met with: what is blocked was a candidate, a candidate has the version of the
\* manifest, and valid_dmg_version (trust.rs) admits what
\* parse_generated_version can read.
VersionBlocks(blocked, candidate) ==
  /\ blocked \in FourPart
  /\ candidate \in FourPart
  /\ Satisfies(blocked, candidate)

\* downloaded_dmg_is_blocked_by_rollback
BlockedByRollback(d, dmg) ==
  \/ d.blockedDmg = dmg
  \/ VersionBlocks(d.blockedVersion, ManifestVersion[dmg])
  \/ VersionBlocks(d.blockedVersion, DownloadVersion[dmg])

\* install_auth_retry_is_blocked
AuthRetryBlocked(d) == d.candidate \in d.authEvents

\* should_protect_explicit_workspace_dir
ProtectsExplicitWorkspace(d) ==
  d.status \in {"PreparingWorkspace", "PatchingApp", "BuildingPackage", "Failed"}

\* mutant: the workspace of the pending package is not protected
ProtectedWorkspacesMutant(d) ==
  {d.rollback}
    \cup (IF ProtectsExplicitWorkspace(d) THEN {d.workspace} ELSE {})

\* protected_workspaces
ProtectedWorkspaces(d) ==
  {d.package, d.rollback}
    \cup (IF ProtectsExplicitWorkspace(d) THEN {d.workspace} ELSE {})

\* prune_unreferenced_workspaces, run with the document d
PruneWorkspaces(files, d) ==
  [w \in Version |-> IF w \in ProtectedWorkspaces(d) THEN files[w] ELSE NoPackage]

-----------------------------------------------------------------------------
(* Edits of a document d.                                                  *)

\* normalize_artifact_workspace_dir
NormalizeWorkspace(d) ==
  [d EXCEPT !.workspace =
     IF d.package # None THEN d.package
     ELSE IF d.rollback # None THEN d.rollback
     ELSE IF ProtectsExplicitWorkspace(d) THEN d.workspace
     ELSE None]

WithStatus(d, status) ==
  [d EXCEPT !.status = status,
            !.autoWaiting = @ /\ status = "WaitingForAppExit"]

MarkFailed(d) == WithStatus(d, "Failed")

\* sync_runtime_state, given the version the package manager reports
SyncRuntime(d, version) ==
  [d EXCEPT !.autoWaiting = @ /\ d.status = "WaitingForAppExit",
            !.installed = version]

ClearRollbackBlock(d) ==
  [d EXCEPT !.blockedVersion = None, !.blockedDmg = None]

(***************************************************************************)
(* The candidate is already installed or superseded: the common tail of    *)
(* recover_interrupted_install and                                         *)
(* complete_pending_install_if_already_installed.                          *)
(***************************************************************************)
Settle(d) ==
  LET superseded == d.installed # d.candidate
      settled == [ClearRollbackBlock(WithStatus(d, "Installed")) EXCEPT
                    !.candidate = None, !.authEvents = {}]
  IN  NormalizeWorkspace(
        IF superseded
        THEN [settled EXCEPT !.package = None, !.packageVerified = NoPackage]
        ELSE settled)

\* clear_dmg_update_candidate
ClearCandidate(d, dmg) ==
  NormalizeWorkspace(
    [WithStatus(d, "Idle") EXCEPT !.candidate = None, !.dmg = dmg,
                                  !.package = None, !.authEvents = {}])

\* mutant: a candidate that was never installed is retained
RecordKnownGoodMutant(files, d) ==
  IF d.installed # None /\ d.package # None /\ files[d.package] # NoPackage
  THEN [d EXCEPT !.knownGood = d.installed,
                 !.rollback = d.package,
                 !.rollbackVerified = d.packageVerified]
  ELSE d

\* mutant: a verification recorded earlier is kept
RecordKnownGoodKeptMutant(files, d) ==
  IF /\ d.installed # None
     /\ d.candidate = None
     /\ d.package # None
     /\ files[d.package] # NoPackage
  THEN [d EXCEPT !.knownGood = d.installed,
                 !.rollback = d.package,
                 !.rollbackVerified =
                    IF @ = NoPackage THEN d.packageVerified ELSE @]
  ELSE d

\* record_current_package_as_known_good
RecordKnownGood(files, d) ==
  IF /\ d.installed # None
     /\ d.candidate = None
     /\ d.package # None
     /\ files[d.package] # NoPackage
  THEN [d EXCEPT !.knownGood = d.installed,
                 !.rollback = d.package,
                 !.rollbackVerified =
                    IF d.packageVerified.at = d.package
                    THEN d.packageVerified ELSE NoPackage]
  ELSE d

\* a package install that pkexec reports as done
AfterInstall(d, version) ==
  NormalizeWorkspace(
    [ClearRollbackBlock(WithStatus(d, "Installed")) EXCEPT
       !.installed = version, !.candidate = None, !.authEvents = {}])

\* mutant: after a dismissed dialog the update goes on waiting for the exit
DeferInstallMutant(d) == WithStatus(d, "WaitingForAppExit")

\* defer_install_until_next_app_exit
DeferInstall(d) ==
  [WithStatus(d, "ReadyToInstall") EXCEPT
     !.authEvents = @ \cup ({d.candidate} \ {None})]

\* clear_install_auth_required_event
ClearAuthEvent(d) == [d EXCEPT !.authEvents = @ \ {d.candidate}]

\* set_waiting_for_app_exit
WaitForAppExit(d, auto) ==
  [d EXCEPT !.status = "WaitingForAppExit", !.autoWaiting = auto]

\* mutant: a rollback ends as every other install does
AfterRollbackMutant(d, version) ==
  [AfterInstall(d, version) EXCEPT !.package = d.rollback,
                                   !.packageVerified = d.rollbackVerified,
                                   !.knownGood = version]

\* rollback_block_identifiers and apply_successful_rollback_state
AfterRollback(d, version) ==
  NormalizeWorkspace(
    [d EXCEPT !.status = "Installed",
              !.installed = version,
              !.candidate = None,
              !.package = d.rollback,
              !.packageVerified = d.rollbackVerified,
              !.knownGood = version,
              !.blockedVersion =
                 IF d.installed = None THEN d.candidate ELSE d.installed,
              !.blockedDmg = d.dmg,
              !.authEvents = {}])
=============================================================================
