----------------------------- MODULE UpdateFlow -----------------------------
(***************************************************************************)
(* The update flows of updater/src/app.rs, rollback.rs and builder.rs: the *)
(* processes that load, edit and write back the state document.            *)
(*                                                                         *)
(*   "flow"      the holder of check.lock: the daemon's startup            *)
(*               maintenance, a check cycle, a reconciliation, or the      *)
(*               install-ready command.  The lock is free when it is idle. *)
(*   "status"    the status command, which takes no lock.                  *)
(*   "rollback"  the rollback command, which takes no lock.                *)
(*                                                                         *)
(* A step of a process is the code between two writes of the document, or  *)
(* between two things another process can observe or change.               *)
(***************************************************************************)
EXTENDS UpdaterState

CONSTANTS
  Replaces,      \* [Dmg -> SUBSET Dmg]: the DMGs that may be served after one
  Kinds,         \* kinds of flow that run
  Commands,      \* what the user runs: "status", "rollback", "install"
  Serial,        \* TRUE: a process starts only when every other one is idle
  AutoInstall,   \* values auto_install_on_app_exit may have when it is read
  AgentSeen,     \* answers the search for a polkit agent may give
  Detached,      \* TRUE: a privileged install outlives the process that
                 \* asked for it
  MaxCommands,   \* bound: commands the user runs in one behaviour
  MaxCrashes     \* bound: process crashes in one behaviour

AllKinds == {"maintenance", "check", "check_now", "reconcile", "install_ready"}
Proc == {"flow", "status", "rollback"}

ASSUME EnvironmentAssumption ==
  /\ Replaces \in [1..Dmgs -> SUBSET (1..Dmgs)]
  /\ Kinds \subseteq AllKinds
  /\ Commands \subseteq {"status", "rollback", "install"}
  /\ Serial \in BOOLEAN
  /\ AutoInstall \subseteq BOOLEAN
  /\ AgentSeen \subseteq BOOLEAN
  /\ Detached \in BOOLEAN
  /\ MaxCommands \in Nat
  /\ MaxCrashes \in Nat

VARIABLES
  disk,      \* state.json
  mem,       \* mem[p]: the PersistedState process p works on
  pc,        \* pc[p]: where process p is
  kind,      \* the kind of the running flow, or "none"
  retry,     \* retrying_update of the running check
  previous,  \* previous_status of the running rollback
  orphans,   \* privileged installs whose parent process died
  files,     \* files[w]: the package in workspace w
  sys,       \* the installed package
  upstream,  \* the DMG the official URL serves
  app,       \* TRUE: ChatGPT is running
  builds,    \* number of packages built
  commands,  \* number of commands the user ran
  crashes    \* number of crashes

docs == <<disk, mem, pc, kind, retry, previous>>
world == <<orphans, files, sys, upstream, app, builds, commands, crashes>>
vars == <<docs, world>>

BuildPoints == {"wipe", "prepare", "patch", "package", "finish"}

FlowPoints ==
  {"idle", "sync", "recover", "current", "normalize", "gate", "head",
   "download", "match", "checkversion", "prune", "fail", "resync", "pending",
   "offer", "authorize", "installed", "denied", "refused"} \cup BuildPoints

StatusPoints == {"idle", "sync", "current", "pending", "recover", "normalize"}

RollbackPoints ==
  {"idle", "sync", "decide", "authorize", "installed", "denied", "refused"}

\* What a privileged install subcommand is asked to install.
Request == [path: VersionOrNone, expected: Package, rollback: BOOLEAN]

TypeOK ==
  /\ disk \in Document
  /\ mem \in [Proc -> Document]
  /\ pc \in [Proc -> FlowPoints \cup StatusPoints \cup RollbackPoints]
  /\ pc["flow"] \in FlowPoints
  /\ pc["status"] \in StatusPoints
  /\ pc["rollback"] \in RollbackPoints
  /\ kind \in AllKinds \cup {"none"}
  /\ retry \in BOOLEAN
  /\ previous \in Status
  /\ orphans \subseteq Request
  /\ files \in [Version -> Package]
  /\ sys \in Package
  /\ upstream \in Dmg
  /\ app \in BOOLEAN
  /\ builds \in 0..MaxBuilds
  /\ commands \in 0..MaxCommands
  /\ crashes \in 0..MaxCrashes

\* A package built and installed outside the updater.
ManualPackage(dmg) ==
  [dmg |-> dmg, ver |-> BundleVersion[dmg], build |-> 0, at |-> None]

Init ==
  /\ disk = NewDocument
  /\ mem = [p \in Proc |-> NewDocument]
  /\ pc = [p \in Proc |-> "idle"]
  /\ kind = "none"
  /\ retry = FALSE
  /\ previous = "Idle"
  /\ orphans = {}
  /\ files = [w \in Version |-> NoPackage]
  /\ sys \in {NoPackage} \cup {ManualPackage(dmg) : dmg \in Dmg}
  /\ upstream \in Dmg
  /\ app \in BOOLEAN
  /\ builds = 0
  /\ commands = 0
  /\ crashes = 0

-----------------------------------------------------------------------------
(***************************************************************************)
(* How a process moves.  Continue goes on with the document d in memory,   *)
(* Save also writes it (persist_state), Persist writes it when it differs  *)
(* from the one in memory (persist_if_changed).  An idle process holds     *)
(* nothing.                                                                *)
(***************************************************************************)
Goto(p, to, d) ==
  /\ pc' = [pc EXCEPT ![p] = to]
  /\ mem' = [mem EXCEPT ![p] = IF to = "idle" THEN NewDocument ELSE d]

Continue(p, to, d) == Goto(p, to, d) /\ UNCHANGED disk

Save(p, to, d) == Goto(p, to, d) /\ disk' = d

Persist(p, to, d) ==
  Goto(p, to, d) /\ disk' = IF d = mem[p] THEN disk ELSE d

\* What the flow forgets when it goes to a point.
FlowContext(to) ==
  /\ kind' = IF to = "idle" THEN "none" ELSE kind
  /\ retry' = (retry /\ to \in {"head", "download", "match"})
  /\ UNCHANGED previous

Context(p, to) ==
  IF p = "flow" THEN FlowContext(to)
  ELSE /\ previous' = IF p = "rollback" /\ to = "idle" THEN "Idle" ELSE previous
       /\ UNCHANGED <<kind, retry>>

AllIdleBut(p) == \A q \in Proc \ {p} : pc[q] = "idle"

At(p, point) == pc[p] = point

-----------------------------------------------------------------------------
(* Starting: take check.lock (flow only) and load the document.            *)

StartFlow(k) ==
  /\ At("flow", "idle")
  /\ Serial => AllIdleBut("flow")
  /\ Continue("flow", "sync", disk)
  /\ kind' = k
  /\ UNCHANGED <<retry, previous, world>>

StartCommand(p) ==
  /\ At(p, "idle")
  /\ Serial => AllIdleBut(p)
  /\ commands < MaxCommands
  /\ commands' = commands + 1
  /\ Continue(p, "sync", disk)
  /\ UNCHANGED <<kind, retry, previous, orphans, files, sys, upstream, app,
                 builds, crashes>>

AfterSync(p) ==
  CASE p = "status" -> "current"
    [] p = "rollback" -> "decide"
    [] p = "flow" /\ kind = "check" -> "gate"
    [] p = "flow" /\ kind = "reconcile" -> "resync"
    [] OTHER -> "recover"

\* The end of reload_state_from_disk, and the entry of the other commands,
\* which only refresh installed_version.
SyncEntry(p) ==
  /\ At(p, "sync")
  /\ Persist(p, AfterSync(p),
       IF p = "flow" THEN SyncRuntime(mem[p], sys.ver)
                     ELSE [mem[p] EXCEPT !.installed = sys.ver])
  /\ Context(p, AfterSync(p))
  /\ UNCHANGED world

-----------------------------------------------------------------------------
(* The recovery steps the flows and the status command share.              *)

PackageMissing(d) == d.package # None => files[d.package] = NoPackage

\* Finishing an update that is already installed or superseded.
SettleAndPrune(p, to, d) ==
  /\ Save(p, to, Settle(d))
  /\ files' = PruneWorkspaces(files, Settle(d))

\* recover_interrupted_install, run on the document d
RecoverInterrupted(p, d, to, toIfFailed) ==
  \/ /\ d.status # "Installing"
     /\ Continue(p, to, d)
     /\ Context(p, to)
     /\ UNCHANGED files
  \/ /\ d.status = "Installing"
     /\ Satisfies(d.installed, d.candidate)
     /\ SettleAndPrune(p, to, d)
     /\ Context(p, to)
  \/ /\ d.status = "Installing"
     /\ ~Satisfies(d.installed, d.candidate)
     /\ PackageMissing(d)
     /\ Save(p, toIfFailed, MarkFailed(d))
     /\ Context(p, toIfFailed)
     /\ UNCHANGED files
  \/ /\ d.status = "Installing"
     /\ ~Satisfies(d.installed, d.candidate)
     /\ ~PackageMissing(d)
     /\ Save(p, to, NormalizeWorkspace(WithStatus(d, "ReadyToInstall")))
     /\ Context(p, to)
     /\ UNCHANGED files

AfterRecover(p) ==
  IF p = "status" THEN "normalize" ELSE "current"

Recover(p) ==
  /\ At(p, "recover")
  /\ RecoverInterrupted(p, mem[p], AfterRecover(p),
       IF p = "flow" /\ kind = "install_ready" THEN "idle" ELSE AfterRecover(p))
  /\ UNCHANGED <<orphans, sys, upstream, app, builds, commands, crashes>>

\* mutant: reconciling does not recover an interrupted install
ResyncMutant ==
  /\ At("flow", "resync")
  /\ Continue("flow", "pending", SyncRuntime(mem["flow"], sys.ver))
  /\ Context("flow", "pending")
  /\ UNCHANGED world

\* The start of reconcile_pending_install: sync_runtime_state, not yet
\* persisted, then recover_interrupted_install.
Resync ==
  /\ At("flow", "resync")
  /\ RecoverInterrupted("flow", SyncRuntime(mem["flow"], sys.ver),
                        "pending", "pending")
  /\ UNCHANGED <<orphans, sys, upstream, app, builds, commands, crashes>>

AfterCurrent(p) ==
  IF p = "status" \/ kind = "install_ready" THEN "pending" ELSE "normalize"

\* complete_current_dmg_update_if_already_installed
CompleteCurrent(p) ==
  LET d == mem[p]
      current == /\ CanBeClearedAsCurrent(d)
                 /\ d.candidate # None
                 /\ d.dmg # None
                 /\ sys.dmg = d.dmg
      to == IF p = "flow" /\ kind = "install_ready" THEN "idle"
            ELSE AfterCurrent(p)
  IN  /\ At(p, "current")
      /\ \/ /\ current
            /\ Save(p, to, ClearCandidate(d, d.dmg))
            /\ Context(p, to)
         \/ /\ ~current
            /\ Continue(p, AfterCurrent(p), d)
            /\ Context(p, AfterCurrent(p))
      /\ UNCHANGED world

\* complete_pending_install_if_already_installed
CompletePending(p) ==
  LET d == mem[p]
      kept == /\ d.installed = d.candidate
              /\ HasVerifiedCurrentDmg(d)
              /\ ~PackageMissing(d)
      completed == /\ d.status \in {"ReadyToInstall", "WaitingForAppExit"}
                   /\ Satisfies(d.installed, d.candidate)
                   /\ ~kept
      next == IF p = "status" THEN "recover" ELSE "offer"
      end == IF p = "status" THEN "recover" ELSE "idle"
  IN  /\ At(p, "pending")
      /\ \/ /\ completed
            /\ SettleAndPrune(p, end, d)
            /\ Context(p, end)
         \/ /\ ~completed
            /\ Continue(p, next, d)
            /\ Context(p, next)
            /\ UNCHANGED files
      /\ UNCHANGED <<orphans, sys, upstream, app, builds, commands, crashes>>

AfterNormalize(p) ==
  CASE p = "status" -> "idle"
    [] p = "flow" /\ kind = "maintenance" -> "prune"
    [] OTHER -> "gate"

\* normalize_workspace_dir_and_persist
Normalize(p) ==
  /\ At(p, "normalize")
  /\ Persist(p, AfterNormalize(p), NormalizeWorkspace(mem[p]))
  /\ Context(p, AfterNormalize(p))
  /\ UNCHANGED world

-----------------------------------------------------------------------------
(* The check cycle: run_check_cycle_with_options.                          *)

Flow == mem["flow"]

FlowTo(to, d) == Continue("flow", to, d) /\ FlowContext(to)
FlowSave(to, d) == Save("flow", to, d) /\ FlowContext(to)

\* An update that is pending is not checked again.
SkipPending ==
  /\ At("flow", "gate")
  /\ InstallIsPending(Flow)
  /\ FlowTo("prune", Flow)
  /\ UNCHANGED world

\* check-now --if-stale after a recent successful check
SkipFresh ==
  /\ At("flow", "gate")
  /\ kind = "check_now"
  /\ ~InstallIsPending(Flow)
  /\ ~ShouldRetry(Flow)
  /\ Flow.headers # None
  /\ FlowTo("prune", Flow)
  /\ UNCHANGED world

\* prepare_upstream_check
PrepareUpstreamCheck ==
  /\ At("flow", "gate")
  /\ ~InstallIsPending(Flow)
  /\ Save("flow", "head",
       IF ShouldRetry(Flow) THEN Flow
       ELSE [Flow EXCEPT !.status = "CheckingUpstream"])
  /\ retry' = ShouldRetry(Flow)
  /\ UNCHANGED <<kind, previous, world>>

\* fetch_remote_metadata succeeds: the headers of the DMG now served
FetchMetadata ==
  LET unchanged == /\ Flow.headers = upstream
                   /\ Flow.dmg # None
                   /\ HasVerifiedCurrentDmg(Flow)
                   /\ ~retry
      seen == [Flow EXCEPT !.headers = upstream]
  IN  /\ At("flow", "head")
      /\ \/ /\ unchanged
            /\ FlowSave("prune", WithStatus(seen, "Idle"))
         \/ /\ ~unchanged
            /\ FlowSave("download", WithStatus(seen, "DownloadingDmg"))
      /\ UNCHANGED world

\* download_dmg, then the trusted manifest decides about the bytes received
DownloadTrusted ==
  /\ At("flow", "download")
  /\ upstream \in Trusted
  /\ FlowTo("match", [Flow EXCEPT !.dmgVerified = upstream])
  /\ UNCHANGED world

\* mutant: any DMG that was downloaded is taken for verified
DownloadUntrustedMutant ==
  /\ At("flow", "download")
  /\ upstream \notin Trusted
  /\ FlowTo("match", [Flow EXCEPT !.dmgVerified = upstream])
  /\ UNCHANGED world

\* mutant: the verification is recorded before the manifest has decided
DownloadUntrustedEarlyMutant ==
  /\ At("flow", "download")
  /\ upstream \notin Trusted
  /\ FlowTo("fail", [Flow EXCEPT !.dmgVerified = upstream])
  /\ UNCHANGED world

DownloadUntrusted ==
  /\ At("flow", "download")
  /\ upstream \notin Trusted
  /\ FlowTo("fail", [Flow EXCEPT !.dmgVerified = None])
  /\ UNCHANGED world

(***************************************************************************)
(* What to do with the verified DMG: nothing when it is the installed one, *)
(* when a rollback blocks it or when it is the one already known; else it  *)
(* becomes the candidate.                                                  *)
(***************************************************************************)
MatchInstalled ==
  /\ At("flow", "match")
  /\ sys.dmg = Flow.dmgVerified
  /\ FlowSave("prune", ClearCandidate(Flow, Flow.dmgVerified))
  /\ UNCHANGED world

MatchBlocked ==
  /\ At("flow", "match")
  /\ sys.dmg # Flow.dmgVerified
  /\ BlockedByRollback(Flow, Flow.dmgVerified)
  /\ FlowSave("prune", [Flow EXCEPT !.candidate = None,
                                    !.dmg = Flow.dmgVerified,
                                    !.status = "Idle"])
  /\ UNCHANGED world

AlreadyKnown == Flow.dmg = Flow.dmgVerified /\ ~retry

MatchKnown ==
  /\ At("flow", "match")
  /\ sys.dmg # Flow.dmgVerified
  /\ ~BlockedByRollback(Flow, Flow.dmgVerified)
  /\ AlreadyKnown
  /\ FlowSave("prune", [Flow EXCEPT !.status = "Idle"])
  /\ UNCHANGED world

DetectUpdate ==
  /\ At("flow", "match")
  /\ sys.dmg # Flow.dmgVerified
  /\ ~BlockedByRollback(Flow, Flow.dmgVerified)
  /\ ~AlreadyKnown
  /\ builds < MaxBuilds
  /\ FlowSave("wipe",
       [RecordKnownGood(files, Flow) EXCEPT
          !.status = "UpdateDetected",
          !.candidate = ManifestVersion[Flow.dmgVerified],
          !.dmg = Flow.dmgVerified,
          !.authEvents = {}])
  /\ UNCHANGED world

-----------------------------------------------------------------------------
(* The local build: build_update_from.                                     *)

\* BuilderWorkspace::prepare empties the workspace named after the candidate
WipeWorkspace ==
  /\ At("flow", "wipe")
  /\ files' = [files EXCEPT ![Flow.candidate] = NoPackage]
  /\ FlowTo("prepare", Flow)
  /\ UNCHANGED <<orphans, sys, upstream, app, builds, commands, crashes>>

PrepareWorkspace ==
  /\ At("flow", "prepare")
  /\ FlowSave("patch", [Flow EXCEPT !.status = "PreparingWorkspace",
                                    !.packageVerified = NoPackage,
                                    !.workspace = Flow.candidate])
  /\ UNCHANGED world

PatchApp ==
  /\ At("flow", "patch")
  /\ FlowSave("package", [Flow EXCEPT !.status = "PatchingApp"])
  /\ UNCHANGED world

\* the version is now the one of the app bundle
BuildPackage ==
  /\ At("flow", "package")
  /\ FlowSave("finish", [Flow EXCEPT !.status = "BuildingPackage",
                                     !.candidate = BundleVersion[Flow.dmg]])
  /\ UNCHANGED world

\* record_built_package, and the document that offers the package
FinishBuild ==
  LET built == [dmg |-> Flow.dmg, ver |-> Flow.candidate,
                build |-> builds + 1, at |-> Flow.workspace]
  IN  /\ At("flow", "finish")
      /\ builds < MaxBuilds
      /\ builds' = builds + 1
      /\ files' = [files EXCEPT ![Flow.workspace] = built]
      /\ FlowSave("checkversion", [Flow EXCEPT !.status = "ReadyToInstall",
                                               !.package = Flow.workspace,
                                               !.packageVerified = built])
      /\ UNCHANGED <<orphans, sys, upstream, app, commands, crashes>>

\* the built version against the one the manifest gave
CheckBuiltVersion ==
  /\ At("flow", "checkversion")
  /\ \/ /\ Flow.candidate = ManifestVersion[Flow.dmgVerified]
        /\ FlowTo("prune", Flow)
     \/ /\ Flow.candidate # ManifestVersion[Flow.dmgVerified]
        /\ FlowSave("fail", MarkFailed(Flow))
  /\ UNCHANGED world

\* The network, the disk or a build script fails.
StepFails ==
  /\ pc["flow"] \in {"head", "download", "match"} \cup BuildPoints
  /\ FlowTo("fail", Flow)
  /\ UNCHANGED world

\* maybe_prune_caches, then mark_failed_and_persist
FailCheck ==
  /\ At("flow", "fail")
  /\ files' = PruneWorkspaces(files, Flow)
  /\ FlowSave("idle", MarkFailed(Flow))
  /\ UNCHANGED <<orphans, sys, upstream, app, builds, commands, crashes>>

\* maybe_prune_caches at the end; check-now goes on to reconcile
EndCheck ==
  /\ At("flow", "prune")
  /\ files' = PruneWorkspaces(files, Flow)
  /\ \/ /\ kind # "check_now"
        /\ FlowTo("idle", Flow)
     \/ /\ kind = "check_now"
        /\ Continue("flow", "resync", Flow)
        /\ kind' = "reconcile"
        /\ UNCHANGED <<retry, previous>>
  /\ UNCHANGED <<orphans, sys, upstream, app, builds, commands, crashes>>

-----------------------------------------------------------------------------
(* Offering the pending package: the end of reconcile_pending_install, and *)
(* of run_install_ready_locked.                                            *)

Offering(k) == At("flow", "offer") /\ kind = k

BuildStatus ==
  {"UpdateDetected", "DownloadingDmg", "PreparingWorkspace", "PatchingApp",
   "BuildingPackage"}

Offered == Flow.status \in {"ReadyToInstall", "WaitingForAppExit"}

PackageUsable ==
  /\ ~PackageMissing(Flow)
  /\ ReadyHasVerifiedDmg(Flow)
  /\ ReadyPackageBound(files, Flow)

\* defer_install_for_manual_auth, and other returns to ready_to_install
BackToReady == FlowSave("idle", WithStatus(Flow, "ReadyToInstall"))

\* mutant: an old dismissed dialog is not forgotten
AskToCloseMutant(auto) == FlowSave("idle", WaitForAppExit(Flow, auto))

\* set_waiting_for_app_exit, after clear_install_auth_required_event
AskToClose(auto) ==
  FlowSave("idle", WaitForAppExit(ClearAuthEvent(Flow), auto))

\* trigger_install: persist "installing" and start pkexec
TriggerInstall(d) == FlowSave("authorize", WithStatus(d, "Installing"))

NothingToOffer ==
  /\ At("flow", "offer")
  /\ \/ ~Offered
     \/ Offered /\ kind = "reconcile" /\ Flow.package = None
  /\ FlowTo("idle", Flow)
  /\ UNCHANGED world

PackageUnusable ==
  /\ At("flow", "offer")
  /\ Offered
  /\ Flow.package = None => kind = "install_ready"
  /\ ~PackageUsable
  /\ FlowSave("idle", MarkFailed(Flow))
  /\ UNCHANGED world

ReconcileReady ==
  /\ Offering("reconcile")
  /\ Flow.status = "ReadyToInstall"
  /\ PackageUsable
  /\ \E auto \in AutoInstall :
       \/ ~(auto /\ app) /\ BackToReady
       \/ auto /\ app /\ FALSE \in AgentSeen /\ BackToReady
       \/ auto /\ app /\ TRUE \in AgentSeen /\ AskToClose(TRUE)
  /\ UNCHANGED world

\* the setting that asked for the wait was switched off
ReconcileStopWaiting ==
  /\ Offering("reconcile")
  /\ Flow.status = "WaitingForAppExit"
  /\ PackageUsable
  /\ Flow.autoWaiting
  /\ FALSE \in AutoInstall
  /\ BackToReady
  /\ UNCHANGED world

KeepsWaiting ==
  /\ Offering("reconcile")
  /\ Flow.status = "WaitingForAppExit"
  /\ PackageUsable
  /\ Flow.autoWaiting => TRUE \in AutoInstall

ReconcileAppOpen ==
  /\ KeepsWaiting
  /\ app
  /\ \/ FALSE \in AgentSeen /\ BackToReady
     \/ /\ TRUE \in AgentSeen
        /\ Persist("flow", "idle", ClearAuthEvent(Flow))
        /\ FlowContext("idle")
  /\ UNCHANGED world

ReconcileAppClosed ==
  /\ KeepsWaiting
  /\ ~app
  /\ \/ AuthRetryBlocked(Flow) /\ FlowTo("idle", Flow)
     \/ ~AuthRetryBlocked(Flow) /\ FALSE \in AgentSeen /\ BackToReady
     \/ ~AuthRetryBlocked(Flow) /\ TRUE \in AgentSeen /\ TriggerInstall(Flow)
  /\ UNCHANGED world

InstallReadyAppOpen ==
  /\ Offering("install_ready")
  /\ Offered
  /\ PackageUsable
  /\ app
  /\ \/ FALSE \in AgentSeen /\ BackToReady
     \/ TRUE \in AgentSeen /\ AskToClose(FALSE)
  /\ UNCHANGED world

InstallReadyAppClosed ==
  /\ Offering("install_ready")
  /\ Offered
  /\ PackageUsable
  /\ ~app
  /\ \/ /\ FALSE \in AgentSeen
        /\ FlowSave("idle", WithStatus(ClearAuthEvent(Flow), "ReadyToInstall"))
     \/ /\ TRUE \in AgentSeen
        /\ TriggerInstall(ClearAuthEvent(Flow))
  /\ UNCHANGED world

-----------------------------------------------------------------------------
(* The rollback command: rollback.rs.                                      *)

RollbackDoc == mem["rollback"]

RollbackTo(to, d) == Continue("rollback", to, d) /\ Context("rollback", to)
RollbackSave(to, d) == Save("rollback", to, d) /\ Context("rollback", to)

RollbackRefused ==
  /\ At("rollback", "decide")
  /\ app \/ RollbackDoc.rollback = None
  /\ RollbackTo("idle", RollbackDoc)
  /\ UNCHANGED world

RollbackPackageGone ==
  /\ At("rollback", "decide")
  /\ ~app
  /\ RollbackDoc.rollback # None
  /\ files[RollbackDoc.rollback] = NoPackage
  /\ RollbackSave("idle", [RollbackDoc EXCEPT !.knownGood = None,
                                              !.rollback = None,
                                              !.rollbackVerified = NoPackage])
  /\ UNCHANGED world

RollbackUnverified ==
  /\ At("rollback", "decide")
  /\ ~app
  /\ RollbackDoc.rollback # None
  /\ files[RollbackDoc.rollback] # NoPackage
  /\ ~Bound(files, RollbackDoc.rollback, RollbackDoc.rollbackVerified)
  /\ RollbackSave("idle", RollbackDoc)
  /\ UNCHANGED world

TriggerRollback ==
  /\ At("rollback", "decide")
  /\ ~app
  /\ Bound(files, RollbackDoc.rollback, RollbackDoc.rollbackVerified)
  /\ Save("rollback", "authorize", [RollbackDoc EXCEPT !.status = "Installing"])
  /\ previous' = RollbackDoc.status
  /\ UNCHANGED <<kind, retry, world>>

-----------------------------------------------------------------------------
(***************************************************************************)
(* The privileged install subcommand: it copies the package, checks the    *)
(* copy against what it was told to expect and, except for a rollback, for *)
(* a version newer than the installed one, and runs the package manager.   *)
(***************************************************************************)
RequestOf(p) ==
  IF p = "flow"
  THEN [path |-> mem[p].package, expected |-> mem[p].packageVerified,
        rollback |-> FALSE]
  ELSE [path |-> mem[p].rollback, expected |-> mem[p].rollbackVerified,
        rollback |-> TRUE]

Installable(r) ==
  /\ files[r.path] = r.expected
  /\ ~r.rollback => r.expected.ver > sys.ver

Installer == {"flow", "rollback"}

Answer(p, to) ==
  /\ At(p, "authorize")
  /\ Continue(p, to, mem[p])
  /\ Context(p, to)

\* the user agrees and the package is installed
PrivilegedInstall(p) ==
  /\ Answer(p, "installed")
  /\ Installable(RequestOf(p))
  /\ sys' = RequestOf(p).expected
  /\ UNCHANGED <<orphans, files, upstream, app, builds, commands, crashes>>

\* a check of the subcommand or the package manager fails
PrivilegedFailure(p) == Answer(p, "refused") /\ UNCHANGED world

\* the dialog is dismissed or cannot be shown: exit status 126 or 127
AuthenticationDenied(p) == Answer(p, "denied") /\ UNCHANGED world

\* pkexec cannot be started: the error is returned, nothing is persisted
LaunchFails(p) == Answer(p, "idle") /\ UNCHANGED world

\* A privileged install whose parent died still ends, either way.
OrphanEnds ==
  \E r \in orphans :
    /\ orphans' = orphans \ {r}
    /\ \/ UNCHANGED sys
       \/ Installable(r) /\ sys' = r.expected
    /\ UNCHANGED <<docs, files, upstream, app, builds, commands, crashes>>

-----------------------------------------------------------------------------
(* The parent reads the exit status.                                       *)

ObserveInstalled ==
  LET d == AfterInstall(Flow, sys.ver)
  IN  /\ At("flow", "installed")
      /\ FlowSave("idle", d)
      /\ files' = PruneWorkspaces(files, d)
      /\ UNCHANGED <<orphans, sys, upstream, app, builds, commands, crashes>>

ObserveDenied ==
  /\ At("flow", "denied")
  /\ FlowSave("idle", DeferInstall(Flow))
  /\ UNCHANGED world

ObserveFailed ==
  /\ At("flow", "refused")
  /\ FlowSave("idle", MarkFailed(Flow))
  /\ UNCHANGED world

\* the identifiers to block come from the document as it was loaded
ObserveRolledBack ==
  LET d == AfterRollback(RollbackDoc, sys.ver)
  IN  /\ At("rollback", "installed")
      /\ RollbackSave("idle", d)
      /\ files' = PruneWorkspaces(files, d)
      /\ UNCHANGED <<orphans, sys, upstream, app, builds, commands, crashes>>

ObserveRollbackDenied ==
  /\ At("rollback", "denied")
  /\ RollbackSave("idle", [RollbackDoc EXCEPT !.status = previous])
  /\ UNCHANGED world

ObserveRollbackFailed ==
  /\ At("rollback", "refused")
  /\ RollbackSave("idle", MarkFailed(RollbackDoc))
  /\ UNCHANGED world

-----------------------------------------------------------------------------
(* The world around the updater.                                           *)

Publish ==
  /\ upstream' \in Replaces[upstream]
  /\ UNCHANGED <<docs, orphans, files, sys, app, builds, commands, crashes>>

OpenApp ==
  /\ ~app
  /\ app' = TRUE
  /\ UNCHANGED <<docs, orphans, files, sys, upstream, builds, commands, crashes>>

CloseApp ==
  /\ app
  /\ app' = FALSE
  /\ UNCHANGED <<docs, orphans, files, sys, upstream, builds, commands, crashes>>

\* the user installs a package by hand, or removes the installed one
InstallByHand ==
  /\ "install" \in Commands
  /\ commands < MaxCommands
  /\ commands' = commands + 1
  /\ sys' \in {ManualPackage(dmg) : dmg \in Dmg} \cup {files[w] : w \in Version}
                \cup {NoPackage}
  /\ UNCHANGED <<docs, orphans, files, upstream, app, builds, crashes>>

(***************************************************************************)
(* A process dies: what it held in memory is lost and its lock is          *)
(* released.  systemd stops the daemon's pkexec child with the daemon; the *)
(* child of a command goes on without it.                                  *)
(***************************************************************************)
Crash(p) ==
  /\ ~At(p, "idle")
  /\ crashes < MaxCrashes
  /\ crashes' = crashes + 1
  /\ orphans' = IF Detached /\ At(p, "authorize")
                THEN orphans \cup {RequestOf(p)} ELSE orphans
  /\ Continue(p, "idle", mem[p])
  /\ Context(p, "idle")
  /\ UNCHANGED <<files, sys, upstream, app, builds, commands>>

-----------------------------------------------------------------------------
Check ==
  \/ SkipPending \/ SkipFresh \/ PrepareUpstreamCheck \/ FetchMetadata
  \/ DownloadTrusted \/ DownloadUntrusted
  \/ MatchInstalled \/ MatchBlocked \/ MatchKnown \/ DetectUpdate
  \/ StepFails \/ FailCheck \/ EndCheck

Build ==
  \/ WipeWorkspace \/ PrepareWorkspace \/ PatchApp \/ BuildPackage
  \/ FinishBuild \/ CheckBuiltVersion

Offer ==
  \/ NothingToOffer \/ PackageUnusable
  \/ ReconcileReady \/ ReconcileStopWaiting
  \/ ReconcileAppOpen \/ ReconcileAppClosed
  \/ InstallReadyAppOpen \/ InstallReadyAppClosed

Observe == ObserveInstalled \/ ObserveDenied \/ ObserveFailed

Shared(p) ==
  SyncEntry(p) \/ Recover(p) \/ CompleteCurrent(p) \/ CompletePending(p)
    \/ Normalize(p)

FlowStep == Shared("flow") \/ Resync \/ Check \/ Build \/ Offer \/ Observe

StatusStep == Shared("status")

RollbackStep ==
  \/ SyncEntry("rollback")
  \/ RollbackRefused \/ RollbackPackageGone \/ RollbackUnverified
  \/ TriggerRollback
  \/ ObserveRolledBack \/ ObserveRollbackDenied \/ ObserveRollbackFailed

Privileged(p) ==
  \/ PrivilegedInstall(p) \/ PrivilegedFailure(p)
  \/ AuthenticationDenied(p) \/ LaunchFails(p)

Environment == Publish \/ OpenApp \/ CloseApp \/ InstallByHand \/ OrphanEnds

Next ==
  \/ \E k \in Kinds : StartFlow(k)
  \/ \E p \in Commands \cap Proc : StartCommand(p)
  \/ FlowStep
  \/ StatusStep
  \/ RollbackStep
  \/ \E p \in Installer : Privileged(p)
  \/ \E p \in Proc : Crash(p)
  \/ Environment

Spec == Init /\ [][Next]_vars

(***************************************************************************)
(* run_daemon: its two timers go on firing, and a flow it starts takes its *)
(* steps; the commands take theirs; an authentication dialog is answered   *)
(* or cannot be shown.  Nobody owes an update, a command or a crash.       *)
(***************************************************************************)
Fairness ==
  /\ \A k \in {"check", "reconcile"} \cap Kinds : SF_vars(StartFlow(k))
  /\ WF_vars(FlowStep)
  /\ WF_vars(StatusStep)
  /\ WF_vars(RollbackStep)
  /\ \A p \in Installer : WF_vars(Privileged(p))

FairSpec == Spec /\ Fairness

-----------------------------------------------------------------------------
Trustworthy(pkg) == pkg.build > 0 => pkg.dmg \in Trusted

\* A package that may be installed as an update.
Update(pkg) ==
  /\ pkg.dmg \in Trusted
  /\ pkg.ver = ManifestVersion[pkg.dmg]

\* the privileged installs asked for and not yet ended
Requests == {RequestOf(p) : p \in {q \in Installer : At(q, "authorize")}} \cup orphans

(* Whatever the flow, the commands, crashes and surviving children         *)
(* interleave, a package built by the updater that is installed, or about  *)
(* to be, comes from a DMG of the trusted manifest, and an update has the  *)
(* version the manifest gives that DMG.                                    *)
OnlyTrustedInstalled ==
  /\ Trustworthy(sys)
  /\ \A r \in Requests :
        Trustworthy(r.expected) /\ (~r.rollback => Update(r.expected))

\* A document whose verified DMG and verified packages can be trusted.
SoundDocument(d) ==
  /\ d.dmgVerified \in Trusted \cup {None}
  /\ Trustworthy(d.packageVerified)
  /\ Trustworthy(d.rollbackVerified)

(* Why OnlyTrustedInstalled holds: what the check of the downloaded DMG    *)
(* established is carried, from step to step and from document to          *)
(* document, to the package that is offered.  No stale copy of the         *)
(* document, whoever writes it, brings back anything less.                 *)
TrustChain ==
  /\ SoundDocument(disk)
  /\ \A p \in Proc : SoundDocument(mem[p])
  /\ \A w \in Version : Trustworthy(files[w])
  /\ Trustworthy(sys)
  /\ At("flow", "match") => Flow.dmgVerified \in Trusted
  /\ pc["flow"] \in BuildPoints => Flow.dmg \in Trusted
  /\ At("flow", "authorize") => Update(Flow.packageVerified)
  /\ \A r \in orphans :
        Trustworthy(r.expected) /\ (~r.rollback => Update(r.expected))

(* "installing" is never the last word: an install that was interrupted,   *)
(* or whose dialog could not be shown, is taken up again.                  *)
InstallingEnds == disk.status = "Installing" ~> disk.status # "Installing"

(* An update that waits for ChatGPT to be closed is tried, or handed back  *)
(* to the user, once ChatGPT is closed.                                    *)
ClosingInstalls ==
  disk.status = "WaitingForAppExit" /\ ~app
    ~> disk.status # "WaitingForAppExit" \/ app

(* An interrupted build does not stay "building": the next check takes it  *)
(* up or reports the failure.                                              *)
BuildEnds ==
  disk.status \in BuildStatus ~> disk.status \notin BuildStatus
=============================================================================
