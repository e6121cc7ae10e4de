----------------------------- MODULE CliRepair -----------------------------
(***************************************************************************)
(* The npm installation of the Codex CLI: preflights of the launcher and   *)
(* of the daemon, and the command repair-cli (codex_cli.rs,                *)
(* npm_cli_repair.rs).  They share the directories npm works on, the CLI   *)
(* half of state.json, a repair journal, and the lock cli-install.lock,    *)
(* which npm's supervisor inherits and holds when the updater is gone.     *)
(* A version is a number, 0 stands for none; what is left out of codex_cli *)
(* is listed in the README.                                                *)
(***************************************************************************)
EXTENDS Integers, FiniteSets

CONSTANTS
  Updater,      \* processes of the updater, one command each at a time
  Nobody,       \* no process
  Versions,     \* bound: versions of the CLI ever published
  MaxCommands,  \* bound on commands
  MaxCrashes,   \* bound on crashes of an updater or a supervisor
  Leftover      \* what an npm killed earlier may have left at the start

ASSUME VersionsAssumption == Versions \in Nat \ {0}
ASSUME NobodyAssumption == Nobody \notin Updater
ASSUME LeftoverAssumption == Leftover \subseteq 0..Versions

VARIABLES
  active, stale,     \* the versions in @openai/codex and in npm's retirement directory
  quarantined,       \* names below .chatgpt-linux-quarantine
  journal,           \* cli-repair.json
  doc,               \* the CLI half of state.json
  lock,              \* who holds the open file that has the lock
  kind, pc,          \* per updater: the command (found: it has a CLI), and where it is
  mem, behind,       \* its copy of the document; whose baseline is not the document
  target,            \* the version it installs
  sup, npm,          \* its npm supervisor, and npm
  registry,          \* the latest version of the registry
  commands, crashes, \* counters for the bounds
  doubt, settled     \* history: an install was cut short or not seen; quarantines reported

disk == <<active, stale, quarantined>>
book == <<doc, behind>>
tool == <<sup, npm>>
job == <<kind, target>>
world == <<registry, commands, crashes>>
history == <<doubt, settled>>
vars == <<disk, journal, book, lock, job, pc, mem, tool, world, history>>
-----------------------------------------------------------------------------
Version == 0..Versions
Status == {"NotInstalled", "Unknown", "UpToDate", "UpdateRequired", "Checking",
           "Updating", "Failed"}
Cli == [version : Version, latest : Version, status : Status]
NoCli == [version |-> 0, latest |-> 0, status |-> "NotInstalled"]

Journal == [stage : {"None", "Detected", "Planned", "Quarantined"},
            names : SUBSET (Nat \ {0}), planned : Nat]
NoJournal == [stage |-> "None", names |-> {}, planned |-> 0]
Detected == [NoJournal EXCEPT !.stage = "Detected"]
Pending == journal.stage # "None"

\* Where a command waits for the lock, and where it holds it.
Routine == {"verify", "refresh", "checking", "result", "updating", "told"}
Waiting == Routine \cup {"missing", "install", "repair"}
Locked == {"lookup", "locked", "npm", "detected", "resolve", "quarantine",
           "repairing", "clear"}
Points == Waiting \cup Locked \cup {"idle", "probe", "ask", "dead"}

Exits == {"ok", "enotempty", "failed"}
Working == {"start", "retired", "placing", "unpacked"}

Init ==
  /\ active \in {0, 1} /\ stale \in Leftover /\ quarantined = {}
  /\ journal = NoJournal
  /\ doc = NoCli /\ behind = {}
  /\ lock = Nobody
  /\ kind = [p \in Updater |-> "none"]
  /\ pc = [p \in Updater |-> "idle"]
  /\ mem = [p \in Updater |-> NoCli]
  /\ target = [p \in Updater |-> 0]
  /\ sup = [p \in Updater |-> "none"] /\ npm = [p \in Updater |-> "none"]
  /\ registry = 1 /\ commands = 0 /\ crashes = 0
  /\ doubt = FALSE /\ settled = {}

TypeOK ==
  /\ active \in Version /\ stale \in Version /\ quarantined \in SUBSET (Nat \ {0})
  /\ journal \in Journal
  /\ doc \in Cli /\ behind \in SUBSET Updater
  /\ lock \in Updater \cup {Nobody}
  /\ kind \in [Updater -> {"none", "launch", "daemon", "missing", "found", "repair"}]
  /\ pc \in [Updater -> Points]
  /\ mem \in [Updater -> Cli]
  /\ target \in [Updater -> Version]
  /\ sup \in [Updater -> {"none", "new", "checked", "up"} \cup Exits]
  /\ npm \in [Updater -> {"none"} \cup Working \cup Exits]
  /\ registry \in Version /\ commands \in Nat /\ crashes \in Nat
  /\ doubt \in BOOLEAN /\ settled \in SUBSET (Nat \ {0})
-----------------------------------------------------------------------------
\* The command goes on at another point with this copy of the document.
Goes(p, point, copy) ==
  /\ pc' = [pc EXCEPT ![p] = point]
  /\ mem' = [mem EXCEPT ![p] = copy]

\* The command ends; its memory goes with it.
Ends(p) ==
  /\ Goes(p, "idle", NoCli)
  /\ kind' = [kind EXCEPT ![p] = "none"]
  /\ target' = [target EXCEPT ![p] = 0]

\* A save of the document: every running command that has not seen it is behind,
\* unless it wrote what was there (times and messages are not modelled).
Saves(p, copy) ==
  /\ doc' = copy
  /\ \/ behind' = {q \in Updater \ {p} : pc[q] # "idle"}
     \/ copy = doc /\ behind' = behind \ {p}

\* save_cli_status leaves the rest of the document alone.
SavesStatus(p, status) == Saves(p, [doc EXCEPT !.status = status])

\* Mutant of Current: a routine write does not look for newer ones.
CurrentMutant(p) == TRUE

\* save_cli_if_unchanged compares the document with the command's baseline.
Current(p) == p \notin behind

\* The comparison of refresh_cli_status_from_latest, for an npm installation.
Compared(copy) ==
  [copy EXCEPT !.status = IF copy.latest = 0 THEN "Unknown"
                          ELSE IF copy.version >= copy.latest THEN "UpToDate"
                          ELSE "UpdateRequired"]

With(p, status) == [mem[p] EXCEPT !.status = status]

\* Mutant of Released: the supervisor does not inherit the lock.
ReleasedMutant(p) == IF lock = p THEN Nobody ELSE lock

\* The lock stays with the supervisor of an updater that is gone.
Released(p) ==
  IF lock = p /\ sup[p] \notin {"new", "checked", "up"} THEN Nobody ELSE lock
-----------------------------------------------------------------------------
(***************************************************************************)
(* A preflight.  It looks at the CLI without the lock, so what it saw may  *)
(* be old whenever it writes.                                              *)
(***************************************************************************)
Start(p) ==
  /\ pc[p] = "idle" /\ commands < MaxCommands
  /\ commands' = commands + 1
  /\ \/ /\ kind' \in {[kind EXCEPT ![p] = k] : k \in {"launch", "daemon"}}
        /\ Goes(p, "probe", doc)
     \/ /\ kind' = [kind EXCEPT ![p] = "repair"]
        /\ Goes(p, "repair", doc)
  /\ behind' = behind \ {p}
  /\ UNCHANGED <<disk, journal, doc, lock, target, tool, registry, crashes, history>>

\* The installed version is read; the last answer of the registry may be fresh.
Probe(p) ==
  /\ pc[p] = "probe"
  /\ \/ /\ active # 0
        /\ kind' = [kind EXCEPT ![p] = "found"]
        /\ Goes(p, "verify", [mem[p] EXCEPT !.version = active])
     \/ /\ active # 0 /\ mem[p].version = active /\ mem[p].latest # 0
        /\ kind' = [kind EXCEPT ![p] = "found"]
        /\ Goes(p, "refresh", mem[p])
     \/ /\ active = 0 /\ kind[p] = "launch"
        /\ kind' = [kind EXCEPT ![p] = "missing"]
        /\ Goes(p, "missing", mem[p])
     \/ /\ active = 0 /\ kind[p] = "daemon"
        /\ Goes(p, "told", [With(p, "NotInstalled") EXCEPT !.version = 0])
        /\ UNCHANGED kind
  /\ UNCHANGED <<disk, journal, book, lock, target, tool, world, history>>

\* The version cannot be read.  Only a CLI just installed is told of.
ProbeFails(p) ==
  /\ pc[p] = "probe"
  /\ IF kind[p] = "missing"
       THEN Goes(p, "told", With(p, "Failed")) /\ UNCHANGED <<job, behind>>
       ELSE Ends(p) /\ behind' = behind \ {p}
  /\ UNCHANGED <<disk, journal, doc, lock, tool, world, history>>

\* Where a preflight goes when persist_routine_state has kept its copy.
Continue(p) ==
  \/ pc[p] = "verify" /\ Goes(p, "checking", With(p, "Checking")) /\ UNCHANGED job
  \/ pc[p] = "refresh" /\ Goes(p, "told", Compared(mem[p])) /\ UNCHANGED job
  \/ pc[p] = "checking" /\ Goes(p, "ask", mem[p]) /\ UNCHANGED job
  \/ pc[p] = "result" /\ mem[p].status = "UpToDate" /\ Ends(p)
  \/ /\ pc[p] = "result" /\ mem[p].status # "UpToDate"
     /\ Goes(p, "updating", With(p, "Updating"))
     /\ UNCHANGED job
  \/ pc[p] = "updating" /\ Goes(p, "install", mem[p]) /\ UNCHANGED job
  \/ pc[p] = "told" /\ Ends(p)

\* persist_routine_state: one short use of the lock, and three ends to it.
Persist(p) ==
  /\ pc[p] \in Routine /\ lock = Nobody
  /\ \/ Pending /\ SavesStatus(p, "UpdateRequired") /\ Ends(p)
     \/ ~Pending /\ ~Current(p) /\ Ends(p) /\ behind' = behind \ {p} /\ UNCHANGED doc
     \/ ~Pending /\ Current(p) /\ Saves(p, mem[p]) /\ Continue(p)
  /\ UNCHANGED <<disk, journal, lock, tool, world, history>>

\* acquire_install_lock times out; what wanted to install tells of it.
GiveUp(p) ==
  /\ pc[p] \in Waiting /\ lock # Nobody
  /\ IF pc[p] \in {"missing", "install"}
       THEN Goes(p, "told", With(p, "Failed")) /\ UNCHANGED <<job, behind>>
       ELSE Ends(p) /\ behind' = behind \ {p}
  /\ UNCHANGED <<disk, journal, doc, lock, tool, world, history>>

\* The registry answers, or the query fails; it may also take for ever.
Ask(p) ==
  /\ pc[p] = "ask"
  /\ \/ Goes(p, "result", Compared([mem[p] EXCEPT !.latest = registry]))
     \/ Goes(p, "told", [With(p, "Unknown") EXCEPT !.latest = 0])
  /\ UNCHANGED <<disk, journal, book, lock, job, tool, world, history>>
-----------------------------------------------------------------------------
(***************************************************************************)
(* An installation.  The lock is held from here on, and the document read  *)
(* under it stays true.                                                    *)
(***************************************************************************)
\* record_managed_install and save_cli, by who has looked under the lock.
Recorded(p) == [version |-> active, latest |-> target[p], status |-> "UpToDate"]

\* The record bears the time, so no other copy is of this document.
Record(p) ==
  /\ doc' = Recorded(p)
  /\ behind' = {q \in Updater \ {p} : pc[q] # "idle"}
  /\ doubt' = FALSE

\* The installation ends without a CLI: the lock is released, then it is told.
Fails(p) ==
  /\ lock' = Nobody
  /\ Goes(p, "told", With(p, "Failed"))

\* What follows an installation that was recorded; the lock is released.
Installed(p) ==
  /\ Record(p)
  /\ lock' = Nobody
  /\ Goes(p, IF kind[p] = "missing" THEN "probe" ELSE "told",
          IF active = target[p] THEN Recorded(p)
                                ELSE [Recorded(p) EXCEPT !.status = "Failed"])

\* set_cli_repair_required, save_cli_status, and the answer RepairRequired.
Required(p) ==
  /\ SavesStatus(p, "UpdateRequired")
  /\ lock' = Nobody
  /\ Goes(p, "told",
          [doc EXCEPT !.status = IF kind[p] = "missing" THEN "Failed" ELSE "UpdateRequired"])

\* install_latest_cli takes the lock.
Install(p) ==
  /\ pc[p] = "install" /\ lock = Nobody
  /\ lock' = p
  /\ target' = [target EXCEPT ![p] = mem[p].latest]
  /\ Goes(p, "locked", mem[p])
  /\ UNCHANGED <<disk, journal, book, kind, tool, world, history>>

\* install_missing_cli takes the lock, reads the document again and looks again.
InstallMissing(p) ==
  /\ pc[p] = "missing" /\ lock = Nobody
  /\ \/ /\ active # 0
        /\ Goes(p, "probe", doc)
        /\ kind' = [kind EXCEPT ![p] = "found"]
        /\ behind' = behind \ {p}
        /\ UNCHANGED <<doc, lock>>
     \/ active = 0 /\ Pending /\ Required(p) /\ UNCHANGED kind
     \/ /\ active = 0 /\ ~Pending
        /\ lock' = p
        /\ Saves(p, [doc EXCEPT !.status = "Updating"])
        /\ Goes(p, "lookup", [doc EXCEPT !.status = "Updating"])
        /\ UNCHANGED kind
  /\ UNCHANGED <<disk, journal, target, tool, world, history>>

\* A missing CLI has no version to install yet.
Lookup(p) ==
  /\ pc[p] = "lookup"
  /\ \/ /\ Saves(p, [mem[p] EXCEPT !.latest = registry])
        /\ target' = [target EXCEPT ![p] = registry]
        /\ Goes(p, "locked", [mem[p] EXCEPT !.latest = registry])
        /\ UNCHANGED lock
     \/ Fails(p) /\ UNCHANGED <<book, target>>
  /\ UNCHANGED <<disk, journal, kind, tool, world, history>>

Spawn(p) ==
  /\ sup' = [sup EXCEPT ![p] = "new"]
  /\ Goes(p, "npm", mem[p])

\* install_latest_cli_locked, before npm; the look at the CLI may fail.
InstallLocked(p) ==
  /\ pc[p] = "locked"
  /\ \/ Pending /\ Required(p) /\ UNCHANGED <<sup, doubt>>
     \/ ~Pending /\ active >= target[p] /\ Installed(p) /\ UNCHANGED sup
     \/ ~Pending /\ active < target[p] /\ Spawn(p) /\ UNCHANGED <<book, lock, doubt>>
     \/ ~Pending /\ Fails(p) /\ UNCHANGED <<book, sup, doubt>>
  /\ UNCHANGED <<disk, journal, kind, target, npm, world, settled>>

\* A routine installation reads how npm ended.
NpmEnded(p) ==
  /\ pc[p] = "npm" /\ kind[p] # "repair" /\ sup[p] \in Exits
  /\ sup' = [sup EXCEPT ![p] = "none"]
  /\ \/ /\ sup[p] = "ok" /\ active >= target[p]
        /\ Installed(p)
        /\ UNCHANGED journal
     \/ /\ sup[p] = "enotempty"
        /\ journal' = Detected
        /\ Goes(p, "detected", mem[p])
        /\ UNCHANGED <<book, lock, doubt>>
     \/ /\ sup[p] # "enotempty"
        /\ Fails(p)
        /\ doubt' = (doubt \/ sup[p] = "ok")
        /\ UNCHANGED <<journal, book>>
  /\ UNCHANGED <<disk, kind, target, npm, world, settled>>

Tell(p) ==
  /\ pc[p] = "detected"
  /\ Required(p)
  /\ UNCHANGED <<disk, journal, kind, target, tool, world, history>>
-----------------------------------------------------------------------------
(***************************************************************************)
(* The command repair-cli.                                                 *)
(***************************************************************************)
\* validate_journal: what a repair insists on before it does anything.
Repairable ==
  /\ Pending
  /\ journal.stage = "Detected" => active # 0
  /\ journal.names \subseteq quarantined

Repair(p) ==
  /\ pc[p] = "repair" /\ lock = Nobody
  /\ IF Repairable
       THEN lock' = p /\ Goes(p, "resolve", mem[p]) /\ UNCHANGED <<job, behind>>
       ELSE Ends(p) /\ behind' = behind \ {p} /\ UNCHANGED lock
  /\ UNCHANGED <<disk, journal, doc, tool, world, history>>

\* cli_repair_failure_error writes the document that was loaded at the start.
RepairFails(p) ==
  /\ Saves(p, With(p, "Failed"))
  /\ lock' = Nobody
  /\ Ends(p)

Resolve(p) ==
  /\ pc[p] = "resolve"
  /\ \/ /\ target' = [target EXCEPT ![p] = registry]
        /\ Goes(p, "quarantine", mem[p])
        /\ UNCHANGED <<book, lock, kind>>
     \/ RepairFails(p)
  /\ UNCHANGED <<disk, journal, tool, world, history>>

\* A new name is written down before anything is moved.
PlanQuarantine(p) ==
  /\ pc[p] = "quarantine" /\ journal.stage # "Planned" /\ stale # 0
  /\ journal' = [journal EXCEPT !.stage = "Planned", !.planned = Cardinality(quarantined) + 1]
  /\ UNCHANGED <<disk, book, lock, job, pc, mem, tool, world, history>>

Planned == journal.stage = "Planned"

\* reconcile_planned_quarantine: the move, or the record of what it finds.
Move(p) ==
  /\ pc[p] = "quarantine" /\ Planned
  /\ stale # 0 /\ journal.planned \notin quarantined
  /\ stale' = 0
  /\ quarantined' = quarantined \cup {journal.planned}
  /\ UNCHANGED <<active, journal, book, lock, job, pc, mem, tool, world, history>>

Reconcile(p) ==
  /\ pc[p] = "quarantine" /\ Planned
  /\ stale = 0 \/ journal.planned \in quarantined
  /\ journal' = [stage |-> "Quarantined", planned |-> 0,
                 names |-> journal.names \cup (quarantined \cap {journal.planned})]
  /\ UNCHANGED <<disk, book, lock, job, pc, mem, tool, world, history>>

\* Mutant of NothingStale: the journal is not brought up to date.
NothingStaleMutant(p) ==
  /\ pc[p] = "quarantine" /\ ~Planned /\ stale = 0
  /\ Goes(p, "repairing", mem[p])
  /\ UNCHANGED <<disk, journal, book, lock, job, tool, world, history>>

\* The user, or an npm that rolled back, has removed what was stale.
NothingStale(p) ==
  /\ pc[p] = "quarantine" /\ ~Planned /\ stale = 0
  /\ journal' = [journal EXCEPT !.stage = "Quarantined"]
  /\ Goes(p, "repairing", mem[p])
  /\ UNCHANGED <<disk, book, lock, job, tool, world, history>>

\* The stale directory is not one that may be moved, or the move fails.
QuarantineFails(p) ==
  /\ pc[p] = "quarantine" /\ stale # 0
  /\ RepairFails(p)
  /\ UNCHANGED <<disk, journal, tool, world, history>>

\* complete_cli_repair, up to the removal of the journal.
Completed(p) ==
  /\ Record(p)
  /\ Goes(p, "clear", Recorded(p))

Reinstall(p) ==
  /\ pc[p] = "repairing"
  /\ \/ active >= target[p] /\ Completed(p) /\ UNCHANGED sup
     \/ Spawn(p) /\ UNCHANGED <<book, doubt>>
  /\ UNCHANGED <<disk, journal, lock, kind, target, npm, world, settled>>

Reinstalled(p) ==
  /\ pc[p] = "npm" /\ kind[p] = "repair" /\ sup[p] \in Exits
  /\ sup' = [sup EXCEPT ![p] = "none"]
  /\ \/ /\ sup[p] = "ok" /\ active >= target[p]
        /\ Completed(p)
        /\ UNCHANGED <<lock, job>>
     \/ RepairFails(p) /\ doubt' = (doubt \/ sup[p] = "ok")
  /\ UNCHANGED <<disk, journal, npm, world, settled>>

\* The journal is removed last: a crash before this step leaves the repair due.
Clear(p) ==
  /\ pc[p] = "clear"
  /\ journal' = NoJournal
  /\ settled' = quarantined
  /\ lock' = Nobody
  /\ Ends(p)
  /\ behind' = behind \ {p}
  /\ UNCHANGED <<disk, doc, tool, world, doubt>>
-----------------------------------------------------------------------------
(***************************************************************************)
(* npm under its supervisor.  npm moves the package aside, puts the new    *)
(* one in its place, removes the old; when it fails it moves it back.      *)
(***************************************************************************)
\* run_npm_supervisor looks for its owner, then starts npm.
Check(p) ==
  /\ sup[p] = "new" /\ pc[p] # "dead"
  /\ sup' = [sup EXCEPT ![p] = "checked"]
  /\ UNCHANGED <<disk, journal, book, lock, job, pc, mem, npm, world, history>>

Begin(p) ==
  /\ sup[p] = "checked"
  /\ sup' = [sup EXCEPT ![p] = "up"]
  /\ npm' = [npm EXCEPT ![p] = "start"]
  /\ UNCHANGED <<disk, journal, book, lock, job, pc, mem, world, history>>

\* A supervisor is gone, with npm and, if its owner is, with the lock.
Gone(p, exit) ==
  /\ npm' = [npm EXCEPT ![p] = "none"]
  /\ IF pc[p] = "dead"
       THEN /\ sup' = [sup EXCEPT ![p] = "none"]
            /\ lock' = Nobody
            /\ Ends(p)
       ELSE /\ sup' = [sup EXCEPT ![p] = exit]
            /\ UNCHANGED <<lock, pc, mem, job>>

\* npm has ended.
Leave(p) ==
  /\ sup[p] = "up" /\ npm[p] \in Exits
  /\ Gone(p, npm[p])
  /\ UNCHANGED <<disk, journal, book, world, history>>

\* The owner is gone.
Abandoned(p) ==
  /\ pc[p] = "dead"
  /\ sup[p] = "new" \/ sup[p] = "up"
  /\ Gone(p, "failed")
  /\ UNCHANGED <<disk, journal, book, world, history>>

\* Mutant of Expired: npm has as long as it likes.
ExpiredMutant(p) == FALSE

\* The time npm has is over.
Expired(p) ==
  /\ sup[p] = "up" /\ npm[p] \in Working
  /\ Gone(p, "failed")
  /\ doubt' = TRUE
  /\ UNCHANGED <<disk, journal, book, world, settled>>

Retire(p) ==
  /\ npm[p] = "start"
  /\ \/ /\ active # 0 /\ stale = 0
        /\ active' = 0 /\ stale' = active
        /\ npm' = [npm EXCEPT ![p] = "retired"]
     \/ /\ active # 0 /\ stale # 0
        /\ npm' = [npm EXCEPT ![p] = "enotempty"]
        /\ UNCHANGED <<active, stale>>
     \/ /\ active = 0
        /\ npm' = [npm EXCEPT ![p] = "placing"]
        /\ UNCHANGED <<active, stale>>
  /\ UNCHANGED <<quarantined, journal, book, lock, job, pc, mem, sup, world, history>>

Unpack(p) ==
  /\ npm[p] \in {"retired", "placing"}
  /\ active' = target[p]
  /\ npm' = [npm EXCEPT ![p] = IF npm[p] = "retired" THEN "unpacked" ELSE "ok"]
  /\ UNCHANGED <<stale, quarantined, journal, book, lock, job, pc, mem, sup,
                 world, history>>

RemoveOld(p) ==
  /\ npm[p] = "unpacked"
  /\ stale' = 0
  /\ npm' = [npm EXCEPT ![p] = "ok"]
  /\ UNCHANGED <<active, quarantined, journal, book, lock, job, pc, mem, sup,
                 world, history>>

RollBack(p) ==
  /\ npm[p] \in {"start", "retired", "placing"}
  /\ IF npm[p] = "retired" THEN active' = stale /\ stale' = 0 ELSE UNCHANGED <<active, stale>>
  /\ npm' = [npm EXCEPT ![p] = "failed"]
  /\ UNCHANGED <<quarantined, journal, book, lock, job, pc, mem, sup, world, history>>
-----------------------------------------------------------------------------
(***************************************************************************)
(* The world: crashes, the registry, a user who removes what is stale.     *)
(***************************************************************************)
Crash(p) ==
  /\ pc[p] \notin {"idle", "dead"} /\ crashes < MaxCrashes
  /\ crashes' = crashes + 1
  /\ lock' = Released(p)
  /\ IF sup[p] \in {"new", "checked", "up"}
       THEN Goes(p, "dead", NoCli) /\ UNCHANGED <<job, sup>>
       ELSE Ends(p) /\ sup' = [sup EXCEPT ![p] = "none"]
  /\ behind' = behind \ {p}
  /\ doubt' = (doubt \/ lock = p)
  /\ UNCHANGED <<disk, journal, doc, npm, registry, commands, settled>>

\* The supervisor is killed; the kernel kills npm with it (PR_SET_PDEATHSIG).
CrashSupervisor(p) ==
  /\ sup[p] \in {"new", "checked", "up"} /\ crashes < MaxCrashes
  /\ crashes' = crashes + 1
  /\ Gone(p, "failed")
  /\ doubt' = TRUE
  /\ UNCHANGED <<disk, journal, book, registry, commands, settled>>

Publish ==
  /\ registry < Versions
  /\ registry' = registry + 1
  /\ UNCHANGED <<disk, journal, book, lock, job, pc, mem, tool, commands, crashes,
                 history>>

RemoveStale ==
  /\ stale # 0 /\ Pending /\ \A p \in Updater : npm[p] = "none"
  /\ stale' = 0
  /\ UNCHANGED <<active, quarantined, journal, book, lock, job, pc, mem, tool,
                 world, history>>

Step(p) ==
  \/ Probe(p) \/ ProbeFails(p) \/ Persist(p) \/ GiveUp(p) \/ Ask(p)
  \/ Install(p) \/ InstallMissing(p) \/ Lookup(p) \/ InstallLocked(p)
  \/ NpmEnded(p) \/ Tell(p)
  \/ Repair(p) \/ Resolve(p) \/ PlanQuarantine(p) \/ Move(p) \/ Reconcile(p)
  \/ NothingStale(p) \/ QuarantineFails(p) \/ Reinstall(p) \/ Reinstalled(p) \/ Clear(p)

Supervise(p) == Check(p) \/ Begin(p) \/ Leave(p) \/ Abandoned(p) \/ Expired(p)

Npm(p) == Retire(p) \/ Unpack(p) \/ RemoveOld(p) \/ RollBack(p)

Next ==
  \/ \E p \in Updater :
       Start(p) \/ Step(p) \/ Supervise(p) \/ Npm(p) \/ Crash(p) \/ CrashSupervisor(p)
  \/ Publish \/ RemoveStale

\* npm need not go on, its time ends.  The registry need not answer a preflight:
\* `npm view` runs without a limit there.
Fairness ==
  \A p \in Updater : WF_vars(pc[p] # "ask" /\ Step(p)) /\ WF_vars(Supervise(p))

Spec == Init /\ [][Next]_vars /\ Fairness
-----------------------------------------------------------------------------
\* While npm works for one updater, also for one that is gone, no other updater
\* has npm at work, or installs, repairs or moves anything under the lock.
OneInstall ==
  \A p, q \in Updater :
    npm[p] # "none" /\ (npm[q] # "none" \/ pc[q] \in Locked) => p = q

\* Whatever is cut short, a journal that is pending can be repaired, and every
\* directory that was put into quarantine is named by it or was reported.
Recoverable ==
  /\ Pending => Repairable
  /\ quarantined \subseteq journal.names \cup {journal.planned} \cup settled

\* A version in the document is the installed one, unless an installation is
\* under way, was cut short or not seen, or a repair is due.
DocumentTrue ==
  lock = Nobody /\ ~Pending /\ ~doubt => doc.version \in {0, active}

\* The lock is given back, whatever npm, crashes and the registry do, and every
\* command ends, unless a preflight waits for a registry that never answers it,
\* which it does without the lock.
ComesFree ==
  \A p \in Updater :
    /\ lock = p ~> lock # p
    /\ pc[p] # "idle" ~> (pc[p] = "idle" \/ [](pc[p] = "ask" /\ lock # p))
=============================================================================
