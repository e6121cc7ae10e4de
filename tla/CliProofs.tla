------------------------------ MODULE CliProofs ------------------------------
(***************************************************************************)
(* Proofs about CliRepair, for any number of updaters, versions, commands  *)
(* and crashes: the type of the state, that installations never overlap,   *)
(* that a repair that was cut short can be taken up again, and that the    *)
(* document names the version that is installed.                           *)
(***************************************************************************)
EXTENDS CliRepair, FiniteSetTheorems, TLAPS

\* There are finitely many names in the quarantine, so that a new one can be made
\* up, and the journal has one exactly while a move is planned.
NamesOK ==
  /\ IsFiniteSet(quarantined)
  /\ Planned <=> journal.planned # 0

\* Who may be where it may only be with the lock.  npm runs exactly while its
\* supervisor is up, and a supervisor only for who waits for it or is gone.
LockKept ==
  \A p \in Updater :
    /\ pc[p] \in Locked => lock = p
    /\ sup[p] # "none" => lock = p /\ pc[p] \in {"npm", "dead"}
    /\ pc[p] = "dead" => sup[p] # "none"
    /\ npm[p] # "none" => sup[p] = "up"

\* The stage of the journal agrees with what the journal names.
JournalSound ==
  /\ journal.names \subseteq quarantined
  /\ ~Pending => journal.names = {}
  /\ quarantined \subseteq journal.names \cup {journal.planned} \cup settled
  /\ journal.stage = "Detected" => active # 0

\* Only the command repair-cli goes through the points of a repair.
RepairPoints == {"repair", "resolve", "quarantine", "repairing", "clear"}
KindKept ==
  \A p \in Updater :
    /\ pc[p] \in RepairPoints => kind[p] = "repair"
    /\ pc[p] \notin RepairPoints \cup {"idle", "npm", "dead"} => kind[p] # "repair"

\* npm works without a journal, or for a repair that has nothing left to move.
NpmAllowed ==
  \A p \in Updater :
    /\ pc[p] = "repairing" => journal.stage = "Quarantined"
    /\ pc[p] \in {"npm", "dead"} =>
         journal.stage = IF kind[p] = "repair" THEN "Quarantined" ELSE "None"
    /\ npm[p] = "enotempty" \/ sup[p] = "enotempty" => active # 0

-----------------------------------------------------------------------------
(* The type of the state. *)

\* A point a command goes to, and the copy of the document it takes along.
LEMMA GoesType ==
  ASSUME TypeOK, NEW p \in Updater, NEW point \in Points, NEW copy \in Cli,
         Goes(p, point, copy)
  PROVE  pc' \in [Updater -> Points] /\ mem' \in [Updater -> Cli]
BY DEF TypeOK, Goes

\* There is a document that names no CLI.
LEMMA NoCliType == NoCli \in Cli
BY VersionsAssumption DEF NoCli, Cli, Version, Status

\* A command that ends leaves its variables typed.
LEMMA EndsType ==
  ASSUME TypeOK, NEW p \in Updater, Ends(p)
  PROVE  /\ pc' \in [Updater -> Points] /\ mem' \in [Updater -> Cli]
         /\ kind' \in [Updater -> {"none", "launch", "daemon", "missing", "found", "repair"}]
         /\ target' \in [Updater -> Version]
<1>1. "idle" \in Points BY DEF Points
<1>2. 0 \in Version BY VersionsAssumption DEF Version
<1> QED BY <1>1, <1>2, NoCliType, GoesType DEF Ends, TypeOK

\* A saved copy leaves the document typed.
LEMMA SavesType ==
  ASSUME TypeOK, NEW p \in Updater, NEW copy \in Cli, Saves(p, copy)
  PROVE  doc' \in Cli /\ behind' \in SUBSET Updater
BY DEF TypeOK, Saves

\* Changes of one field of a copy.
LEMMA CliFields ==
  ASSUME NEW copy \in Cli, NEW s \in Status, NEW v \in Version
  PROVE  /\ [copy EXCEPT !.status = s] \in Cli
         /\ [copy EXCEPT !.latest = v] \in Cli
         /\ [copy EXCEPT !.version = v] \in Cli
         /\ Compared(copy) \in Cli
<1>1. \A t \in Status : [copy EXCEPT !.status = t] \in Cli BY DEF Cli
<1>2. {"Unknown", "UpToDate", "UpdateRequired"} \subseteq Status BY DEF Status
<1>3. [copy EXCEPT !.latest = v] \in Cli /\ [copy EXCEPT !.version = v] \in Cli
  BY DEF Cli
<1> QED BY <1>1, <1>2, <1>3 DEF Compared

\* A status written over the copy of a command.
LEMMA WithType ==
  ASSUME TypeOK, NEW p \in Updater, NEW s \in Status
  PROVE  With(p, s) \in Cli
BY DEF TypeOK, With, Cli

\* What is recorded of an installation.
LEMMA RecordedType ==
  ASSUME TypeOK, NEW p \in Updater
  PROVE  Recorded(p) \in Cli
BY DEF TypeOK, Recorded, Cli, Status

\* The kinds of commands, and the statuses and points by name.
KindType == {"none", "launch", "daemon", "missing", "found", "repair"}
StatusNames == {"NotInstalled", "Unknown", "UpToDate", "UpdateRequired", "Checking",
                "Updating", "Failed"}

\* What the actions of p read is typed.
LEMMA Reads ==
  ASSUME TypeOK, NEW p \in Updater
  PROVE  /\ doc \in Cli /\ mem[p] \in Cli /\ mem \in [Updater -> Cli]
         /\ pc \in [Updater -> Points] /\ kind \in [Updater -> KindType]
         /\ target \in [Updater -> Version]
         /\ registry \in Version /\ 0 \in Version /\ active \in Version
         /\ stale \in Version /\ behind \in SUBSET Updater
         /\ commands \in Nat /\ commands + 1 \in Nat
         /\ crashes \in Nat /\ crashes + 1 \in Nat
BY VersionsAssumption DEF TypeOK, Version, KindType

\* What they make of it is typed.
LEMMA Copies ==
  ASSUME TypeOK, NEW p \in Updater
  PROVE  /\ \A s \in StatusNames : With(p, s) \in Cli
         /\ \A s \in StatusNames, c \in Cli : [c EXCEPT !.status = s] \in Cli
         /\ \A v \in Version, c \in Cli :
              /\ [c EXCEPT !.latest = v] \in Cli /\ [c EXCEPT !.version = v] \in Cli
              /\ Compared(c) \in Cli
         /\ Recorded(p) \in Cli
<1>1. StatusNames = Status BY DEF Status, StatusNames
<1>2. "Failed" \in Status BY DEF Status
<1>3. \A s \in Status, v \in Version, c \in Cli :
        /\ [c EXCEPT !.status = s] \in Cli
        /\ [c EXCEPT !.latest = v] \in Cli /\ [c EXCEPT !.version = v] \in Cli
        /\ Compared(c) \in Cli
  BY CliFields
<1> QED BY <1>1, <1>2, <1>3, Reads, WithType, RecordedType

\* Where they go is a point.
LEMMA Going ==
  ASSUME TypeOK, NEW p \in Updater
  PROVE  /\ Points = {"verify", "refresh", "checking", "result", "updating", "told",
                      "missing", "install", "repair", "lookup", "locked", "npm",
                      "detected", "resolve", "quarantine", "repairing", "clear",
                      "idle", "probe", "ask", "dead"}
         /\ \A point \in Points, copy \in Cli :
              Goes(p, point, copy) =>
                pc' \in [Updater -> Points] /\ mem' \in [Updater -> Cli]
         /\ Ends(p) => /\ pc' \in [Updater -> Points] /\ mem' \in [Updater -> Cli]
                       /\ kind' \in [Updater -> KindType]
                       /\ target' \in [Updater -> Version]
         /\ \A copy \in Cli :
              Saves(p, copy) => doc' \in Cli /\ behind' \in SUBSET Updater
         /\ SavesStatus(p, "UpdateRequired") => doc' \in Cli /\ behind' \in SUBSET Updater
<1>1. Points = {"verify", "refresh", "checking", "result", "updating", "told",
                "missing", "install", "repair", "lookup", "locked", "npm",
                "detected", "resolve", "quarantine", "repairing", "clear",
                "idle", "probe", "ask", "dead"}
  BY DEF Points, Waiting, Routine, Locked
<1>2. Ends(p) => /\ pc' \in [Updater -> Points] /\ mem' \in [Updater -> Cli]
                 /\ kind' \in [Updater -> KindType]
                 /\ target' \in [Updater -> Version]
  BY EndsType DEF KindType
<1>3. SavesStatus(p, "UpdateRequired") => doc' \in Cli /\ behind' \in SUBSET Updater
  BY SavesType, Reads, Copies DEF SavesStatus, StatusNames
<1> QED BY <1>1, <1>2, <1>3, GoesType, SavesType

\* A preflight keeps the type, up to its wait for an installation.
LEMMA PreflightTyped ==
  ASSUME TypeOK, NamesOK, NEW p \in Updater,
         Start(p) \/ Probe(p) \/ ProbeFails(p) \/ Persist(p) \/ GiveUp(p) \/ Ask(p)
  PROVE  TypeOK' /\ NamesOK'
<1> USE Reads, Going
<1>1. CASE Start(p)
  BY <1>1 DEF TypeOK, NamesOK, Planned, KindType, Start, disk, tool, history
<1>2. CASE Probe(p)
  <2>1. [With(p, "NotInstalled") EXCEPT !.version = 0] \in Cli
    BY Copies DEF StatusNames
  <2>2. [mem[p] EXCEPT !.version = active] \in Cli
    BY Copies
  <2> QED
    BY <1>2, <2>1, <2>2
    DEF TypeOK, NamesOK, Planned, KindType, Probe, disk, book, tool, world, history
<1>3. CASE ProbeFails(p)
  <2>1. With(p, "Failed") \in Cli BY Copies DEF StatusNames
  <2> QED
    BY <1>3, <2>1 DEF TypeOK, NamesOK, Planned, KindType, ProbeFails, disk, job, tool, world, history
<1>4. CASE Persist(p)
  <2>1. With(p, "Checking") \in Cli /\ With(p, "Updating") \in Cli
    BY Copies DEF StatusNames
  <2>2. Compared(mem[p]) \in Cli BY Copies
  <2>3. Continue(p) => /\ pc' \in [Updater -> Points] /\ mem' \in [Updater -> Cli]
                       /\ kind' \in [Updater -> KindType]
                       /\ target' \in [Updater -> Version]
    BY <2>1, <2>2 DEF Continue, job
  <2> QED
    BY <1>4, <2>3 DEF TypeOK, NamesOK, Planned, KindType, Persist, disk, tool, world, history
<1>5. CASE GiveUp(p)
  <2>1. With(p, "Failed") \in Cli BY Copies DEF StatusNames
  <2> QED
    BY <1>5, <2>1 DEF TypeOK, NamesOK, Planned, KindType, GiveUp, disk, job, tool, world, history
<1>6. CASE Ask(p)
  <2>1. [With(p, "Unknown") EXCEPT !.latest = 0] \in Cli
    BY Copies DEF StatusNames
  <2>2. Compared([mem[p] EXCEPT !.latest = registry]) \in Cli
    BY Copies
  <2> QED
    BY <1>6, <2>1, <2>2 DEF TypeOK, NamesOK, Planned, Ask, disk, book, job, tool, world, history
<1> QED BY <1>1, <1>2, <1>3, <1>4, <1>5, <1>6

\* So does an installation.
LEMMA InstallTyped ==
  ASSUME TypeOK, NamesOK, NEW p \in Updater,
         \/ Install(p) \/ InstallMissing(p) \/ Lookup(p) \/ InstallLocked(p)
         \/ NpmEnded(p) \/ Tell(p)
  PROVE  TypeOK' /\ NamesOK'
<1> USE Reads, Going
<1>1. Required(p) => /\ doc' \in Cli /\ behind' \in SUBSET Updater
                     /\ pc' \in [Updater -> Points] /\ mem' \in [Updater -> Cli]
                     /\ lock' = Nobody
  <2>1. \A s \in {"Failed", "UpdateRequired"} : [doc EXCEPT !.status = s] \in Cli
    BY Copies DEF StatusNames
  <2>2. [doc EXCEPT !.status = IF kind[p] = "missing" THEN "Failed"
                               ELSE "UpdateRequired"] \in Cli
    BY <2>1
  <2> QED BY <2>2 DEF Required
<1>2. Fails(p) => /\ pc' \in [Updater -> Points] /\ mem' \in [Updater -> Cli]
                  /\ lock' = Nobody
  BY Copies DEF Fails, StatusNames
<1>3. Installed(p) => /\ doc' \in Cli /\ behind' \in SUBSET Updater /\ doubt' = FALSE
                      /\ pc' \in [Updater -> Points] /\ mem' \in [Updater -> Cli]
                      /\ lock' = Nobody
  <2>1. Recorded(p) \in Cli /\ [Recorded(p) EXCEPT !.status = "Failed"] \in Cli
    BY Copies DEF StatusNames
  <2>2. (IF kind[p] = "missing" THEN "probe" ELSE "told") \in Points
    OBVIOUS
  <2> QED BY <2>1, <2>2 DEF Installed, Record
<1>4. CASE Install(p)
  BY <1>4 DEF TypeOK, NamesOK, Planned, Install, disk, book, tool, world, history, Cli
<1>5. CASE InstallMissing(p)
  <2>1. [doc EXCEPT !.status = "Updating"] \in Cli BY Copies DEF StatusNames
  <2> QED
    BY <1>1, <1>5, <2>1
    DEF TypeOK, NamesOK, Planned, KindType, InstallMissing, disk, tool, world, history
<1>6. CASE Lookup(p)
  <2>1. [mem[p] EXCEPT !.latest = registry] \in Cli BY Copies
  <2>2. /\ doc' \in Cli /\ behind' \in SUBSET Updater
        /\ pc' \in [Updater -> Points] /\ mem' \in [Updater -> Cli]
        /\ target' \in [Updater -> Version] /\ lock' \in Updater \cup {Nobody}
    <3>1. CASE /\ Saves(p, [mem[p] EXCEPT !.latest = registry])
               /\ target' = [target EXCEPT ![p] = registry]
               /\ Goes(p, "locked", [mem[p] EXCEPT !.latest = registry])
               /\ UNCHANGED lock
      BY <2>1, <3>1 DEF TypeOK
    <3>2. CASE Fails(p) /\ UNCHANGED <<book, target>>
      BY <1>2, <3>2 DEF TypeOK, book
    <3> QED BY <1>6, <3>1, <3>2 DEF Lookup
  <2>3. UNCHANGED <<kind, sup, npm, doubt>>
    BY <1>6 DEF Lookup, tool, world, history
  <2> QED
    BY <1>6, <2>2, <2>3
    DEF TypeOK, NamesOK, Planned, KindType, Lookup, disk, book, tool, world, history
<1>7. CASE InstallLocked(p)
  <2>1. Spawn(p) => /\ sup' \in [Updater -> {"none", "new", "checked", "up"} \cup Exits]
                    /\ pc' \in [Updater -> Points] /\ mem' \in [Updater -> Cli]
    BY DEF Spawn, TypeOK
  <2> QED
    BY <1>1, <1>2, <1>3, <1>7, <2>1
    DEF TypeOK, NamesOK, Planned, InstallLocked, disk, book, world
<1>8. CASE NpmEnded(p)
  <2>1. /\ Detected \in Journal
        /\ Detected.stage = "Detected" /\ Detected.planned = 0
    BY DEF Detected, NoJournal, Journal
  <2> QED
    BY <1>2, <1>3, <1>8, <2>1 DEF TypeOK, NamesOK, Planned, NpmEnded, disk, book, world
<1>9. CASE Tell(p)
  BY <1>1, <1>9 DEF TypeOK, NamesOK, Planned, Tell, disk, tool, world, history
<1> QED BY <1>4, <1>5, <1>6, <1>7, <1>8, <1>9

\* So does a repair: the names it makes up are new numbers.
LEMMA RepairTyped ==
  ASSUME TypeOK, NamesOK, NEW p \in Updater,
         \/ Repair(p) \/ Resolve(p) \/ PlanQuarantine(p) \/ Move(p) \/ Reconcile(p)
         \/ NothingStale(p) \/ QuarantineFails(p) \/ Reinstall(p) \/ Reinstalled(p)
         \/ Clear(p)
  PROVE  TypeOK' /\ NamesOK'
<1> USE Reads, Going
<1>1. RepairFails(p) => /\ doc' \in Cli /\ behind' \in SUBSET Updater
                        /\ pc' \in [Updater -> Points] /\ mem' \in [Updater -> Cli]
                        /\ kind' \in [Updater -> KindType]
                        /\ target' \in [Updater -> Version]
                        /\ lock' = Nobody
  BY Copies DEF RepairFails, StatusNames
<1>2. Completed(p) => /\ doc' \in Cli /\ behind' \in SUBSET Updater /\ doubt' = FALSE
                      /\ pc' \in [Updater -> Points] /\ mem' \in [Updater -> Cli]
  BY Copies DEF Completed, Record
<1>3. CASE Repair(p)
  BY <1>3 DEF TypeOK, NamesOK, Planned, KindType, Repair, disk, job, tool, world, history
<1>4. CASE Resolve(p)
  <2>1. /\ doc' \in Cli /\ behind' \in SUBSET Updater
        /\ pc' \in [Updater -> Points] /\ mem' \in [Updater -> Cli]
        /\ kind' \in [Updater -> KindType]
        /\ target' \in [Updater -> Version] /\ lock' \in Updater \cup {Nobody}
    <3>1. CASE /\ target' = [target EXCEPT ![p] = registry]
               /\ Goes(p, "quarantine", mem[p])
               /\ UNCHANGED <<book, lock, kind>>
      BY <3>1 DEF TypeOK, KindType, book
    <3>2. CASE RepairFails(p)
      BY <1>1, <3>2 DEF TypeOK
    <3> QED BY <1>4, <3>1, <3>2 DEF Resolve
  <2>2. doubt' = doubt
    BY <1>1, <1>4 DEF Resolve, RepairFails, book, tool, world, history
  <2> QED
    BY <1>4, <2>1, <2>2 DEF TypeOK, NamesOK, Planned, KindType, Resolve, disk, tool, world, history
<1>5. CASE PlanQuarantine(p)
  <2>1. Cardinality(quarantined) + 1 \in Nat \ {0}
    BY FS_CardinalityType DEF NamesOK
  <2>2. journal' \in Journal /\ (Planned <=> journal.planned # 0)'
    BY <1>5, <2>1 DEF TypeOK, PlanQuarantine, Planned, Journal
  <2> QED
    BY <1>5, <2>2
    DEF TypeOK, NamesOK, PlanQuarantine, disk, book, job, tool, world, history
<1>6. CASE Move(p)
  <2>1. journal.planned \in Nat \ {0} BY <1>6 DEF TypeOK, Journal, NamesOK, Move
  <2>2. quarantined' \in SUBSET (Nat \ {0}) /\ IsFiniteSet(quarantined')
    <3>1. quarantined' = quarantined \cup {journal.planned}
      BY <1>6 DEF Move
    <3>2. quarantined \in SUBSET (Nat \ {0}) /\ IsFiniteSet(quarantined)
      BY DEF TypeOK, NamesOK
    <3>3. IsFiniteSet(quarantined')
      BY <3>1, <3>2, FS_AddElement
    <3> QED BY <2>1, <3>1, <3>2, <3>3
  <2> QED
    BY <1>6, <2>2 DEF TypeOK, NamesOK, Planned, Move, book, job, tool, world, history
<1>7. CASE Reconcile(p)
  <2>1. journal' \in Journal /\ (Planned <=> journal.planned # 0)'
    BY <1>7 DEF TypeOK, Reconcile, Planned, Journal
  <2> QED
    BY <1>7, <2>1
    DEF TypeOK, NamesOK, Reconcile, disk, book, job, tool, world, history
<1>8. CASE NothingStale(p)
  <2>1. journal' \in Journal /\ (Planned <=> journal.planned # 0)'
    BY <1>8 DEF TypeOK, NamesOK, NothingStale, Planned, Journal
  <2> QED
    BY <1>8, <2>1
    DEF TypeOK, NamesOK, NothingStale, disk, book, job, tool, world, history
<1>9. CASE QuarantineFails(p)
  BY <1>1, <1>9 DEF TypeOK, NamesOK, Planned, KindType, QuarantineFails, disk, tool, world, history
<1>10. CASE Reinstall(p)
  <2>1. Spawn(p) => /\ sup' \in [Updater -> {"none", "new", "checked", "up"} \cup Exits]
                    /\ pc' \in [Updater -> Points] /\ mem' \in [Updater -> Cli]
    BY DEF Spawn, TypeOK
  <2> QED
    BY <1>2, <1>10, <2>1 DEF TypeOK, NamesOK, Planned, Reinstall, disk, book, world
<1>11. CASE Reinstalled(p)
  BY <1>1, <1>2, <1>11
  DEF TypeOK, NamesOK, Planned, KindType, Reinstalled, disk, job, world
<1>12. CASE Clear(p)
  <2>1. journal' \in Journal /\ (Planned <=> journal.planned # 0)'
    BY <1>12 DEF Clear, Planned, NoJournal, Journal
  <2> QED
    BY <1>12, <2>1 DEF TypeOK, NamesOK, KindType, Clear, disk, tool, world
<1> QED BY <1>3, <1>4, <1>5, <1>6, <1>7, <1>8, <1>9, <1>10, <1>11, <1>12

\* A supervisor goes away with the exit of npm, or with its owner.
LEMMA GoneTyped ==
  ASSUME TypeOK, NEW p \in Updater, NEW exit \in Exits, Gone(p, exit)
  PROVE  /\ npm' \in [Updater -> {"none"} \cup Working \cup Exits]
         /\ sup' \in [Updater -> {"none", "new", "checked", "up"} \cup Exits]
         /\ lock' \in Updater \cup {Nobody}
         /\ pc' \in [Updater -> Points] /\ mem' \in [Updater -> Cli]
         /\ kind' \in [Updater -> KindType] /\ target' \in [Updater -> Version]
BY Reads, Going DEF TypeOK, Gone, job

\* So do npm and its supervisor.
LEMMA NpmTyped ==
  ASSUME TypeOK, NamesOK, NEW p \in Updater, Supervise(p) \/ Npm(p)
  PROVE  TypeOK' /\ NamesOK'
<1> USE Reads
<1>1. \A exit \in Exits : Gone(p, exit) =>
        /\ npm' \in [Updater -> {"none"} \cup Working \cup Exits]
        /\ sup' \in [Updater -> {"none", "new", "checked", "up"} \cup Exits]
        /\ lock' \in Updater \cup {Nobody}
        /\ pc' \in [Updater -> Points] /\ mem' \in [Updater -> Cli]
        /\ kind' \in [Updater -> KindType] /\ target' \in [Updater -> Version]
  BY GoneTyped
<1>2. "failed" \in Exits BY DEF Exits
<1>3. CASE Check(p) \/ Begin(p)
  BY <1>3 DEF TypeOK, NamesOK, Planned, Check, Begin, Working, disk, book, job, world, history
<1>4. CASE Leave(p)
  BY <1>1, <1>4
  DEF TypeOK, NamesOK, Planned, KindType, Leave, disk, book, world, history
<1>5. CASE Abandoned(p)
  BY <1>1, <1>2, <1>5
  DEF TypeOK, NamesOK, Planned, KindType, Abandoned, disk, book, world, history
<1>6. CASE Expired(p)
  BY <1>1, <1>2, <1>6 DEF TypeOK, NamesOK, Planned, KindType, Expired, disk, book, world
<1>7. CASE Retire(p)
  BY <1>7 DEF TypeOK, NamesOK, Planned, Retire, Working, Exits, book, job, world, history
<1>8. CASE Unpack(p)
  BY <1>8 DEF TypeOK, NamesOK, Planned, Unpack, Working, Exits, book, job, world, history
<1>9. CASE RemoveOld(p)
  BY <1>9 DEF TypeOK, NamesOK, Planned, RemoveOld, Working, Exits, book, job, world, history
<1>10. CASE RollBack(p)
  BY <1>10 DEF TypeOK, NamesOK, Planned, RollBack, Working, Exits, book, job, world, history
<1> QED BY <1>3, <1>4, <1>5, <1>6, <1>7, <1>8, <1>9, <1>10 DEF Supervise, Npm

\* So does the world.
LEMMA WorldTyped ==
  ASSUME TypeOK, NamesOK,
         \/ Publish \/ RemoveStale
         \/ \E p \in Updater : Crash(p) \/ CrashSupervisor(p)
  PROVE  TypeOK' /\ NamesOK'
<1>1. ASSUME NEW p \in Updater, Crash(p) PROVE TypeOK' /\ NamesOK'
  <2>1. Released(p) \in Updater \cup {Nobody} BY DEF TypeOK, Released
  <2> QED
    BY <1>1, <2>1, Reads, Going, NoCliType
    DEF TypeOK, NamesOK, Planned, KindType, Crash, disk, job
<1>2. ASSUME NEW p \in Updater, CrashSupervisor(p) PROVE TypeOK' /\ NamesOK'
  <2>1. "failed" \in Exits BY DEF Exits
  <2> QED
    BY <1>2, <2>1, Reads, GoneTyped
    DEF TypeOK, NamesOK, Planned, KindType, CrashSupervisor, disk, book
<1>3. CASE Publish
  BY <1>3, VersionsAssumption
  DEF TypeOK, NamesOK, Planned, Publish, Version, disk, book, job, tool, history
<1>4. CASE RemoveStale
  BY <1>4, VersionsAssumption
  DEF TypeOK, NamesOK, Planned, RemoveStale, Version, book, job, tool, world, history
<1> QED BY <1>1, <1>2, <1>3, <1>4

\* Every step keeps the type.
LEMMA NextTyped ==
  ASSUME TypeOK, NamesOK, [Next]_vars
  PROVE  TypeOK' /\ NamesOK'
<1>1. ASSUME NEW p \in Updater, Start(p) \/ Step(p) PROVE TypeOK' /\ NamesOK'
  BY <1>1, PreflightTyped, InstallTyped, RepairTyped DEF Step
<1>2. CASE UNCHANGED vars
  BY <1>2
  DEF TypeOK, NamesOK, Planned, vars, disk, book, job, tool, world, history
<1> QED BY <1>1, <1>2, NpmTyped, WorldTyped DEF Next

\* Every initial state has the type.
LEMMA InitTyped ==
  ASSUME Init
  PROVE  TypeOK /\ NamesOK
<1>1. 0 \in Version /\ 1 \in Version /\ Leftover \subseteq Version
  BY VersionsAssumption, LeftoverAssumption DEF Version
<1>2. "idle" \in Points BY DEF Points
<1>3. NoJournal \in Journal /\ (Planned <=> journal.planned # 0)
  BY DEF Init, Planned, NoJournal, Journal
<1>4. IsFiniteSet(quarantined) BY FS_EmptySet DEF Init
<1> QED BY <1>1, <1>2, <1>3, <1>4, NoCliType DEF Init, TypeOK, NamesOK

\* Every reachable state has the type.
THEOREM Typed == Spec => []TypeOK
<1>1. Init => TypeOK /\ NamesOK BY InitTyped
<1>2. TypeOK /\ NamesOK /\ [Next]_vars => TypeOK' /\ NamesOK' BY NextTyped
<1> QED BY <1>1, <1>2, PTL DEF Spec

-----------------------------------------------------------------------------
(* One installation at a time. *)

\* Who works under the lock, or has a supervisor, keeps it until it is done.
LEMMA LockStep ==
  ASSUME TypeOK, LockKept, NEW p \in Updater,
         Start(p) \/ Step(p)
  PROVE  LockKept'
<1> USE DEF TypeOK, LockKept, Goes, Ends
<1>1. CASE Start(p)
  BY <1>1 DEF Start, Locked, tool
<1>2. CASE Probe(p) \/ ProbeFails(p) \/ GiveUp(p) \/ Ask(p)
  BY <1>2 DEF Probe, ProbeFails, GiveUp, Ask, Locked, Waiting, Routine, book, tool, world
<1>3. CASE Persist(p)
  <2>1. Continue(p) => \E point \in Waiting \cup {"ask", "idle"} :
                         pc' = [pc EXCEPT ![p] = point]
    BY DEF Continue, Waiting, Routine
  <2> QED BY <1>3, <2>1 DEF Persist, Locked, Waiting, Routine, tool
<1>4. CASE Install(p) \/ InstallMissing(p)
  BY <1>4, NobodyAssumption DEF Install, InstallMissing, Required, Locked, Waiting, tool
<1>5. CASE Lookup(p) \/ Tell(p)
  BY <1>5 DEF Lookup, Tell, Fails, Required, Locked, tool
<1>6. CASE InstallLocked(p)
  BY <1>6 DEF InstallLocked, Required, Installed, Fails, Spawn, Locked, Exits
<1>7. CASE NpmEnded(p)
  BY <1>7 DEF NpmEnded, Installed, Fails, Locked, Exits
<1>8. CASE Repair(p)
  BY <1>8, NobodyAssumption DEF Repair, Locked, tool, job
<1>9. CASE Resolve(p) \/ QuarantineFails(p)
  BY <1>9 DEF Resolve, QuarantineFails, RepairFails, Locked, tool, book
<1>10. CASE PlanQuarantine(p) \/ Move(p) \/ Reconcile(p) \/ NothingStale(p)
  BY <1>10 DEF PlanQuarantine, Move, Reconcile, NothingStale, Locked, tool
<1>11. CASE Reinstall(p)
  BY <1>11 DEF Reinstall, Completed, Spawn, Locked, Exits
<1>12. CASE Reinstalled(p)
  BY <1>12 DEF Reinstalled, Completed, RepairFails, Locked, Exits
<1>13. CASE Clear(p)
  BY <1>13 DEF Clear, Locked, tool
<1> QED
  BY <1>1, <1>2, <1>3, <1>4, <1>5, <1>6, <1>7, <1>8, <1>9, <1>10, <1>11, <1>12, <1>13
  DEF Step

\* A supervisor whose owner is gone takes the lock with it when it goes.
LEMMA LockTool ==
  ASSUME TypeOK, LockKept, [Next]_vars,
         ~ \E p \in Updater : Start(p) \/ Step(p)
  PROVE  LockKept'
<1> USE DEF TypeOK, LockKept
<1>1. ASSUME NEW p \in Updater, NEW exit \in Exits, Gone(p, exit), sup[p] # "none"
      PROVE  LockKept'
  BY <1>1 DEF Gone, Ends, Goes, Locked, Exits, job
<1>2. ASSUME NEW p \in Updater, Supervise(p)
      PROVE  LockKept'
  <2>1. CASE Check(p) \/ Begin(p)
    BY <2>1 DEF Check, Begin
  <2>2. CASE Leave(p) \/ Abandoned(p) \/ Expired(p)
    <3>1. \A q \in Updater : npm[q] \in Exits => npm[q] # "none" BY DEF Exits
    <3>2. "failed" \in Exits BY DEF Exits
    <3> QED BY <1>1, <2>2, <3>1, <3>2 DEF Leave, Abandoned, Expired
  <2> QED BY <1>2, <2>1, <2>2 DEF Supervise
<1>3. ASSUME NEW p \in Updater, Npm(p)
      PROVE  LockKept'
  BY <1>3 DEF Npm, Retire, Unpack, RemoveOld, RollBack, Working, Exits
<1>4. ASSUME NEW p \in Updater, Crash(p)
      PROVE  LockKept'
  BY <1>4, NobodyAssumption DEF Crash, Released, Ends, Goes, Locked, Exits, job
<1>5. ASSUME NEW p \in Updater, CrashSupervisor(p)
      PROVE  LockKept'
  <2>1. "failed" \in Exits BY DEF Exits
  <2> QED BY <1>1, <1>5, <2>1 DEF CrashSupervisor
<1>6. CASE Publish \/ RemoveStale \/ UNCHANGED vars
  BY <1>6 DEF Publish, RemoveStale, vars, tool
<1> QED BY <1>2, <1>3, <1>4, <1>5, <1>6 DEF Next

\* While npm works for an updater, no other installs, repairs or moves anything.
THEOREM OneInstallation == Spec => []OneInstall
<1>1. Init => LockKept
  BY DEF Init, LockKept, Locked
<1>2. TypeOK /\ LockKept /\ [Next]_vars => LockKept'
  BY LockStep, LockTool
<1>3. LockKept => OneInstall
  BY DEF LockKept, OneInstall
<1> QED BY <1>1, <1>2, <1>3, Typed, PTL DEF Spec

-----------------------------------------------------------------------------
(* A repair that was cut short. *)

RepairOK == JournalSound /\ NpmAllowed

\* A command keeps its kind until it ends.
LEMMA KindStep ==
  ASSUME TypeOK, LockKept, KindKept, [Next]_vars
  PROVE  KindKept'
<1> USE DEF TypeOK, KindKept, RepairPoints, Goes, Ends
<1>1. ASSUME NEW p \in Updater, Start(p) PROVE KindKept'
  BY <1>1 DEF Start
<1>2. ASSUME NEW p \in Updater, Probe(p) \/ ProbeFails(p) \/ GiveUp(p) \/ Ask(p)
      PROVE  KindKept'
  BY <1>2 DEF Probe, ProbeFails, GiveUp, Ask, Waiting, Routine, job
<1>3. ASSUME NEW p \in Updater, Persist(p) PROVE KindKept'
  BY <1>3 DEF Persist, Continue, Routine, job
<1>4. ASSUME NEW p \in Updater,
             Install(p) \/ InstallMissing(p) \/ Lookup(p) \/ InstallLocked(p) \/ Tell(p)
      PROVE  KindKept'
  BY <1>4 DEF Install, InstallMissing, Lookup, InstallLocked, Tell, Required, Fails,
              Installed, Spawn
<1>5. ASSUME NEW p \in Updater, NpmEnded(p) PROVE KindKept'
  BY <1>5 DEF NpmEnded, Installed, Fails
<1>6. ASSUME NEW p \in Updater,
             \/ Repair(p) \/ Resolve(p) \/ PlanQuarantine(p) \/ Move(p) \/ Reconcile(p)
             \/ NothingStale(p) \/ QuarantineFails(p)
      PROVE  KindKept'
  BY <1>6 DEF Repair, Resolve, PlanQuarantine, Move, Reconcile, NothingStale,
              QuarantineFails, RepairFails, job
<1>7. ASSUME NEW p \in Updater, Reinstall(p) \/ Reinstalled(p) \/ Clear(p)
      PROVE  KindKept'
  BY <1>7 DEF Reinstall, Reinstalled, Clear, Completed, Spawn, RepairFails, job
<1>8. ASSUME NEW p \in Updater, Supervise(p) \/ Npm(p) PROVE KindKept'
  BY <1>8 DEF Supervise, Check, Begin, Leave, Abandoned, Expired, Gone, Npm, Retire,
              Unpack, RemoveOld, RollBack, job
<1>9. ASSUME NEW p \in Updater, Crash(p) \/ CrashSupervisor(p) PROVE KindKept'
  BY <1>9 DEF Crash, CrashSupervisor, Gone, job
<1>10. CASE Publish \/ RemoveStale \/ UNCHANGED vars
  BY <1>10 DEF Publish, RemoveStale, vars, job
<1> QED
  BY <1>1, <1>2, <1>3, <1>4, <1>5, <1>6, <1>7, <1>8, <1>9, <1>10 DEF Next, Step

\* Who installs or repairs is alone with the journal and the package.
LEMMA Alone ==
  ASSUME LockKept, NEW p \in Updater, pc[p] \in Locked \/ sup[p] # "none",
         NEW q \in Updater \ {p}
  PROVE  pc[q] \notin {"npm", "dead", "repairing"} /\ sup[q] = "none" /\ npm[q] = "none"
BY DEF LockKept, Locked

\* A step that moves one command elsewhere than to npm, and may change its kind,
\* leaves the others' share of the invariant alone.
LEMMA Elsewhere ==
  ASSUME TypeOK, RepairOK, NEW p \in Updater,
         NEW point \in Points \ {"repairing", "npm", "dead"},
         pc' = [pc EXCEPT ![p] = point],
         kind' \in {[kind EXCEPT ![p] = k] : k \in KindType},
         sup' = sup \/ sup' = [sup EXCEPT ![p] = "none"],
         UNCHANGED <<active, quarantined, journal, npm, settled>>
  PROVE  RepairOK'
BY DEF TypeOK, RepairOK, JournalSound, NpmAllowed, Planned, Pending, KindType

\* No step of a preflight or an installation but the detection touches the journal.
LEMMA RepairPreflight ==
  ASSUME TypeOK, LockKept, RepairOK, NEW p \in Updater,
         \/ Start(p) \/ Probe(p) \/ ProbeFails(p) \/ Persist(p) \/ GiveUp(p) \/ Ask(p)
         \/ Install(p) \/ InstallMissing(p) \/ Lookup(p) \/ Tell(p)
  PROVE  RepairOK'
<1>1. \A k \in Updater : kind[k] \in KindType BY DEF TypeOK, KindType
<1>2. kind \in {[kind EXCEPT ![p] = k] : k \in KindType}
  <2>1. kind = [kind EXCEPT ![p] = kind[p]] BY DEF TypeOK
  <2> QED BY <1>1, <2>1
<1>3. /\ \E point \in Points \ {"repairing", "npm", "dead"} :
           pc' = [pc EXCEPT ![p] = point]
      /\ kind' \in {[kind EXCEPT ![p] = k] : k \in KindType}
  <2> USE <1>2, Going DEF Goes, Ends, KindType, job
  <2>1. CASE Start(p)
    BY <2>1 DEF Start
  <2>2. CASE Probe(p) \/ ProbeFails(p) \/ GiveUp(p) \/ Ask(p)
    BY <2>2 DEF Probe, ProbeFails, GiveUp, Ask
  <2>3. CASE Persist(p)
    BY <2>3 DEF Persist, Continue
  <2>4. CASE Install(p) \/ InstallMissing(p) \/ Lookup(p) \/ Tell(p)
    BY <2>4 DEF Install, InstallMissing, Lookup, Tell, Required, Fails
  <2> QED BY <2>1, <2>2, <2>3, <2>4
<1>4. UNCHANGED <<active, quarantined, journal, sup, npm, settled>>
  BY DEF Start, Probe, ProbeFails, Persist, GiveUp, Ask, Install, InstallMissing, Lookup,
         Tell, disk, tool, history
<1> QED BY <1>3, <1>4, Elsewhere

\* npm starts without a journal, and only then can it find what it could not move.
LEMMA RepairInstall ==
  ASSUME TypeOK, NamesOK, LockKept, KindKept, RepairOK, NEW p \in Updater,
         InstallLocked(p) \/ NpmEnded(p)
  PROVE  RepairOK'
<1>1. CASE InstallLocked(p)
  <2> USE DEF TypeOK, RepairOK, JournalSound, NpmAllowed, Planned, Pending
  <2>1. CASE Required(p) /\ UNCHANGED sup
    BY <1>1, <2>1 DEF InstallLocked, Required, Goes, disk
  <2>2. CASE (Installed(p) \/ Fails(p)) /\ UNCHANGED sup
    BY <1>1, <2>2 DEF InstallLocked, Installed, Fails, Goes, disk
  <2>3. CASE ~Pending /\ Spawn(p)
    <3>1. kind[p] # "repair" BY <1>1 DEF InstallLocked, KindKept, RepairPoints
    <3> QED BY <1>1, <2>3, <3>1 DEF InstallLocked, Spawn, Goes, disk
  <2> QED BY <1>1, <2>1, <2>2, <2>3 DEF InstallLocked
<1>2. CASE NpmEnded(p)
  <2>1. journal.stage = "None" /\ pc[p] = "npm" /\ pc[p] \in Locked
    BY <1>2 DEF RepairOK, NpmAllowed, NpmEnded, Locked
  <2>2. CASE sup[p] = "enotempty" /\ journal' = Detected
    <3>1. active # 0 BY <2>2 DEF RepairOK, NpmAllowed
    <3>2. quarantined \subseteq settled
      BY <2>1 DEF RepairOK, JournalSound, Pending, NamesOK, Planned, TypeOK
    <3> QED
      BY <1>2, <2>1, <2>2, <3>1, <3>2, Alone
      DEF TypeOK, RepairOK, JournalSound, NpmAllowed, NpmEnded, Goes, Detected, NoJournal,
          Pending, disk
  <2>3. CASE UNCHANGED journal
    BY <1>2, <2>3
    DEF TypeOK, RepairOK, JournalSound, NpmAllowed, Pending, NpmEnded, Installed, Fails,
        Goes, disk
  <2> QED BY <1>2, <2>2, <2>3 DEF NpmEnded
<1> QED BY <1>1, <1>2

\* A repair writes down what it moves before it moves it, and removes the journal
\* after what it names has been reported.
LEMMA RepairCommand ==
  ASSUME TypeOK, NamesOK, LockKept, KindKept, RepairOK, NEW p \in Updater,
         \/ Repair(p) \/ Resolve(p) \/ PlanQuarantine(p) \/ Move(p) \/ Reconcile(p)
         \/ NothingStale(p) \/ QuarantineFails(p) \/ Reinstall(p) \/ Reinstalled(p)
         \/ Clear(p)
  PROVE  RepairOK'
<1> USE DEF TypeOK, RepairOK, JournalSound, NpmAllowed, Pending, Goes, Ends
<1>1. pc[p] \in Locked =>
        \A q \in Updater \ {p} : pc[q] \notin {"npm", "dead", "repairing"}
  BY Alone
<1>2. CASE Repair(p)
  BY <1>2 DEF Repair, disk, job, tool, history
<1>3. CASE Resolve(p) \/ QuarantineFails(p)
  <2>1. CASE Resolve(p)
    BY <2>1 DEF Resolve, RepairFails, disk, tool, history
  <2>2. CASE QuarantineFails(p)
    BY <2>2 DEF QuarantineFails, RepairFails, disk, tool, history
  <2> QED BY <1>3, <2>1, <2>2
<1>4. CASE PlanQuarantine(p)
  BY <1>1, <1>4 DEF PlanQuarantine, Locked, NamesOK, Planned, disk, job, tool, history
<1>5. CASE Move(p)
  BY <1>1, <1>5 DEF Move, Locked, Planned, job, tool, history
<1>6. CASE Reconcile(p)
  BY <1>1, <1>6 DEF Reconcile, Locked, disk, job, tool, history
<1>7. CASE NothingStale(p)
  BY <1>1, <1>7 DEF NothingStale, Locked, Planned, NamesOK, disk, job, tool, history
<1>8. CASE Reinstall(p)
  BY <1>8 DEF Reinstall, Completed, Spawn, KindKept, RepairPoints, disk
<1>9. CASE Reinstalled(p)
  BY <1>9 DEF Reinstalled, Completed, RepairFails, disk, job
<1>10. CASE Clear(p)
  BY <1>1, <1>10 DEF Clear, Locked, NoJournal, disk, tool
<1> QED BY <1>2, <1>3, <1>4, <1>5, <1>6, <1>7, <1>8, <1>9, <1>10

\* A supervisor that goes away changes neither the journal nor the package.
LEMMA RepairGone ==
  ASSUME TypeOK, LockKept, RepairOK, NEW p \in Updater, NEW exit \in Exits,
         Gone(p, exit), exit = "enotempty" => npm[p] = "enotempty",
         UNCHANGED <<active, quarantined, journal, settled>>
  PROVE  RepairOK'
BY DEF TypeOK, RepairOK, JournalSound, NpmAllowed, Pending, Gone, Ends, Goes, job

\* npm has the package to itself, and finds what it cannot move where a package is.
LEMMA RepairNpm ==
  ASSUME TypeOK, LockKept, RepairOK, NEW p \in Updater, Npm(p)
  PROVE  RepairOK'
<1>1. sup[p] = "up" /\ pc[p] \in {"npm", "dead"}
  BY DEF Npm, Retire, Unpack, RemoveOld, RollBack, LockKept
<1>2. \A q \in Updater \ {p} : npm[q] = "none" /\ sup[q] = "none"
  BY <1>1, Alone
<1>3. journal.stage # "Detected"
  BY <1>1 DEF RepairOK, NpmAllowed
<1>4. UNCHANGED <<journal, quarantined, settled, pc, kind, sup>>
  BY DEF Npm, Retire, Unpack, RemoveOld, RollBack, job, history
<1>5. npm'[p] = "enotempty" => active' # 0
  BY DEF Npm, Retire, Unpack, RemoveOld, RollBack, TypeOK
<1>6. \A q \in Updater \ {p} : npm'[q] = npm[q]
  BY DEF Npm, Retire, Unpack, RemoveOld, RollBack, TypeOK
<1> QED
  BY <1>1, <1>2, <1>3, <1>4, <1>5, <1>6
  DEF RepairOK, JournalSound, NpmAllowed, Pending

\* Nothing else does.
LEMMA RepairWorld ==
  ASSUME TypeOK, LockKept, RepairOK,
         \/ Publish \/ RemoveStale \/ UNCHANGED vars
         \/ \E p \in Updater : Supervise(p) \/ Crash(p) \/ CrashSupervisor(p)
  PROVE  RepairOK'
<1>1. "failed" \in Exits /\ "failed" # "enotempty" BY DEF Exits
<1>2. ASSUME NEW p \in Updater, Supervise(p) PROVE RepairOK'
  <2>1. CASE Check(p) \/ Begin(p)
    BY <2>1
    DEF TypeOK, RepairOK, JournalSound, NpmAllowed, Pending, Check, Begin, disk, job, history
  <2>2. CASE Leave(p) \/ Abandoned(p) \/ Expired(p)
    BY <1>1, <2>2, RepairGone DEF Leave, Abandoned, Expired, disk, history
  <2> QED BY <1>2, <2>1, <2>2 DEF Supervise
<1>3. ASSUME NEW p \in Updater, Crash(p) PROVE RepairOK'
  BY <1>3
  DEF TypeOK, LockKept, RepairOK, JournalSound, NpmAllowed, Pending, Crash, Ends, Goes,
      disk, job
<1>4. ASSUME NEW p \in Updater, CrashSupervisor(p) PROVE RepairOK'
  BY <1>1, <1>4, RepairGone DEF CrashSupervisor, disk
<1>5. CASE Publish \/ RemoveStale \/ UNCHANGED vars
  BY <1>5
  DEF RepairOK, JournalSound, NpmAllowed, Pending, Publish, RemoveStale, vars, disk, job,
      tool, history
<1> QED BY <1>2, <1>3, <1>4, <1>5

\* The whole of what a repair needs.
Kept == TypeOK /\ NamesOK /\ LockKept /\ KindKept /\ RepairOK

\* It is an invariant.
LEMMA KeptHolds == Spec => []Kept
<1>1. Init => Kept
  <2>1. Init => LockKept /\ KindKept
    BY DEF Init, LockKept, Locked, KindKept, RepairPoints
  <2>2. Init => RepairOK
    BY DEF Init, RepairOK, JournalSound, NpmAllowed, Pending, NoJournal
  <2> QED BY <2>1, <2>2, InitTyped DEF Kept
<1>2. Kept /\ [Next]_vars => Kept'
  <2> SUFFICES ASSUME Kept, [Next]_vars PROVE Kept'
    OBVIOUS
  <2> USE DEF Kept
  <2>1. TypeOK' /\ NamesOK' BY NextTyped
  <2>2. LockKept' BY LockStep, LockTool
  <2>3. KindKept' BY KindStep
  <2>4. ASSUME NEW p \in Updater, Start(p) \/ Step(p) PROVE RepairOK'
    BY <2>4, RepairPreflight, RepairInstall, RepairCommand DEF Step
  <2>5. RepairOK'
    BY <2>4, RepairNpm, RepairWorld DEF Next
  <2> QED BY <2>1, <2>2, <2>3, <2>5
<1> QED BY <1>1, <1>2, PTL DEF Spec

\* A pending repair can be taken up again wherever it was cut short, and no
\* directory in the quarantine is forgotten.
THEOREM RepairsRecover == Spec => []Recoverable
<1>1. Kept => Recoverable
  BY DEF Kept, RepairOK, JournalSound, Recoverable, Repairable
<1> QED BY <1>1, KeptHolds, PTL

-----------------------------------------------------------------------------
(* What the document says is installed. *)

\* A new version is in place and nobody has recorded it yet.
Unrecorded ==
  \E p \in Updater : npm[p] \in {"unpacked", "ok"} \/ sup[p] = "ok"

\* The version that is in place, or moved aside by an npm that may yet put it back.
Base == IF \E p \in Updater : npm[p] = "retired" THEN stale ELSE active

\* The document, and every copy that may be written back, names that version or none.
Agree ==
  /\ doc.version \in {0, Base}
  /\ \A p \in Updater \ behind :
       pc[p] \notin {"idle", "dead"} => mem[p].version \in {0, Base}

\* A repair that is recorded is due until its journal is removed.
Due == Pending /\ \A p \in Updater : pc[p] # "clear"

\* What an updater is killed at is doubtful, a repair goes on while it is due,
\* who looks up a version has read the document under the lock, and what npm has
\* moved aside is not in place.
Watched ==
  \A p \in Updater :
    /\ pc[p] = "dead" => doubt
    /\ pc[p] \in {"resolve", "quarantine", "repairing", "clear"} => Pending
    /\ pc[p] = "lookup" => p \notin behind
    /\ npm[p] = "retired" => active = 0

Truthful == Watched /\ (~Due /\ ~doubt /\ ~Unrecorded => Agree)

\* Who holds the lock is the only one that installs, and has the only npm.
LEMMA Holder ==
  ASSUME LockKept, NEW p \in Updater, lock = p
  PROVE  /\ \A q \in Updater \ {p} :
              pc[q] \notin Locked \cup {"dead"} /\ sup[q] = "none" /\ npm[q] = "none"
         /\ Unrecorded <=> npm[p] \in {"unpacked", "ok"} \/ sup[p] = "ok"
         /\ Base = IF npm[p] = "retired" THEN stale ELSE active
<1>1. \A q \in Updater \ {p} :
        pc[q] \notin Locked \cup {"dead"} /\ sup[q] = "none" /\ npm[q] = "none"
  BY DEF LockKept
<1> QED BY <1>1 DEF Unrecorded, Base

\* While nobody has it, nothing is under way.
LEMMA NoHolder ==
  ASSUME LockKept, lock = Nobody
  PROVE  /\ \A q \in Updater : pc[q] \notin Locked /\ sup[q] = "none" /\ npm[q] = "none"
         /\ ~Unrecorded /\ Base = active
BY NobodyAssumption DEF LockKept, Unrecorded, Base

\* Without npm the version in place is all there is.
LEMMA Still ==
  ASSUME LockKept, NEW p \in Updater, pc[p] \in Locked, npm[p] = "none"
  PROVE  Base = active /\ (Unrecorded <=> sup[p] = "ok")
BY Holder DEF LockKept

\* A step that changes no copy of the document, and the version in place only in a
\* way that is doubtful or has yet to be recorded.
LEMMA Undisturbed ==
  ASSUME Truthful, UNCHANGED <<doc, mem, pc, behind>>,
         doubt => doubt', Pending' = Pending,
         \A p \in Updater : npm'[p] = "retired" => active' = 0,
         doubt' \/ Unrecorded' \/ (~Unrecorded /\ Base' = Base)
  PROVE  Truthful'
<1>1. Watched'
  BY DEF Truthful, Watched
<1>2. Due' = Due
  BY DEF Due
<1>3. ASSUME ~Due', ~doubt', ~Unrecorded' PROVE Agree'
  BY <1>2, <1>3 DEF Truthful, Agree
<1> QED BY <1>1, <1>3 DEF Truthful

\* A command goes on, with a document and a copy that are as true as before.
LEMMA Rewritten ==
  ASSUME TypeOK, Truthful, NEW p \in Updater, NEW point \in Points \ {"dead"}, NEW copy,
         Goes(p, point, copy), UNCHANGED <<active, stale, npm>>,
         doubt => doubt', Pending => Pending',
         point \in {"resolve", "quarantine", "repairing", "clear"} => Pending',
         point = "lookup" => p \notin behind',
         \A q \in behind \ (behind' \cup {p}) : pc[q] = "idle",
         behind' \ {p} \subseteq behind \/ \A q \in Updater \ {p} : pc[q] # "lookup",
         \/ Due' \/ doubt' \/ Unrecorded'
         \/ /\ ~Due /\ ~Unrecorded
            /\ Agree => /\ doc'.version \in {0, Base}
                        /\ p \notin behind' /\ point # "idle" => copy.version \in {0, Base}
  PROVE  Truthful'
<1>1. /\ pc'[p] = point /\ mem'[p] = copy
      /\ \A q \in Updater \ {p} : pc'[q] = pc[q] /\ mem'[q] = mem[q]
  BY DEF Goes, TypeOK
<1>2. Watched'
  BY <1>1 DEF Truthful, Watched
<1>3. Base' = Base
  BY DEF Base
<1>4. ASSUME ~Due', ~doubt', ~Unrecorded' PROVE Agree'
  <2>1. Agree /\ doc'.version \in {0, Base}
        /\ (p \notin behind' /\ point # "idle" => copy.version \in {0, Base})
    BY <1>4 DEF Truthful
  <2>2. ASSUME NEW q \in Updater \ behind', pc'[q] \notin {"idle", "dead"}
        PROVE  mem'[q].version \in {0, Base}
    BY <1>1, <2>1, <2>2 DEF Agree
  <2> QED BY <1>3, <2>1, <2>2 DEF Agree
<1> QED BY <1>2, <1>4 DEF Truthful

\* A record of what is in place makes every other copy old.
LEMMA Recording ==
  ASSUME TypeOK, LockKept, NEW p \in Updater, pc[p] \in Locked, npm[p] = "none",
         Record(p), sup'[p] # "ok", \A q \in Updater \ {p} : sup'[q] = sup[q],
         UNCHANGED <<active, stale, npm>>,
         NEW point \in {"probe", "told", "clear"}, NEW copy, copy.version = active,
         Goes(p, point, copy), point = "clear" => Pending'
  PROVE  Truthful'
<1>1. /\ \A q \in Updater \ {p} : /\ pc[q] \notin Locked \cup {"dead"}
                                  /\ sup[q] = "none" /\ npm[q] = "none"
  BY Holder DEF LockKept
<1>2. /\ pc'[p] = point /\ mem'[p] = copy
      /\ \A q \in Updater \ {p} : pc'[q] = pc[q] /\ mem'[q] = mem[q]
  BY DEF Goes, TypeOK
<1>3. Base' = active
  BY <1>1 DEF Base
<1>4. Watched'
  BY <1>1, <1>2 DEF Watched, Locked
<1>5. doc'.version = active
  BY DEF Record, Recorded
<1>6. ASSUME NEW q \in Updater \ behind', pc'[q] \notin {"idle", "dead"}
      PROVE  mem'[q].version = active
  BY <1>2, <1>6 DEF Record
<1> QED BY <1>3, <1>4, <1>5, <1>6 DEF Truthful, Agree

\* Copies with another status or another answer name the same version.
LEMMA SameVersion ==
  ASSUME TypeOK, NEW p \in Updater
  PROVE  /\ \A s : \A c \in Cli : [c EXCEPT !.status = s].version = c.version
         /\ \A v : \A c \in Cli : [c EXCEPT !.latest = v].version = c.version
         /\ \A v : \A c \in Cli : [c EXCEPT !.version = v].version = v
         /\ \A c \in Cli : Compared(c).version = c.version
         /\ \A s : With(p, s).version = mem[p].version
         /\ \A s, v : [With(p, s) EXCEPT !.version = v].version = v
         /\ mem[p] \in Cli /\ doc \in Cli
BY DEF Cli, Compared, With, TypeOK

\* A save of a copy, as far as the others go.
LEMMA Saving ==
  ASSUME TypeOK, LockKept, NEW p \in Updater, NEW copy, Saves(p, copy),
         lock = Nobody \/ lock = p
  PROVE  /\ doc' = copy /\ p \notin behind'
         /\ \A q \in behind \ (behind' \cup {p}) : pc[q] = "idle"
         /\ behind' \ {p} \subseteq behind \/ \A q \in Updater \ {p} : pc[q] # "lookup"
BY Holder, NoHolder DEF Saves, Locked, TypeOK

\* A command goes on and leaves the package and the journal alone.
LEMMA Onward ==
  ASSUME TypeOK, Truthful, NEW p \in Updater, NEW point \in Points \ {"dead", "clear"},
         NEW copy, Goes(p, point, copy), pc[p] # "clear",
         UNCHANGED <<active, stale, npm, sup, journal>>, doubt => doubt',
         point \in {"resolve", "quarantine", "repairing"} => Pending,
         point = "lookup" => p \notin behind',
         \A q \in behind \ (behind' \cup {p}) : pc[q] = "idle",
         behind' \ {p} \subseteq behind \/ \A q \in Updater \ {p} : pc[q] # "lookup",
         Agree /\ ~Unrecorded
           => /\ doc'.version \in {0, Base}
              /\ p \notin behind' /\ point # "idle" => copy.version \in {0, Base}
  PROVE  Truthful'
<1>1. Due' = Due
  BY DEF Due, Pending, Goes, TypeOK
<1>2. Unrecorded' = Unrecorded
  BY DEF Unrecorded
<1>3. Pending' = Pending
  BY DEF Pending
<1> QED BY <1>1, <1>2, <1>3, Rewritten

\* and saves nothing, with a copy that names the version it did, that of the document,
\* the one in place, or none.
LEMMA Copying ==
  ASSUME TypeOK, Truthful, NEW p \in Updater, NEW point \in Points \ {"dead", "clear"},
         NEW copy, Goes(p, point, copy), pc[p] \notin {"clear", "dead"},
         UNCHANGED <<active, stale, npm, sup, journal, doc>>, doubt => doubt',
         point \in {"resolve", "quarantine", "repairing"} => Pending,
         point # "lookup",
         behind' \in {behind, behind \ {p}},
         \/ point = "idle"
         \/ pc[p] # "idle" /\ behind' = behind /\ copy.version = mem[p].version
         \/ copy.version \in {0, active, doc.version}
  PROVE  Truthful'
<1>1. ASSUME Agree, ~Unrecorded, p \notin behind', point # "idle"
      PROVE  copy.version \in {0, Base}
  <2>1. active \in {0, Base}
    BY DEF Truthful, Watched, Base
  <2> QED BY <1>1, <2>1 DEF Agree
<1>2. Agree => doc'.version \in {0, Base}
  BY DEF Agree
<1> QED BY <1>1, <1>2, Onward

\* A preflight.
LEMMA PreflightTrue ==
  ASSUME TypeOK, LockKept, Truthful, NEW p \in Updater,
         Start(p) \/ Probe(p) \/ ProbeFails(p) \/ GiveUp(p) \/ Ask(p)
  PROVE  Truthful'
<1> USE SameVersion, Going
<1>1. CASE Start(p)
  <2>1. (Goes(p, "probe", doc) \/ Goes(p, "repair", doc)) /\ pc[p] = "idle"
        /\ behind' = behind \ {p} /\ UNCHANGED <<active, stale, npm, sup, journal, doc, doubt>>
    BY <1>1 DEF Start, disk, tool, history
  <2> QED BY <2>1, Copying
<1>2. CASE Probe(p)
  <2>1. pc[p] = "probe" /\ UNCHANGED <<active, stale, npm, sup, journal, doc, behind, doubt>>
    BY <1>2 DEF Probe, disk, tool, book, history
  <2>2. CASE Goes(p, "verify", [mem[p] EXCEPT !.version = active])
    <3>1. [mem[p] EXCEPT !.version = active].version = active
      OBVIOUS
    <3> QED BY <2>1, <2>2, <3>1, Copying
  <2>3. CASE Goes(p, "refresh", mem[p]) \/ Goes(p, "missing", mem[p])
    BY <2>1, <2>3, Copying
  <2>4. CASE Goes(p, "told", [With(p, "NotInstalled") EXCEPT !.version = 0])
    <3> DEFINE copy == [With(p, "NotInstalled") EXCEPT !.version = 0]
    <3>1. copy.version = 0 /\ Goes(p, "told", copy)
      BY <2>4, SameVersion
    <3> HIDE DEF copy
    <3> QED BY <2>1, <3>1, Copying
  <2> QED BY <1>2, <2>2, <2>3, <2>4 DEF Probe
<1>3. CASE ProbeFails(p) \/ GiveUp(p)
  <2>1. /\ pc[p] \notin {"clear", "dead", "idle"}
        /\ UNCHANGED <<active, stale, npm, sup, journal, doc, doubt>>
    BY <1>3 DEF ProbeFails, GiveUp, Waiting, Routine, disk, tool, history
  <2>2. \/ Goes(p, "told", With(p, "Failed")) /\ behind' = behind
        \/ Goes(p, "idle", NoCli) /\ behind' = behind \ {p}
    BY <1>3 DEF ProbeFails, GiveUp, Ends
  <2> QED BY <2>1, <2>2, Copying
<1>4. CASE Ask(p)
  <2>1. pc[p] = "ask" /\ UNCHANGED <<active, stale, npm, sup, journal, doc, behind, doubt>>
    BY <1>4 DEF Ask, disk, tool, book, history
  <2>2. \E copy : \E point \in {"result", "told"} :
          Goes(p, point, copy) /\ copy.version = mem[p].version
    <3>1. Compared([mem[p] EXCEPT !.latest = registry]).version = mem[p].version
      <4>1. [mem[p] EXCEPT !.latest = registry] \in Cli
        BY Copies, Reads
      <4>2. [mem[p] EXCEPT !.latest = registry].version = mem[p].version
        OBVIOUS
      <4> QED BY <4>1, <4>2
    <3>2. [With(p, "Unknown") EXCEPT !.latest = 0].version = mem[p].version
      BY Copies DEF StatusNames
    <3> QED BY <1>4, <3>1, <3>2 DEF Ask
  <2> QED BY <2>1, <2>2, Copying
<1> QED BY <1>1, <1>2, <1>3, <1>4

\* A routine write saves what it read only if nobody has written since.
LEMMA PersistTrue ==
  ASSUME TypeOK, LockKept, Truthful, NEW p \in Updater, Persist(p)
  PROVE  Truthful'
<1>1. /\ pc[p] \in Routine /\ lock = Nobody
      /\ UNCHANGED <<active, stale, npm, sup, journal, doubt>>
  BY DEF Persist, disk, tool, history
<1>2. pc[p] \notin {"clear", "dead", "idle", "lookup"}
  BY <1>1 DEF Routine
<1>3. ~Unrecorded /\ Base = active
  BY <1>1, NoHolder
<1>4. CASE SavesStatus(p, "UpdateRequired") /\ Ends(p)
  <2>1. doc'.version = doc.version /\ Goes(p, "idle", NoCli)
    BY <1>4, SameVersion DEF SavesStatus, Saves, Ends
  <2>2. /\ \A q \in behind \ (behind' \cup {p}) : pc[q] = "idle"
        /\ behind' \ {p} \subseteq behind \/ \A q \in Updater \ {p} : pc[q] # "lookup"
    BY <1>1, <1>4, Saving DEF SavesStatus
  <2>3. Agree => doc'.version \in {0, Base}
    BY <2>1 DEF Agree
  <2> QED BY <1>1, <1>2, <2>1, <2>2, <2>3, Going, Onward
<1>5. CASE Ends(p) /\ behind' = behind \ {p} /\ UNCHANGED doc
  BY <1>1, <1>2, <1>5, Going, Copying DEF Ends
<1>6. CASE Current(p) /\ Saves(p, mem[p]) /\ Continue(p)
  <2>1. /\ doc' = mem[p]
        /\ \A q \in behind \ (behind' \cup {p}) : pc[q] = "idle"
        /\ behind' \ {p} \subseteq behind \/ \A q \in Updater \ {p} : pc[q] # "lookup"
    BY <1>1, <1>6, Saving
  <2>2. Agree => mem[p].version \in {0, Base}
    BY <1>2, <1>6 DEF Agree, Current
  <2>3. PICK point \in {"checking", "told", "ask", "updating", "install", "idle"} :
        \E copy :
          Goes(p, point, copy) /\ (point = "idle" \/ copy.version = mem[p].version)
    BY <1>6, SameVersion DEF Continue, Ends
  <2>4. PICK copy : Goes(p, point, copy) /\ (point = "idle" \/ copy.version = mem[p].version)
    BY <2>3
  <2> QED BY <1>1, <1>2, <2>1, <2>2, <2>4, Going, Onward
<1> QED BY <1>4, <1>5, <1>6 DEF Persist

\* Waiting for a repair is told in the document, with the version it names.
LEMMA RequiredTrue ==
  ASSUME TypeOK, LockKept, Truthful, NEW p \in Updater, Required(p),
         lock = Nobody \/ lock = p, pc[p] # "clear",
         UNCHANGED <<active, stale, npm, sup, journal, doubt>>
  PROVE  Truthful'
<1>1. PICK s : Goes(p, "told", [doc EXCEPT !.status = s])
  BY DEF Required
<1>2. Saves(p, [doc EXCEPT !.status = "UpdateRequired"])
  BY DEF Required, SavesStatus
<1>3. doc' = [doc EXCEPT !.status = "UpdateRequired"]
  BY <1>2, Saving
<1>4. /\ doc'.version = doc.version
      /\ [doc EXCEPT !.status = s].version = doc.version
  BY <1>3, SameVersion
<1>5. /\ \A q \in behind \ (behind' \cup {p}) : pc[q] = "idle"
      /\ behind' \ {p} \subseteq behind \/ \A q \in Updater \ {p} : pc[q] # "lookup"
  BY <1>2, Saving
<1>6. Agree => doc.version \in {0, Base}
  BY DEF Agree
<1>7. "told" \in Points \ {"dead", "clear"}
  BY Going
<1> QED BY <1>1, <1>4, <1>5, <1>6, <1>7, Onward

\* An installation that fails tells its own copy.
LEMMA FailsTrue ==
  ASSUME TypeOK, LockKept, Truthful, NEW p \in Updater, Fails(p), pc[p] \in {"lookup", "locked"},
         UNCHANGED <<active, stale, npm, sup, journal, doc, behind, doubt>>
  PROVE  Truthful'
<1>1. Goes(p, "told", With(p, "Failed")) /\ With(p, "Failed").version = mem[p].version
  BY SameVersion DEF Fails
<1> QED BY <1>1, Going, Copying

\* What was installed is recorded.
LEMMA InstalledTrue ==
  ASSUME TypeOK, LockKept, Truthful, NEW p \in Updater, Installed(p),
         pc[p] \in Locked, npm[p] = "none",
         sup'[p] = "none", \A q \in Updater \ {p} : sup'[q] = sup[q],
         UNCHANGED <<active, stale, npm>>
  PROVE  Truthful'
<1>1. Recorded(p).version = active
  BY DEF Recorded
<1>2. [Recorded(p) EXCEPT !.status = "Failed"].version = active
  BY <1>1, RecordedType, SameVersion
<1>3. Record(p)
  BY DEF Installed
<1>4. CASE kind[p] = "missing" /\ active = target[p]
  <2>1. Goes(p, "probe", Recorded(p))
    BY <1>4 DEF Installed
  <2> QED BY <1>1, <1>3, <2>1, Recording
<1>5. CASE kind[p] # "missing" /\ active = target[p]
  <2>1. Goes(p, "told", Recorded(p))
    BY <1>5 DEF Installed
  <2> QED BY <1>1, <1>3, <2>1, Recording
<1>6. CASE kind[p] = "missing" /\ active # target[p]
  <2>1. Goes(p, "probe", [Recorded(p) EXCEPT !.status = "Failed"])
    BY <1>6 DEF Installed
  <2> QED BY <1>2, <1>3, <2>1, Recording
<1>7. CASE kind[p] # "missing" /\ active # target[p]
  <2>1. Goes(p, "told", [Recorded(p) EXCEPT !.status = "Failed"])
    BY <1>7 DEF Installed
  <2> QED BY <1>2, <1>3, <2>1, Recording
<1> QED BY <1>4, <1>5, <1>6, <1>7

\* npm is started with the version that is in place.
LEMMA SpawnTrue ==
  ASSUME TypeOK, LockKept, Truthful, NEW p \in Updater, Spawn(p),
         pc[p] \in {"locked", "repairing"},
         UNCHANGED <<active, stale, npm, journal, doc, behind, doubt>>
  PROVE  Truthful'
<1>1. Goes(p, "npm", mem[p]) /\ sup' = [sup EXCEPT ![p] = "new"]
  BY DEF Spawn
<1>2. sup[p] = "none"
  BY DEF LockKept
<1>3. Unrecorded' = Unrecorded
  BY <1>1, <1>2 DEF Unrecorded, TypeOK
<1>4. Due' = Due /\ Pending' = Pending
  BY <1>1 DEF Due, Pending, Goes, TypeOK
<1>5. Agree => doc.version \in {0, Base}
               /\ (p \notin behind => mem[p].version \in {0, Base})
  BY DEF Agree
<1>6. "npm" \in Points \ {"dead"}
  BY Going
<1> QED BY <1>1, <1>3, <1>4, <1>5, <1>6, Rewritten

\* Steps up to npm.
LEMMA InstallTrue ==
  ASSUME TypeOK, LockKept, Truthful, NEW p \in Updater,
         Install(p) \/ InstallMissing(p) \/ Lookup(p) \/ InstallLocked(p) \/ Tell(p)
  PROVE  Truthful'
<1>1. CASE Install(p)
  <2>1. /\ Goes(p, "locked", mem[p]) /\ pc[p] = "install"
        /\ UNCHANGED <<active, stale, npm, sup, journal, doc, behind, doubt>>
    BY <1>1 DEF Install, disk, book, tool, history
  <2> QED BY <2>1, Going, Copying
<1>2. CASE InstallMissing(p)
  <2>1. /\ pc[p] = "missing" /\ lock = Nobody
        /\ UNCHANGED <<active, stale, npm, sup, journal, doubt>>
    BY <1>2 DEF InstallMissing, disk, tool, history
  <2>2. CASE Goes(p, "probe", doc) /\ behind' = behind \ {p} /\ UNCHANGED doc
    BY <2>1, <2>2, Going, Copying
  <2>3. CASE Required(p)
    BY <2>1, <2>3, RequiredTrue
  <2>4. CASE /\ Saves(p, [doc EXCEPT !.status = "Updating"])
             /\ Goes(p, "lookup", [doc EXCEPT !.status = "Updating"])
    <3>1. [doc EXCEPT !.status = "Updating"].version = doc.version
      BY SameVersion
    <3>2. /\ doc' = [doc EXCEPT !.status = "Updating"] /\ p \notin behind'
          /\ \A q \in behind \ (behind' \cup {p}) : pc[q] = "idle"
          /\ behind' \ {p} \subseteq behind \/ \A q \in Updater \ {p} : pc[q] # "lookup"
      BY <2>1, <2>4, Saving
    <3>3. Agree => doc.version \in {0, Base}
      BY DEF Agree
    <3>4. "lookup" \in Points \ {"dead", "clear"}
      BY Going
    <3> QED BY <2>1, <2>4, <3>1, <3>2, <3>3, <3>4, Onward
  <2> QED BY <1>2, <2>2, <2>3, <2>4 DEF InstallMissing
<1>3. CASE Lookup(p)
  <2>1. /\ pc[p] = "lookup" /\ lock = p
        /\ UNCHANGED <<active, stale, npm, sup, journal, doubt>>
    BY <1>3 DEF Lookup, disk, tool, history, LockKept, Locked
  <2>2. CASE Fails(p) /\ UNCHANGED book
    BY <2>1, <2>2, FailsTrue DEF book
  <2>3. CASE /\ Saves(p, [mem[p] EXCEPT !.latest = registry])
             /\ Goes(p, "locked", [mem[p] EXCEPT !.latest = registry])
    <3>1. [mem[p] EXCEPT !.latest = registry].version = mem[p].version
      BY SameVersion
    <3>2. /\ doc' = [mem[p] EXCEPT !.latest = registry]
          /\ \A q \in behind \ (behind' \cup {p}) : pc[q] = "idle"
          /\ behind' \ {p} \subseteq behind \/ \A q \in Updater \ {p} : pc[q] # "lookup"
      BY <2>1, <2>3, Saving
    <3>3. Agree => mem[p].version \in {0, Base}
      BY <2>1 DEF Agree, Truthful, Watched
    <3>4. "locked" \in Points \ {"dead", "clear"}
      BY Going
    <3> QED BY <2>1, <2>3, <3>1, <3>2, <3>3, <3>4, Onward
  <2> QED BY <1>3, <2>2, <2>3 DEF Lookup
<1>4. CASE InstallLocked(p)
  <2>1. /\ pc[p] = "locked" /\ pc[p] \in Locked /\ lock = p /\ sup[p] = "none" /\ npm[p] = "none"
        /\ UNCHANGED <<active, stale, npm, journal>>
    BY <1>4 DEF InstallLocked, disk, LockKept, Locked
  <2>2. CASE Required(p) /\ UNCHANGED <<sup, doubt>>
    BY <2>1, <2>2, RequiredTrue
  <2>3. CASE Installed(p) /\ UNCHANGED sup
    BY <2>1, <2>3, InstalledTrue
  <2>4. CASE Spawn(p) /\ UNCHANGED <<book, doubt>>
    BY <2>1, <2>4, SpawnTrue DEF book
  <2>5. CASE Fails(p) /\ UNCHANGED <<book, sup, doubt>>
    BY <2>1, <2>5, FailsTrue DEF book
  <2> QED BY <1>4, <2>2, <2>3, <2>4, <2>5 DEF InstallLocked
<1>5. CASE Tell(p)
  <2>1. /\ pc[p] = "detected" /\ lock = p /\ Required(p)
        /\ UNCHANGED <<active, stale, npm, sup, journal, doubt>>
    BY <1>5 DEF Tell, disk, tool, history, LockKept, Locked
  <2> QED BY <2>1, RequiredTrue
<1> QED BY <1>1, <1>2, <1>3, <1>4, <1>5

\* A supervisor has told how npm ended.
LEMMA EndTold ==
  ASSUME TypeOK, LockKept, NEW p \in Updater, pc[p] = "npm", sup[p] \in Exits,
         sup' = [sup EXCEPT ![p] = "none"]
  PROVE  /\ pc[p] \in Locked /\ npm[p] = "none" /\ lock = p
         /\ sup'[p] = "none" /\ \A q \in Updater \ {p} : sup'[q] = sup[q]
         /\ UNCHANGED npm /\ sup[p] # "ok" => Unrecorded' = Unrecorded
<1>1. /\ pc[p] \in Locked /\ npm[p] = "none" /\ lock = p
  BY DEF LockKept, Locked, Exits
<1>2. sup'[p] = "none" /\ \A q \in Updater \ {p} : sup'[q] = sup[q]
  BY DEF TypeOK
<1> QED BY <1>1, <1>2 DEF Unrecorded

\* An installation that has ended is recorded, doubtful, due for a repair, or has
\* changed nothing.
LEMMA EndedTrue ==
  ASSUME TypeOK, LockKept, Truthful, NEW p \in Updater, NpmEnded(p)
  PROVE  Truthful'
<1>1. /\ pc[p] = "npm" /\ sup[p] \in Exits /\ sup' = [sup EXCEPT ![p] = "none"]
      /\ UNCHANGED <<active, stale, npm>>
  BY DEF NpmEnded, disk
<1>2. /\ pc[p] \in Locked /\ npm[p] = "none" /\ lock = p
      /\ sup'[p] = "none" /\ \A q \in Updater \ {p} : sup'[q] = sup[q]
      /\ (UNCHANGED npm /\ sup[p] # "ok" => Unrecorded' = Unrecorded)
  BY <1>1, EndTold
<1>3. \A q \in Updater : pc[q] # "clear"
  BY <1>1, <1>2, Holder DEF Locked
<1>4. CASE Installed(p)
  BY <1>1, <1>2, <1>4, InstalledTrue
<1>5. CASE journal' = Detected /\ Goes(p, "detected", mem[p]) /\ UNCHANGED <<book, doubt>>
  <2>1. Due'
    BY <1>3, <1>5 DEF Due, Pending, Detected, NoJournal, Goes, TypeOK
  <2>2. Pending' /\ "detected" \in Points \ {"dead"} /\ UNCHANGED behind
    BY <2>1, <1>5, Going DEF Due, book
  <2> QED BY <1>1, <1>5, <2>1, <2>2, Rewritten
<1>6. CASE Fails(p) /\ doubt' = (doubt \/ sup[p] = "ok") /\ UNCHANGED <<journal, book>>
  <2>1. Goes(p, "told", With(p, "Failed")) /\ With(p, "Failed").version = mem[p].version
    BY <1>6, SameVersion DEF Fails
  <2>2. /\ UNCHANGED <<doc, behind, journal>> /\ "told" \in Points \ {"dead"}
        /\ Pending' = Pending /\ Due' = Due
    BY <1>3, <1>6, <2>1, Going DEF book, Pending, Due, Goes, TypeOK
  <2>3. Agree => doc.version \in {0, Base}
                 /\ (p \notin behind => mem[p].version \in {0, Base})
    BY <1>1 DEF Agree
  <2>4. CASE sup[p] = "ok"
    <3>1. doubt'
      BY <1>6, <2>4
    <3> QED BY <1>1, <2>1, <2>2, <3>1, Rewritten
  <2>5. CASE sup[p] # "ok"
    <3>1. Unrecorded' = Unrecorded /\ doubt' = doubt
      BY <1>1, <1>2, <1>6, <2>5 DEF TypeOK
    <3> QED BY <1>1, <2>1, <2>2, <2>3, <3>1, Rewritten
  <2> QED BY <2>4, <2>5
<1> QED BY <1>4, <1>5, <1>6 DEF NpmEnded

\* A repair writes what it loaded at its start, while the repair is due.
LEMMA RepairFailsTrue ==
  ASSUME TypeOK, LockKept, Truthful, NEW p \in Updater, RepairFails(p),
         pc[p] \in Locked, Pending, UNCHANGED <<active, stale, npm, journal>>,
         doubt => doubt'
  PROVE  Truthful'
<1>1. lock = p /\ \A q \in Updater \ {p} : pc[q] \notin Locked
  BY Holder DEF LockKept
<1>2. Saves(p, With(p, "Failed")) /\ Goes(p, "idle", NoCli)
  BY DEF RepairFails, Ends
<1>3. /\ \A q \in behind \ (behind' \cup {p}) : pc[q] = "idle"
      /\ behind' \ {p} \subseteq behind \/ \A q \in Updater \ {p} : pc[q] # "lookup"
  BY <1>1, <1>2, Saving
<1>4. Due' /\ Pending'
  BY <1>1, <1>2 DEF Due, Pending, Goes, TypeOK, Locked
<1>5. "idle" \in Points \ {"dead"}
  BY Going
<1> QED BY <1>2, <1>3, <1>4, <1>5, Rewritten

\* A repair up to the installation: it is due, and moves only what is stale.
LEMMA QuarantineTrue ==
  ASSUME TypeOK, LockKept, Truthful, NEW p \in Updater,
         \/ Repair(p) \/ Resolve(p) \/ PlanQuarantine(p) \/ Move(p) \/ Reconcile(p)
         \/ NothingStale(p) \/ QuarantineFails(p)
  PROVE  Truthful'
<1>1. CASE Repair(p)
  <2>1. /\ pc[p] = "repair" /\ UNCHANGED <<active, stale, npm, sup, journal, doc, doubt>>
        /\ behind' \in {behind, behind \ {p}}
    BY <1>1 DEF Repair, disk, tool, history
  <2>2. CASE Repairable /\ Goes(p, "resolve", mem[p]) /\ behind' = behind
    BY <2>1, <2>2, Going, Copying DEF Repairable
  <2>3. CASE Ends(p)
    BY <2>1, <2>3, Going, Copying DEF Ends
  <2> QED BY <1>1, <2>2, <2>3 DEF Repair
<1>2. CASE Resolve(p)
  <2>1. /\ pc[p] = "resolve" /\ pc[p] \in Locked /\ Pending
        /\ UNCHANGED <<active, stale, npm, sup, journal, doubt>>
    BY <1>2 DEF Resolve, disk, tool, history, Locked, Truthful, Watched
  <2>2. CASE Goes(p, "quarantine", mem[p]) /\ UNCHANGED book
    BY <2>1, <2>2, Going, Copying DEF book
  <2>3. CASE RepairFails(p)
    BY <2>1, <2>3, RepairFailsTrue
  <2> QED BY <1>2, <2>2, <2>3 DEF Resolve
<1>3. CASE QuarantineFails(p)
  <2>1. /\ pc[p] \in Locked /\ Pending /\ RepairFails(p)
        /\ UNCHANGED <<active, stale, npm, journal, doubt>>
    BY <1>3 DEF QuarantineFails, disk, tool, history, Locked, Truthful, Watched
  <2> QED BY <2>1, RepairFailsTrue
<1>4. CASE PlanQuarantine(p) \/ Move(p) \/ Reconcile(p)
  <2>1. /\ pc[p] = "quarantine" /\ Pending /\ Pending'
        /\ UNCHANGED <<doc, mem, pc, behind, active, sup, npm, doubt>>
    <3>1. pc[p] = "quarantine" /\ UNCHANGED <<doc, mem, pc, behind, active, sup, npm, doubt>>
      BY <1>4 DEF PlanQuarantine, Move, Reconcile, disk, book, tool, history
    <3>2. Pending
      BY <3>1 DEF Truthful, Watched
    <3>3. PlanQuarantine(p) => Pending'
      BY DEF PlanQuarantine, Pending, TypeOK, Journal
    <3>4. Move(p) \/ Reconcile(p) => Pending'
      BY <3>2 DEF Move, Reconcile, Pending
    <3> QED BY <1>4, <3>1, <3>2, <3>3, <3>4
  <2>2. \A q \in Updater : npm[q] = "none"
    BY <2>1, Holder DEF LockKept, Locked
  <2>3. Base = active /\ Base' = active /\ Unrecorded' = Unrecorded
    BY <2>1, <2>2 DEF Base, Unrecorded
  <2> QED BY <2>1, <2>2, <2>3, Undisturbed
<1>5. CASE NothingStale(p)
  <2>1. /\ pc[p] = "quarantine" /\ Pending /\ Pending' /\ Goes(p, "repairing", mem[p])
        /\ UNCHANGED <<doc, behind, active, stale, sup, npm, doubt>>
    BY <1>5 DEF NothingStale, disk, book, tool, history, Pending, Truthful, Watched,
                TypeOK, Journal
  <2>2. \A q \in Updater : pc'[q] # "clear"
    BY <2>1, Holder DEF LockKept, Locked, Goes, TypeOK
  <2>3. Due' /\ "repairing" \in Points \ {"dead"}
    BY <2>1, <2>2, Going DEF Due
  <2> QED BY <2>1, <2>3, Rewritten
<1> QED BY <1>1, <1>2, <1>3, <1>4, <1>5

\* The installation of a repair.
LEMMA ReinstallTrue ==
  ASSUME TypeOK, LockKept, KindKept, RepairOK, Truthful, NEW p \in Updater,
         Reinstall(p) \/ Reinstalled(p) \/ Clear(p)
  PROVE  Truthful'
<1>1. Recorded(p).version = active
  BY DEF Recorded
<1>2. CASE Reinstall(p)
  <2>1. /\ pc[p] = "repairing" /\ pc[p] \in Locked /\ npm[p] = "none" /\ sup[p] = "none"
        /\ Pending /\ Pending' = Pending /\ UNCHANGED <<active, stale, npm, journal>>
    BY <1>2 DEF Reinstall, disk, LockKept, Locked, Truthful, Watched, Pending
  <2>2. CASE Completed(p) /\ UNCHANGED sup
    BY <1>1, <2>1, <2>2, Recording DEF Completed
  <2>3. CASE Spawn(p) /\ UNCHANGED <<book, doubt>>
    BY <2>1, <2>3, SpawnTrue DEF book
  <2> QED BY <1>2, <2>2, <2>3 DEF Reinstall
<1>3. CASE Reinstalled(p)
  <2>1. /\ pc[p] = "npm" /\ sup[p] \in Exits /\ sup' = [sup EXCEPT ![p] = "none"]
        /\ kind[p] = "repair" /\ UNCHANGED <<active, stale, npm, journal>>
    BY <1>3 DEF Reinstalled, disk
  <2>2. Pending /\ Pending' = Pending
    BY <2>1 DEF RepairOK, NpmAllowed, Pending
  <2>3. /\ pc[p] \in Locked /\ npm[p] = "none"
        /\ sup'[p] = "none" /\ \A q \in Updater \ {p} : sup'[q] = sup[q]
    BY <2>1, EndTold
  <2>4. CASE Completed(p)
    BY <1>1, <2>1, <2>2, <2>3, <2>4, Recording DEF Completed
  <2>5. CASE RepairFails(p) /\ doubt' = (doubt \/ sup[p] = "ok")
    BY <2>1, <2>2, <2>3, <2>5, RepairFailsTrue
  <2> QED BY <1>3, <2>4, <2>5 DEF Reinstalled
<1>4. CASE Clear(p)
  <2>1. /\ pc[p] = "clear" /\ Goes(p, "idle", NoCli) /\ behind' = behind \ {p}
        /\ UNCHANGED <<active, stale, npm, sup, doc, doubt>> /\ ~Pending'
    BY <1>4 DEF Clear, Ends, disk, tool, Pending, NoJournal
  <2>2. ~Due /\ \A q \in Updater \ {p} : pc[q] \notin Locked \cup {"dead"}
    BY <2>1, Holder DEF Due, LockKept, Locked
  <2>3. pc'[p] = "idle" /\ \A q \in Updater \ {p} : pc'[q] = pc[q] /\ mem'[q] = mem[q]
    BY <2>1 DEF Goes, TypeOK
  <2>4. Watched'
    BY <2>1, <2>2, <2>3 DEF Truthful, Watched, Locked
  <2>5. Base' = Base /\ Unrecorded' = Unrecorded
    BY <2>1 DEF Base, Unrecorded
  <2>6. Agree => Agree'
    BY <2>1, <2>3, <2>5 DEF Agree
  <2> QED BY <2>1, <2>2, <2>4, <2>5, <2>6 DEF Truthful
<1> QED BY <1>2, <1>3, <1>4

\* A supervisor that goes away leaves what npm did recorded, to be recorded, or in doubt.
LEMMA GoneTrue ==
  ASSUME TypeOK, LockKept, Truthful, NEW p \in Updater, NEW exit \in Exits, Gone(p, exit),
         doubt => doubt',
         doubt' \/ (sup[p] = "up" /\ npm[p] = exit /\ pc[p] # "dead"),
         UNCHANGED <<active, stale, journal, doc, behind>>
  PROVE  Truthful'
<1>1. CASE doubt'
  <2>1. Watched'
    BY <1>1 DEF Gone, Ends, Goes, Truthful, Watched, TypeOK, Pending
  <2> QED BY <1>1, <2>1 DEF Truthful
<1>2. CASE ~doubt'
  <2>1. /\ sup[p] = "up" /\ npm[p] = exit /\ UNCHANGED <<pc, mem>>
        /\ sup' = [sup EXCEPT ![p] = exit] /\ npm' = [npm EXCEPT ![p] = "none"]
    BY <1>2 DEF Gone
  <2>2. lock = p /\ pc[p] \in {"npm", "dead"}
    BY <2>1 DEF LockKept
  <2>3. \A q \in Updater \ {p} : sup[q] = "none" /\ npm[q] = "none"
    BY <2>2, Holder
  <2>4. \A q \in Updater : npm'[q] = "none"
    BY <2>1, <2>3 DEF TypeOK
  <2>5. Base' = Base
    BY <2>1, <2>3, <2>4 DEF Base, Exits
  <2>6. Unrecorded' = Unrecorded
    BY <2>1, <2>3, <2>4 DEF Unrecorded, Exits, TypeOK
  <2>7. Pending' = Pending
    BY DEF Pending
  <2> QED BY <2>1, <2>4, <2>5, <2>6, <2>7, Undisturbed
<1> QED BY <1>1, <1>2

\* npm puts a new version in place, or the one that was there.
LEMMA NpmTrue ==
  ASSUME TypeOK, LockKept, Truthful, NEW p \in Updater, Npm(p)
  PROVE  Truthful'
<1>1. /\ npm[p] # "none" /\ UNCHANGED <<journal, doc, behind, pc, mem, sup, doubt>>
      /\ \A q \in Updater \ {p} : npm'[q] = npm[q]
  BY DEF Npm, Retire, Unpack, RemoveOld, RollBack, book, history, TypeOK
<1>2. lock = p /\ sup[p] = "up" /\ \A q \in Updater \ {p} : npm[q] = "none" /\ sup[q] = "none"
  BY <1>1, Holder DEF LockKept
<1>3. /\ Base = IF npm[p] = "retired" THEN stale ELSE active
      /\ Base' = IF npm'[p] = "retired" THEN stale' ELSE active'
      /\ Unrecorded <=> npm[p] \in {"unpacked", "ok"}
      /\ Unrecorded' <=> npm'[p] \in {"unpacked", "ok"}
  BY <1>1, <1>2 DEF Base, Unrecorded
<1>4. Pending' = Pending
  BY <1>1 DEF Pending
<1>5. CASE Retire(p)
  <2>1. ~Unrecorded /\ Base' = Base /\ (npm'[p] = "retired" => active' = 0)
    BY <1>3, <1>5 DEF Retire, TypeOK
  <2> QED BY <1>1, <1>2, <1>4, <2>1, Undisturbed
<1>6. CASE Unpack(p) \/ RemoveOld(p)
  <2>1. Unrecorded' /\ npm'[p] # "retired"
    BY <1>3, <1>6 DEF Unpack, RemoveOld, TypeOK
  <2> QED BY <1>1, <1>2, <1>4, <2>1, Undisturbed
<1>7. CASE RollBack(p)
  <2>1. ~Unrecorded /\ Base' = Base /\ npm'[p] # "retired"
    BY <1>3, <1>7 DEF RollBack, TypeOK
  <2> QED BY <1>1, <1>2, <1>4, <2>1, Undisturbed
<1> QED BY <1>5, <1>6, <1>7 DEF Npm

\* What supervisors, crashes and the world do.
LEMMA WorldTrue ==
  ASSUME TypeOK, LockKept, Truthful,
         \/ Publish \/ RemoveStale \/ UNCHANGED vars
         \/ \E p \in Updater : Supervise(p) \/ Crash(p) \/ CrashSupervisor(p)
  PROVE  Truthful'
<1>1. "failed" \in Exits
  BY DEF Exits
<1>2. ASSUME NEW p \in Updater, Check(p) \/ Begin(p) PROVE Truthful'
  <2>1. /\ UNCHANGED <<active, stale, journal, doc, behind, pc, mem, doubt>>
        /\ sup[p] \notin {"none", "ok"} /\ npm[p] # "retired" /\ npm[p] \notin {"unpacked", "ok"}
        /\ sup'[p] # "ok" /\ npm'[p] # "retired" /\ npm'[p] \notin {"unpacked", "ok"}
        /\ \A q \in Updater \ {p} : sup'[q] = sup[q] /\ npm'[q] = npm[q]
    BY <1>2 DEF Check, Begin, disk, book, history, TypeOK, LockKept
  <2>2. Base' = Base /\ Unrecorded' = Unrecorded /\ Pending' = Pending
    BY <2>1 DEF Base, Unrecorded, Pending
  <2>3. \A q \in Updater : npm'[q] = "retired" => active' = 0
    BY <2>1 DEF Truthful, Watched
  <2> QED BY <2>1, <2>2, <2>3, Undisturbed
<1>3. ASSUME NEW p \in Updater, Leave(p) PROVE Truthful'
  <2>1. /\ sup[p] = "up" /\ npm[p] \in Exits /\ Gone(p, npm[p])
        /\ UNCHANGED <<active, stale, journal, doc, behind, doubt>>
    BY <1>3 DEF Leave, disk, book, history
  <2>2. pc[p] = "dead" => doubt
    BY DEF Truthful, Watched
  <2> QED BY <2>1, <2>2, GoneTrue
<1>4. ASSUME NEW p \in Updater, Abandoned(p) PROVE Truthful'
  <2>1. /\ doubt' /\ Gone(p, "failed")
        /\ UNCHANGED <<active, stale, journal, doc, behind>>
    BY <1>4 DEF Abandoned, disk, book, history, Truthful, Watched
  <2> QED BY <1>1, <2>1, GoneTrue
<1>5. ASSUME NEW p \in Updater, Expired(p) \/ CrashSupervisor(p) PROVE Truthful'
  <2>1. /\ doubt' /\ Gone(p, "failed")
        /\ UNCHANGED <<active, stale, journal, doc, behind>>
    BY <1>5 DEF Expired, CrashSupervisor, disk, book
  <2> QED BY <1>1, <2>1, GoneTrue
<1>6. ASSUME NEW p \in Updater, Crash(p) PROVE Truthful'
  <2>1. /\ UNCHANGED <<active, stale, journal, doc, npm>> /\ behind' = behind \ {p}
        /\ doubt' = (doubt \/ lock = p)
    BY <1>6 DEF Crash, disk
  <2>2. CASE lock = p
    <3>1. doubt'
      BY <2>1, <2>2
    <3>2. Watched'
      BY <1>6, <2>1, <3>1 DEF Crash, Ends, Goes, Truthful, Watched, TypeOK, Pending
    <3> QED BY <3>1, <3>2 DEF Truthful
  <2>3. CASE lock # p
    <3>1. sup[p] = "none" /\ pc[p] \notin Locked \cup {"dead"}
      BY <2>3 DEF LockKept
    <3>2. Goes(p, "idle", NoCli) /\ sup' = sup /\ doubt' = doubt
      BY <1>6, <2>1, <2>3, <3>1 DEF Crash, Ends, TypeOK
    <3> QED BY <2>1, <3>1, <3>2, Going, Copying DEF Locked
  <2> QED BY <2>2, <2>3
<1>7. CASE RemoveStale
  <2>1. /\ UNCHANGED <<active, journal, doc, behind, pc, mem, sup, npm, doubt>>
        /\ \A q \in Updater : npm[q] = "none"
    BY <1>7 DEF RemoveStale, book, tool, history
  <2>2. Base' = Base /\ Unrecorded' = Unrecorded /\ Pending' = Pending
    BY <2>1 DEF Base, Unrecorded, Pending
  <2> QED BY <2>1, <2>2, Undisturbed
<1>8. CASE Publish \/ UNCHANGED vars
  <2>1. UNCHANGED <<active, stale, journal, doc, behind, pc, mem, sup, npm, doubt>>
    BY <1>8 DEF Publish, vars, disk, book, tool, history
  <2>2. Base' = Base /\ Unrecorded' = Unrecorded /\ Pending' = Pending
    BY <2>1 DEF Base, Unrecorded, Pending
  <2>3. \A q \in Updater : npm'[q] = "retired" => active' = 0
    BY <2>1 DEF Truthful, Watched
  <2> QED BY <2>1, <2>2, <2>3, Undisturbed
<1> QED BY <1>2, <1>3, <1>4, <1>5, <1>6, <1>7, <1>8 DEF Supervise

\* What the document says is installed is so whenever nobody is at work on the
\* installation, none was cut short or left unseen, and no repair is due: no copy
\* that was read before an installation is written back after it.
THEOREM DocumentIsTrue == Spec => []DocumentTrue
<1>1. Init => Truthful
  <2> SUFFICES ASSUME Init PROVE Truthful
    OBVIOUS
  <2>1. \A p \in Updater : pc[p] = "idle" /\ npm[p] = "none"
    BY DEF Init
  <2>2. doc.version = 0
    BY DEF Init, NoCli
  <2> QED BY <2>1, <2>2 DEF Truthful, Watched, Agree
<1>2. Kept /\ Truthful /\ [Next]_vars => Truthful'
  <2> SUFFICES ASSUME Kept, Truthful, [Next]_vars PROVE Truthful'
    OBVIOUS
  <2> USE DEF Kept
  <2>1. ASSUME NEW p \in Updater, Start(p) \/ Step(p) PROVE Truthful'
    BY <2>1, PreflightTrue, PersistTrue, InstallTrue, EndedTrue, QuarantineTrue, ReinstallTrue
    DEF Step
  <2>2. ASSUME NEW p \in Updater, Npm(p) PROVE Truthful'
    BY <2>2, NpmTrue
  <2> QED BY <2>1, <2>2, WorldTrue DEF Next
<1>3. Kept /\ Truthful => DocumentTrue
  <2> SUFFICES ASSUME Kept, Truthful, lock = Nobody, ~Pending, ~doubt
               PROVE  doc.version \in {0, active}
    BY DEF DocumentTrue
  <2> QED BY NoHolder DEF Kept, Truthful, Due, Agree
<1> QED BY <1>1, <1>2, <1>3, KeptHolds, PTL DEF Spec
=============================================================================
