---------------------------- MODULE HistoryProofs ----------------------------
(***************************************************************************)
(* Proofs about UpdateHistory.  In every behaviour, until one of the named *)
(* mishaps has happened: a pending update keeps its package, a dismissed   *)
(* dialog is not shown again by the updater itself, no DMG is skipped that *)
(* was not dealt with, what is retained for a rollback was installed, has  *)
(* the version recorded for it, and what was rolled back is not installed  *)
(* again by an update.                                                     *)
(*                                                                         *)
(* All rest on Orderly: a process that runs alone has in memory what is on *)
(* disk, as far as status and package go, whichever of its edits it has    *)
(* written back; and what a dialog or a rollback suspends is recorded.     *)
(* Backing, Calm and Followed, on top of it, are what the first three      *)
(* properties need; Faithful, which is about what the document says of the *)
(* packages, is what the last three do.                                    *)
(***************************************************************************)
EXTENDS UpdateHistory, UpdateProofs

Waiting == "WaitingForAppExit"

OneAtATime ==
  \A p, q \in Proc : pc[p] # "idle" /\ pc[q] # "idle" => p = q

\* Two documents that offer the same package in the same way.
Same(d, e) ==
  /\ d.status = e.status
  /\ d.package = e.package
  /\ d.packageVerified = e.packageVerified

Synced == \A p \in Proc : pc[p] # "idle" => Same(mem[p], disk)

\* What the flow's document says at the point "to": an install that is asked
\* for, or a build for no pending update, in a workspace it has a name for.
Placed(to, d) ==
  /\ to \in {"authorize", "denied"} => d.status = "Installing"
  /\ to \in BuildPoints => ~InstallIsPending(d)
  /\ to \in {"wipe", "prepare"} => d.candidate \in Version
  /\ to \in {"patch", "package", "finish"} => d.workspace \in Version

\* A rollback that is over has nothing to restore.
Rested == pc["rollback"] = "idle" => previous = "Idle"

Orderly == OneAtATime /\ Synced /\ Placed(pc["flow"], Flow) /\ Rested

\* What a pending update has on disk.
Backed(d) == InstallIsPending(d) => Bound(files, d.package, d.packageVerified)

Backing == pc["rollback"] = "idle" /\ Backed(disk)

\* After a dismissed dialog no document waits for ChatGPT to exit.
Calm ==
  dismissed => ~app /\ disk.status # Waiting /\ previous # Waiting

-----------------------------------------------------------------------------
(* What a step of a process does, as far as these invariants see it.       *)

\* The document d, left behind, offers nothing that is not there.
Honours(d) ==
  Backed(disk) /\ InstallIsPending(d) => Bound(files', d.package, d.packageVerified)

\* The document d waits only for an open ChatGPT, or where one waited before.
Patient(d) ==
  d.status = Waiting => disk.status = Waiting \/ previous = Waiting \/ app

\* A process at work goes to a point with the document d, saved or not.
Moved(p, to, d) ==
  /\ pc[p] # "idle"
  /\ Goto(p, to, d)
  /\ \/ disk' = d
     \/ disk' = disk /\ Same(d, disk)
  /\ p = "flow" => Placed(to, d)
  /\ p # "rollback" => Honours(d) /\ UNCHANGED previous
  /\ p = "rollback" => /\ previous' \in {previous, "Idle", disk.status}
                       /\ to = "idle" => previous' = "Idle"
  /\ Patient(d)
  /\ UNCHANGED app

\* A process is started, alone, on the saved document.
Started(p) ==
  /\ AllIdleBut(p)
  /\ Goto(p, "sync", disk)
  /\ UNCHANGED <<disk, previous, files, app>>

-----------------------------------------------------------------------------
(* The edits of a document, as far as status and package go.               *)

\* Refreshing the installed version, normalising the workspace and forgetting
\* a dismissed dialog change nothing of the offer.
LEMMA SameEdits ==
  ASSUME NEW d \in Document, NEW v
  PROVE  /\ Same(d, d)
         /\ Same(SyncRuntime(d, v), d)
         /\ Same([d EXCEPT !.installed = v], d)
         /\ Same(NormalizeWorkspace(d), d)
         /\ Same(ClearAuthEvent(d), d)
BY DEF Same, SyncRuntime, NormalizeWorkspace, ClearAuthEvent, Document

\* Setting the status leaves the package alone.
LEMMA StatusEdits ==
  ASSUME NEW d \in Document, NEW s \in Status
  PROVE  /\ WithStatus(d, s).status = s
         /\ WithStatus(d, s).package = d.package
         /\ WithStatus(d, s).packageVerified = d.packageVerified
         /\ WithStatus(d, s) \in Document
BY DEF WithStatus, Document

\* The edits that end an update leave a status that is not pending.
LEMMA EndingEdits ==
  ASSUME NEW d \in Document, NEW v, NEW dmg
  PROVE  /\ MarkFailed(d).status = "Failed"
         /\ Settle(d).status = "Installed"
         /\ ClearCandidate(d, dmg).status = "Idle"
         /\ AfterInstall(d, v).status = "Installed"
         /\ AfterRollback(d, v).status = "Installed"
<1>1. MarkFailed(d).status = "Failed"
  BY StatusEdits DEF MarkFailed, Status
<1>2. Settle(d).status = "Installed"
  BY DEF Settle, ClearRollbackBlock, WithStatus, NormalizeWorkspace, Document
<1>3. ClearCandidate(d, dmg).status = "Idle"
  BY DEF ClearCandidate, WithStatus, NormalizeWorkspace, Document
<1>4. AfterInstall(d, v).status = "Installed"
  BY DEF AfterInstall, ClearRollbackBlock, WithStatus, NormalizeWorkspace, Document
<1>5. AfterRollback(d, v).status = "Installed"
  BY DEF AfterRollback, NormalizeWorkspace, Document
<1> QED BY <1>1, <1>2, <1>3, <1>4, <1>5

\* The documents and the workspaces are typed.
LEMMA Typing ==
  ASSUME Inv
  PROVE  /\ disk \in Document
         /\ \A p \in Proc : mem[p] \in Document
         /\ files \in [Version -> Package]
         /\ Flow \in Document
         /\ Flow = mem["flow"]
BY Reads DEF Sound, Inv, WorldOK, FilesOK, Flow, Proc

\* Pruning for a document keeps the package it names.
LEMMA PruneSpares ==
  ASSUME NEW d \in Document, d.package # None
  PROVE  PruneWorkspaces(files, d)[d.package] = files[d.package]
BY CountsAssumption
DEF PruneWorkspaces, ProtectedWorkspaces, Document, VersionOrNone, Version, None
\* A document that is not pending offers nothing and waits for nothing.
LEMMA QuietFits ==
  ASSUME NEW d, ~InstallIsPending(d) PROVE Honours(d) /\ Patient(d)
BY DEF Honours, Patient, InstallIsPending, Waiting

\* The offer of the saved document is honoured while its package is kept.
LEMMA SameFits ==
  ASSUME NEW d, Same(d, disk),
         d.package # None => files'[d.package] = files[d.package]
  PROVE  Honours(d) /\ Patient(d)
BY DEF Honours, Patient, Same, Backed, Bound, InstallIsPending

\* So is the offer of a document that has another status, but still waits.
LEMMA AgainFits ==
  ASSUME NEW d, InstallIsPending(disk),
         d.package = disk.package, d.packageVerified = disk.packageVerified,
         d.status = Waiting => disk.status = Waiting \/ app,
         UNCHANGED files
  PROVE  Honours(d) /\ Patient(d)
BY DEF Honours, Patient, Backed, Bound

\* A process at work has the saved offer in memory.
LEMMA InStep ==
  ASSUME Orderly, NEW p \in Proc, pc[p] # "idle" PROVE Same(mem[p], disk)
BY DEF Orderly, Synced

\* Being the same offer is transitive.
LEMMA SameChain ==
  ASSUME NEW d, NEW e, NEW f, Same(d, e), Same(e, f) PROVE Same(d, f)
BY DEF Same

\* A point that requires nothing of the flow.
Plain(to) == to \notin BuildPoints \cup {"authorize", "denied"}

\* At such a point any document will do.
LEMMA PlainFits ==
  ASSUME NEW to, Plain(to), NEW d PROVE Placed(to, d)
BY DEF Plain, Placed, BuildPoints

-----------------------------------------------------------------------------
(* What a move preserves.                                                  *)

\* A process that moves stays the only one at work, in step with the disk.
LEMMA MovedOrderly ==
  ASSUME Inv, Orderly, NEW p \in Proc, NEW to, NEW d, Moved(p, to, d)
  PROVE  Orderly'
<1>1. pc \in [Proc -> FlowPoints \cup StatusPoints \cup RollbackPoints]
      /\ mem \in [Proc -> Sound]
  BY DEF Inv, PointsOK, DocsOK
<1>2. /\ pc'[p] = to /\ \A q \in Proc \ {p} : pc'[q] = pc[q]
      /\ to # "idle" => mem'[p] = d
      /\ \A q \in Proc \ {p} : mem'[q] = mem[q]
  BY <1>1 DEF Moved, Goto
<1>3. \A q \in Proc \ {p} : pc[q] = "idle"
  BY DEF Orderly, OneAtATime, Moved
<1>4. OneAtATime'
  BY <1>2, <1>3 DEF OneAtATime
<1>5. Synced'
  BY <1>2, <1>3 DEF Synced, Moved, Same
<1>6. Placed(pc["flow"], Flow)'
  <2>1. CASE p = "flow" /\ to # "idle"
    BY <1>2, <2>1 DEF Moved, Flow
  <2>2. CASE p # "flow" \/ to = "idle"
    <3>1. pc'["flow"] = "idle"
      BY <1>2, <1>3, <2>2 DEF Proc
    <3> QED BY <3>1 DEF Placed, BuildPoints
  <2> QED BY <2>1, <2>2
<1>7. Rested'
  BY <1>2, <1>3 DEF Orderly, Rested, Moved, Proc
<1> QED BY <1>4, <1>5, <1>6, <1>7 DEF Orderly

\* While no rollback is at work, a move keeps what a pending update needs.
LEMMA MovedBacking ==
  ASSUME Inv, Orderly, Backing, NEW p \in Proc, NEW to, NEW d, Moved(p, to, d)
  PROVE  Backing'
<1>1. pc \in [Proc -> FlowPoints \cup StatusPoints \cup RollbackPoints]
      /\ mem \in [Proc -> Sound]
  BY DEF Inv, PointsOK, DocsOK
<1>2. p # "rollback"
  BY DEF Backing, Moved
<1>3. pc'["rollback"] = "idle"
  BY <1>1, <1>2 DEF Backing, Moved, Goto, Proc
<1>4. Backed(disk)'
  BY <1>2 DEF Moved, Honours, Backing, Backed, Same, InstallIsPending
<1> QED BY <1>3, <1>4 DEF Backing

\* A move, even one that ends a dialog, keeps the calm after it.
LEMMA MovedCalm ==
  ASSUME Inv, Orderly, Calm, RecordDismissed,
         NEW p \in Proc, NEW to, NEW d, Moved(p, to, d)
  PROVE  Calm'
<1>1. CASE Moves("flow", "authorize", "denied")
  <2>1. pc \in [Proc -> FlowPoints \cup StatusPoints \cup RollbackPoints]
    BY DEF Inv, PointsOK
  <2>2. p = "flow" /\ to = "denied"
    BY <1>1, <2>1 DEF Moves, Moved, Goto, Proc
  <2>3. pc["rollback"] = "idle"
    BY <2>2 DEF Orderly, OneAtATime, Moved, Proc
  <2>4. previous' = "Idle"
    BY <2>2, <2>3 DEF Orderly, Rested, Moved
  <2>5. disk'.status = "Installing"
    BY <2>2 DEF Moved, Placed, Same
  <2> QED BY <2>4, <2>5 DEF Calm, RecordDismissed, Waiting
<1>2. CASE ~Moves("flow", "authorize", "denied")
  <2>1. dismissed' => dismissed
    BY <1>2 DEF RecordDismissed
  <2>2. dismissed => disk'.status # Waiting
    BY DEF Calm, Moved, Patient, Same
  <2>3. dismissed => previous' # Waiting
    BY DEF Calm, Moved, Waiting
  <2> QED BY <2>1, <2>2, <2>3 DEF Calm, Moved
<1> QED BY <1>1, <1>2
\* Starting a process alone leaves it in step with the disk.
LEMMA StartedOrderly ==
  ASSUME Inv, Orderly, NEW p \in Proc, Started(p) PROVE Orderly'
<1>1. /\ pc'[p] = "sync" /\ \A q \in Proc \ {p} : pc'[q] = "idle" /\ pc[q] = "idle"
      /\ mem'[p] = disk
      /\ \A q \in Proc \ {p} : mem'[q] = mem[q]
  BY DEF Inv, PointsOK, DocsOK, Started, Goto, AllIdleBut
<1>2. OneAtATime' /\ Synced'
  BY <1>1 DEF OneAtATime, Synced, Started, Same
<1>3. Placed(pc["flow"], Flow)'
  BY <1>1 DEF Placed, BuildPoints, Proc
<1>4. Rested'
  <2>1. pc'["rollback"] = "idle" => pc["rollback"] = "idle"
    BY <1>1 DEF Proc
  <2> QED BY <2>1 DEF Orderly, Rested, Started
<1> QED BY <1>2, <1>3, <1>4 DEF Orderly

\* It keeps what a pending update needs, and the calm after a dialog.
LEMMA StartedKeeps ==
  ASSUME Inv, NEW p \in Proc, Started(p)
  PROVE  /\ Backing /\ p # "rollback" => Backing'
         /\ Calm /\ RecordDismissed => Calm'
<1>1. /\ pc'[p] = "sync" /\ \A q \in Proc \ {p} : pc'[q] = "idle"
      /\ \A q \in Proc \ {p} : mem'[q] = mem[q]
  BY DEF Inv, PointsOK, DocsOK, Started, Goto, AllIdleBut
<1>2. Backed(disk)' <=> Backed(disk)
  BY DEF Started, Backed
<1>4. ~Moves("flow", "authorize", "denied")
  BY <1>1 DEF Moves, Proc
<1>5. Backing /\ p # "rollback" => Backing'
  BY <1>1, <1>2 DEF Backing, Proc
<1>6. Calm /\ RecordDismissed => Calm'
  BY <1>4 DEF Calm, RecordDismissed, Started
<1> QED BY <1>5, <1>6

\* So does a step of no process.
LEMMA StillKeeps ==
  ASSUME Inv, UNCHANGED docs
  PROVE  /\ Orderly => Orderly'
         /\ UNCHANGED files /\ Backing => Backing'
         /\ Calm /\ RecordDismissed => Calm'
<1>1. UNCHANGED <<disk, mem, pc, previous>>
  BY DEF docs
<1>2. Orderly => Orderly'
  BY <1>1 DEF Orderly, OneAtATime, Synced, Same, Placed, Rested, Flow
<1>3. UNCHANGED files /\ Backing => Backing'
  BY <1>1 DEF Backing, Backed
<1>4. ~Moves("flow", "authorize", "denied")
  BY <1>1 DEF Moves
<1>5. Calm /\ RecordDismissed => Calm'
  BY <1>1, <1>4 DEF Calm, RecordDismissed
<1> QED BY <1>2, <1>3, <1>5

-----------------------------------------------------------------------------
(* The steps the processes share are moves.                                *)

\* The processes other than the rollback command.
Updater == {"flow", "status"}

\* A process that goes on with its offer, saved or not, moves.
LEMMA GoesOn ==
  ASSUME Inv, Orderly, NEW p \in Updater, pc[p] # "idle",
         NEW to, NEW d, Same(d, mem[p]),
         Continue(p, to, d) \/ Save(p, to, d) \/ Persist(p, to, d),
         p = "flow" => Placed(to, d),
         d.package # None => files'[d.package] = files[d.package],
         UNCHANGED <<previous, app>>
  PROVE  Moved(p, to, d)
<1>1. p \in Proc /\ p # "rollback"
  BY DEF Updater, Proc
<1>2. Same(d, disk)
  BY <1>1, InStep, SameChain
<1>3. Honours(d) /\ Patient(d)
  BY <1>2, SameFits
<1>4. Goto(p, to, d) /\ (disk' = d \/ disk' = disk)
  BY DEF Continue, Save, Persist
<1> QED BY <1>1, <1>2, <1>3, <1>4 DEF Moved

\* A process that saves a document with an honest offer moves.
LEMMA Saves ==
  ASSUME NEW p \in Updater, pc[p] # "idle", NEW to, NEW d, Save(p, to, d),
         p = "flow" => Placed(to, d),
         Honours(d), Patient(d),
         UNCHANGED <<previous, app>>
  PROVE  Moved(p, to, d)
BY DEF Moved, Save, Updater

\* The context of these processes leaves the rollback's alone.
LEMMA ContextSpares ==
  ASSUME NEW p \in Updater, NEW to, Context(p, to) PROVE UNCHANGED previous
BY DEF Context, FlowContext, Updater

\* Refreshing the installed version is a move.
LEMMA SyncEntryMoves ==
  ASSUME Inv, Orderly, NEW p \in Proc, SyncEntry(p)
  PROVE  \E to, d : Moved(p, to, d)
<1> DEFINE d == IF p = "flow" THEN SyncRuntime(mem[p], sys.ver)
                              ELSE [mem[p] EXCEPT !.installed = sys.ver]
<1>1. Same(d, mem[p])
  BY Typing, SameEdits
<1>2. pc[p] # "idle" /\ Persist(p, AfterSync(p), d) /\ UNCHANGED world
      /\ Context(p, AfterSync(p))
  BY DEF SyncEntry, At
<1>3. AfterSync(p) \in {"current", "decide", "gate", "resync", "recover"}
  BY DEF AfterSync, Proc
<1> HIDE DEF d
<1>4. CASE p \in Updater
  <2>1. Placed(AfterSync(p), d)
    BY <1>3 DEF Placed, BuildPoints
  <2>2. UNCHANGED previous
    BY <1>2, <1>4, ContextSpares
  <2> QED BY <1>1, <1>2, <1>4, <2>1, <2>2, GoesOn DEF world
<1>5. CASE p = "rollback"
  <2>1. Same(d, disk)
    BY <1>1, <1>2, InStep, SameChain
  <2>2. UNCHANGED previous
    BY <1>2, <1>3, <1>5 DEF Context
  <2>3. Patient(d)
    BY <2>1 DEF Patient, Same
  <2> QED BY <1>2, <1>3, <1>5, <2>1, <2>2, <2>3 DEF Moved, Persist, world
<1> QED BY <1>4, <1>5 DEF Updater, Proc

\* Taking up an interrupted install is a move.
LEMMA RecoverMoves ==
  ASSUME Inv, Orderly, NEW p \in Updater, pc[p] # "idle",
         NEW d \in Document, Same(d, mem[p]),
         NEW to, Plain(to), NEW toIfFailed, Plain(toIfFailed),
         RecoverInterrupted(p, d, to, toIfFailed), UNCHANGED app
  PROVE  \E point, e : Moved(p, point, e)
<1>1. p \in Proc /\ Same(d, disk)
  BY InStep, SameChain DEF Updater, Proc
<1>2. UNCHANGED previous
  BY ContextSpares DEF RecoverInterrupted
<1>3. CASE d.status # "Installing"
  <2>1. Continue(p, to, d) /\ UNCHANGED files
    BY <1>3 DEF RecoverInterrupted
  <2> QED BY <1>2, <2>1, PlainFits, GoesOn
<1>4. CASE d.status = "Installing" /\ Satisfies(d.installed, d.candidate)
  <2>1. Save(p, to, Settle(d))
    BY <1>4 DEF RecoverInterrupted, SettleAndPrune
  <2>2. ~InstallIsPending(Settle(d))
    BY EndingEdits DEF InstallIsPending
  <2> QED BY <1>2, <2>1, <2>2, PlainFits, QuietFits, Saves
<1>5. CASE /\ d.status = "Installing"
           /\ ~Satisfies(d.installed, d.candidate)
           /\ PackageMissing(d)
  <2>1. Save(p, toIfFailed, MarkFailed(d))
    BY <1>5 DEF RecoverInterrupted
  <2>2. ~InstallIsPending(MarkFailed(d))
    BY EndingEdits DEF InstallIsPending
  <2> QED BY <1>2, <2>1, <2>2, PlainFits, QuietFits, Saves
<1>6. CASE /\ d.status = "Installing"
           /\ ~Satisfies(d.installed, d.candidate)
           /\ ~PackageMissing(d)
  <2> DEFINE r == WithStatus(d, "ReadyToInstall")
             e == NormalizeWorkspace(r)
  <2>1. Save(p, to, e) /\ UNCHANGED files
    BY <1>6 DEF RecoverInterrupted
  <2>2. r \in Document /\ r.status = "ReadyToInstall" /\ r.package = d.package
        /\ r.packageVerified = d.packageVerified
    BY StatusEdits DEF Status
  <2>3. Same(e, r)
    BY <2>2, SameEdits
  <2> HIDE DEF r, e
  <2>4. Honours(e) /\ Patient(e)
    BY <1>1, <1>6, <2>1, <2>2, <2>3, AgainFits DEF Same, InstallIsPending, Waiting
  <2> QED BY <1>2, <2>1, <2>4, PlainFits, Saves
<1> QED BY <1>3, <1>4, <1>5, <1>6
\* So are the other steps the flow and the status command share.
LEMMA SharedMoves ==
  ASSUME Inv, Orderly, NEW p \in Updater, Shared(p)
  PROVE  \E to, d : Moved(p, to, d)
<1>1. p \in Proc /\ mem[p] \in Document
  BY Typing DEF Updater, Proc
<1>2. CASE SyncEntry(p)
  BY <1>1, <1>2, SyncEntryMoves
<1>3. CASE Recover(p)
  <2> DEFINE failed == IF p = "flow" /\ kind = "install_ready" THEN "idle"
                       ELSE AfterRecover(p)
  <2>1. RecoverInterrupted(p, mem[p], AfterRecover(p), failed)
        /\ pc[p] # "idle" /\ UNCHANGED app
    BY <1>3 DEF Recover, At
  <2>2. Plain(AfterRecover(p)) /\ Plain(failed)
    BY DEF Plain, AfterRecover, BuildPoints
  <2> HIDE DEF failed
  <2> QED BY <1>1, <2>1, <2>2, SameEdits, RecoverMoves
<1>4. CASE CompleteCurrent(p)
  <2> DEFINE e == ClearCandidate(mem[p], mem[p].dmg)
             to == IF p = "flow" /\ kind = "install_ready" THEN "idle"
                   ELSE AfterCurrent(p)
  <2>1. Plain(to) /\ Plain(AfterCurrent(p))
    BY DEF Plain, AfterCurrent, BuildPoints
  <2>2. pc[p] # "idle" /\ UNCHANGED <<previous, app, files>>
    BY <1>4, ContextSpares DEF CompleteCurrent, At, world
  <2>3. \/ Save(p, to, e)
        \/ Continue(p, AfterCurrent(p), mem[p])
    BY <1>4 DEF CompleteCurrent
  <2>4. ~InstallIsPending(e)
    BY <1>1, EndingEdits DEF InstallIsPending
  <2> HIDE DEF to, e
  <2>5. CASE Save(p, to, e)
    BY <2>1, <2>2, <2>4, <2>5, PlainFits, QuietFits, Saves
  <2>6. CASE Continue(p, AfterCurrent(p), mem[p])
    BY <1>1, <2>1, <2>2, <2>6, SameEdits, PlainFits, GoesOn
  <2> QED BY <2>3, <2>5, <2>6
<1>5. CASE CompletePending(p)
  <2> DEFINE next == IF p = "status" THEN "recover" ELSE "offer"
             end == IF p = "status" THEN "recover" ELSE "idle"
  <2>1. Plain(next) /\ Plain(end)
    BY DEF Plain, BuildPoints
  <2>2. pc[p] # "idle" /\ UNCHANGED <<previous, app>>
    BY <1>5, ContextSpares DEF CompletePending, At
  <2>3. \/ Save(p, end, Settle(mem[p]))
        \/ Continue(p, next, mem[p]) /\ UNCHANGED files
    BY <1>5 DEF CompletePending, SettleAndPrune
  <2>4. ~InstallIsPending(Settle(mem[p]))
    BY <1>1, EndingEdits DEF InstallIsPending
  <2> HIDE DEF next, end
  <2>5. CASE Save(p, end, Settle(mem[p]))
    BY <2>1, <2>2, <2>4, <2>5, PlainFits, QuietFits, Saves
  <2>6. CASE Continue(p, next, mem[p]) /\ UNCHANGED files
    BY <1>1, <2>1, <2>2, <2>6, SameEdits, PlainFits, GoesOn
  <2> QED BY <2>3, <2>5, <2>6
<1>6. CASE Normalize(p)
  <2>1. Plain(AfterNormalize(p))
    BY DEF Plain, AfterNormalize, BuildPoints, Updater
  <2>2. pc[p] # "idle" /\ UNCHANGED <<previous, app, files>>
    BY <1>6, ContextSpares DEF Normalize, At, world
  <2>3. Persist(p, AfterNormalize(p), NormalizeWorkspace(mem[p]))
    BY <1>6 DEF Normalize
  <2> QED BY <1>1, <2>1, <2>2, <2>3, SameEdits, PlainFits, GoesOn
<1> QED BY <1>2, <1>3, <1>4, <1>5, <1>6 DEF Shared

\* The start of a reconciliation is a move.
LEMMA ResyncMoves ==
  ASSUME Inv, Orderly, Resync PROVE \E to, d : Moved("flow", to, d)
<1> DEFINE d == SyncRuntime(mem["flow"], sys.ver)
<1>1. mem["flow"] \in Sound /\ sys.ver \in VersionOrNone
  BY Reads DEF Proc
<1>2. d \in Document
  BY <1>1, InstalledVersionSound DEF Sound
<1>3. Same(d, mem["flow"])
  BY <1>1, SameEdits DEF Sound
<1>4. RecoverInterrupted("flow", d, "pending", "pending") /\ UNCHANGED app
      /\ pc["flow"] # "idle"
  BY DEF Resync, At
<1> HIDE DEF d
<1>5. "flow" \in Updater /\ Plain("pending")
  BY DEF Updater, Plain, BuildPoints
<1> QED BY <1>2, <1>3, <1>4, <1>5, RecoverMoves

-----------------------------------------------------------------------------
(* The steps of the flow alone are moves.                                  *)

\* The flow goes on with the same offer, saved or not.
LEMMA FlowGoesOn ==
  ASSUME Inv, Orderly, pc["flow"] # "idle", NEW to, NEW d, Same(d, Flow),
         FlowTo(to, d) \/ FlowSave(to, d), Placed(to, d),
         d.package # None => files'[d.package] = files[d.package],
         UNCHANGED app
  PROVE  Moved("flow", to, d)
<1>1. "flow" \in Updater /\ UNCHANGED previous
  BY DEF Updater, FlowTo, FlowSave, FlowContext
<1>2. Continue("flow", to, d) \/ Save("flow", to, d)
  BY DEF FlowTo, FlowSave
<1> QED BY <1>1, <1>2, GoesOn DEF Flow

\* The flow saves a document with an honest offer.
LEMMA FlowSaves ==
  ASSUME pc["flow"] # "idle", NEW to, NEW d, FlowSave(to, d), Placed(to, d),
         Honours(d), Patient(d), UNCHANGED app
  PROVE  Moved("flow", to, d)
BY Saves DEF Updater, FlowSave, FlowContext

\* The flow saves a document that is not pending, and goes to a plain point.
LEMMA FlowEnds ==
  ASSUME pc["flow"] # "idle", NEW to, NEW d, FlowSave(to, d), Plain(to),
         ~InstallIsPending(d), UNCHANGED app
  PROVE  Moved("flow", to, d)
BY FlowSaves, PlainFits, QuietFits

\* The moves of the check cycle up to the match.
LEMMA CheckMoves ==
  ASSUME Inv, Orderly,
         SkipPending \/ SkipFresh \/ PrepareUpstreamCheck \/ FetchMetadata
           \/ DownloadTrusted \/ DownloadUntrusted
  PROVE  \E to, d : Moved("flow", to, d)
<1>1. Flow \in Document /\ Flow = mem["flow"]
  BY Typing
<1>2. pc["flow"] # "idle" /\ UNCHANGED <<files, app>>
  BY DEF SkipPending, SkipFresh, PrepareUpstreamCheck, FetchMetadata,
         DownloadTrusted, DownloadUntrusted, At, world
<1>3. Same(Flow, Flow)
  BY DEF Same
<1>4. Plain("prune") /\ Plain("head") /\ Plain("download") /\ Plain("match")
      /\ Plain("fail")
  BY DEF Plain, BuildPoints
<1>5. CASE SkipPending \/ SkipFresh
  BY <1>2, <1>3, <1>4, <1>5, FlowGoesOn, PlainFits DEF SkipPending, SkipFresh
<1>6. CASE PrepareUpstreamCheck
  <2> DEFINE d == IF ShouldRetry(Flow) THEN Flow
                  ELSE [Flow EXCEPT !.status = "CheckingUpstream"]
  <2>1. ~InstallIsPending(d)
    BY <1>1, <1>6 DEF PrepareUpstreamCheck, InstallIsPending, Document
  <2>2. Save("flow", "head", d) /\ UNCHANGED previous
    BY <1>6 DEF PrepareUpstreamCheck
  <2> HIDE DEF d
  <2> QED BY <1>2, <1>4, <2>1, <2>2, PlainFits, QuietFits, Saves DEF Updater
<1>7. CASE FetchMetadata
  <2> DEFINE seen == [Flow EXCEPT !.headers = upstream]
  <2>1. seen \in Document
    BY <1>1, ConstantsTyped DEF Document, Inv, WorldOK, CountsOK
  <2>2. \/ FlowSave("prune", WithStatus(seen, "Idle"))
        \/ FlowSave("download", WithStatus(seen, "DownloadingDmg"))
    BY <1>7 DEF FetchMetadata
  <2> HIDE DEF seen
  <2>3. /\ ~InstallIsPending(WithStatus(seen, "Idle"))
        /\ ~InstallIsPending(WithStatus(seen, "DownloadingDmg"))
    BY <2>1, StatusEdits DEF InstallIsPending, Status
  <2> QED BY <1>2, <1>4, <2>2, <2>3, FlowEnds
<1>8. CASE DownloadTrusted
  <2>1. Same([Flow EXCEPT !.dmgVerified = upstream], Flow)
        /\ [Flow EXCEPT !.dmgVerified = upstream].package = Flow.package
    BY <1>1 DEF Same, Document
  <2> QED BY <1>2, <1>4, <1>8, <2>1, FlowGoesOn, PlainFits DEF DownloadTrusted
<1>9. CASE DownloadUntrusted
  <2>1. Same([Flow EXCEPT !.dmgVerified = None], Flow)
    BY <1>1 DEF Same, Document
  <2> QED BY <1>2, <1>4, <1>9, <2>1, FlowGoesOn, PlainFits DEF DownloadUntrusted
<1> QED BY <1>5, <1>6, <1>7, <1>8, <1>9

\* What becomes of the verified DMG.
LEMMA MatchMoves ==
  ASSUME Inv, Orderly, MatchInstalled \/ MatchBlocked \/ MatchKnown \/ DetectUpdate
  PROVE  \E to, d : Moved("flow", to, d)
<1>1. Flow \in Document
  BY Typing
<1>2. pc["flow"] = "match" /\ UNCHANGED <<files, app>>
  BY DEF MatchInstalled, MatchBlocked, MatchKnown, DetectUpdate, At, world
<1>3. Plain("prune")
  BY DEF Plain, BuildPoints
<1>4. CASE MatchInstalled
  <2>1. ~InstallIsPending(ClearCandidate(Flow, Flow.dmgVerified))
    BY <1>1, EndingEdits DEF InstallIsPending
  <2> QED BY <1>2, <1>3, <1>4, <2>1, FlowEnds DEF MatchInstalled
<1>5. CASE MatchBlocked
  <2>1. ~InstallIsPending([Flow EXCEPT !.candidate = None, !.dmg = Flow.dmgVerified,
                                       !.status = "Idle"])
    BY <1>1 DEF InstallIsPending, Document
  <2> QED BY <1>2, <1>3, <1>5, <2>1, FlowEnds DEF MatchBlocked
<1>6. CASE MatchKnown
  <2>1. ~InstallIsPending([Flow EXCEPT !.status = "Idle"])
    BY <1>1 DEF InstallIsPending, Document
  <2> QED BY <1>2, <1>3, <1>6, <2>1, FlowEnds DEF MatchKnown
<1>7. CASE DetectUpdate
  <2> DEFINE k == RecordKnownGood(files, Flow)
             d == [k EXCEPT !.status = "UpdateDetected",
                            !.candidate = ManifestVersion[Flow.dmgVerified],
                            !.dmg = Flow.dmgVerified,
                            !.authEvents = {}]
  <2>1. k \in Document
    BY Reads, RecordKnownGoodSound DEF Flow, Proc, Sound
  <2> HIDE DEF k
  <2>2. d.status = "UpdateDetected" /\ d.candidate = ManifestVersion[Flow.dmgVerified]
    BY <2>1 DEF Document
  <2>3. Flow.dmgVerified \in Trusted
    BY <1>2 DEF Inv, ChainOK, Chained, Flow
  <2>4. ManifestVersion[Flow.dmgVerified] \in Version
    BY <2>3, ManifestAssumption DEF Version
  <2>5. FlowSave("wipe", d)
    BY <1>7 DEF DetectUpdate, k
  <2> HIDE DEF d
  <2>6. ~InstallIsPending(d) /\ Placed("wipe", d)
    BY <2>2, <2>4 DEF Placed, InstallIsPending
  <2> QED BY <1>2, <2>5, <2>6, QuietFits, FlowSaves
<1> QED BY <1>4, <1>5, <1>6, <1>7
\* The local build: it works for no pending update until it offers one, whose
\* package is then in place.
LEMMA BuildMoves ==
  ASSUME Inv, Orderly, Build PROVE \E to, d : Moved("flow", to, d)
<1>1. Flow \in Document /\ Flow \in Sound /\ Same(Flow, Flow)
  BY Typing, Reads DEF Same, Proc
<1>2. Placed(pc["flow"], Flow) /\ pc["flow"] # "idle" /\ UNCHANGED app
  BY DEF Orderly, Build, WipeWorkspace, PrepareWorkspace, PatchApp, BuildPackage,
         FinishBuild, CheckBuiltVersion, At, world
<1>3. CASE WipeWorkspace
  <2>1. ~InstallIsPending(Flow) /\ Placed("prepare", Flow)
    BY <1>2, <1>3 DEF WipeWorkspace, At, Placed, BuildPoints
  <2>2. Same(Flow, disk)
    BY <1>1, <1>2, InStep DEF Proc, Flow
  <2> QED BY <1>2, <1>3, <2>1, <2>2, QuietFits
          DEF WipeWorkspace, FlowTo, FlowContext, Continue, Moved
<1>4. CASE PrepareWorkspace
  <2> DEFINE d == [Flow EXCEPT !.status = "PreparingWorkspace",
                               !.packageVerified = NoPackage,
                               !.workspace = Flow.candidate]
  <2>1. ~InstallIsPending(d) /\ d.workspace = Flow.candidate
    BY <1>1 DEF InstallIsPending, Document
  <2>2. FlowSave("patch", d) /\ Flow.candidate \in Version
    BY <1>2, <1>4 DEF PrepareWorkspace, At, Placed
  <2> HIDE DEF d
  <2>3. Placed("patch", d)
    BY <2>1, <2>2 DEF Placed
  <2> QED BY <1>2, <2>1, <2>2, <2>3, QuietFits, FlowSaves
<1>5. CASE PatchApp
  <2> DEFINE d == [Flow EXCEPT !.status = "PatchingApp"]
  <2>1. ~InstallIsPending(d) /\ d.workspace = Flow.workspace
    BY <1>1 DEF InstallIsPending, Document
  <2>2. FlowSave("package", d) /\ Flow.workspace \in Version
    BY <1>2, <1>5 DEF PatchApp, At, Placed
  <2> HIDE DEF d
  <2>3. Placed("package", d)
    BY <2>1, <2>2 DEF Placed
  <2> QED BY <1>2, <2>1, <2>2, <2>3, QuietFits, FlowSaves
<1>6. CASE BuildPackage
  <2> DEFINE d == [Flow EXCEPT !.status = "BuildingPackage",
                               !.candidate = BundleVersion[Flow.dmg]]
  <2>1. ~InstallIsPending(d) /\ d.workspace = Flow.workspace
    BY <1>1 DEF InstallIsPending, Document
  <2>2. FlowSave("finish", d) /\ Flow.workspace \in Version
    BY <1>2, <1>6 DEF BuildPackage, At, Placed
  <2> HIDE DEF d
  <2>3. Placed("finish", d)
    BY <2>1, <2>2 DEF Placed
  <2> QED BY <1>2, <2>1, <2>2, <2>3, QuietFits, FlowSaves
<1>7. CASE FinishBuild
  <2> DEFINE built == [dmg |-> Flow.dmg, ver |-> Flow.candidate,
                       build |-> builds + 1, at |-> Flow.workspace]
             d == [Flow EXCEPT !.status = "ReadyToInstall",
                               !.package = Flow.workspace,
                               !.packageVerified = built]
  <2>1. FlowSave("checkversion", d) /\ files' = [files EXCEPT ![Flow.workspace] = built]
        /\ Flow.workspace \in Version
    BY <1>2, <1>7 DEF FinishBuild, At, Placed
  <2>2. built # NoPackage /\ built.at = Flow.workspace
    BY DEF NoPackage, Inv, WorldOK, CountsOK
  <2> HIDE DEF built
  <2>3. d.status = "ReadyToInstall" /\ d.package = Flow.workspace
        /\ d.packageVerified = built
    BY <1>1 DEF Document
  <2> HIDE DEF d
  <2>4. Bound(files', d.package, d.packageVerified)
    BY <2>1, <2>2, <2>3, CountsAssumption, Typing DEF Bound, Version, None
  <2>5. Honours(d) /\ Patient(d)
    BY <2>3, <2>4 DEF Honours, Patient, Waiting
  <2>6. Placed("checkversion", d)
    BY PlainFits DEF Plain, BuildPoints
  <2> QED BY <1>2, <2>1, <2>5, <2>6, FlowSaves
<1>8. CASE CheckBuiltVersion
  <2>1. Plain("prune") /\ Plain("fail")
    BY DEF Plain, BuildPoints
  <2>2. ~InstallIsPending(MarkFailed(Flow))
    BY <1>1, EndingEdits DEF InstallIsPending
  <2>3. CASE FlowTo("prune", Flow) /\ UNCHANGED files
    BY <1>1, <1>2, <2>1, <2>3, PlainFits, FlowGoesOn
  <2>4. CASE FlowSave("fail", MarkFailed(Flow))
    BY <1>2, <2>1, <2>2, <2>4, FlowEnds
  <2> QED BY <1>8, <2>3, <2>4 DEF CheckBuiltVersion, world
<1> QED BY <1>3, <1>4, <1>5, <1>6, <1>7, <1>8 DEF Build

\* A failure, and the two ends of a check, which spare the package offered.
LEMMA EndsMove ==
  ASSUME Inv, Orderly, StepFails \/ FailCheck \/ EndCheck
  PROVE  \E to, d : Moved("flow", to, d)
<1>1. Flow \in Document /\ Same(Flow, Flow)
  BY Typing DEF Same
<1>2. pc["flow"] # "idle" /\ UNCHANGED app
  BY DEF StepFails, FailCheck, EndCheck, At, world, BuildPoints
<1>3. Plain("idle") /\ Plain("fail") /\ Plain("resync")
  BY DEF Plain, BuildPoints
<1>4. CASE StepFails
  BY <1>1, <1>2, <1>3, <1>4, PlainFits, FlowGoesOn DEF StepFails, world
<1>5. CASE FailCheck
  <2>1. ~InstallIsPending(MarkFailed(Flow))
    BY <1>1, EndingEdits DEF InstallIsPending
  <2> QED BY <1>2, <1>3, <1>5, <2>1, FlowEnds DEF FailCheck
<1>6. CASE EndCheck
  <2>1. Flow.package # None => files'[Flow.package] = files[Flow.package]
    BY <1>1, <1>6, PruneSpares DEF EndCheck
  <2>2. CASE FlowTo("idle", Flow)
    BY <1>1, <1>2, <1>3, <2>1, <2>2, PlainFits, FlowGoesOn
  <2>3. CASE Continue("flow", "resync", Flow) /\ UNCHANGED previous
    BY <1>1, <1>2, <1>3, <2>1, <2>3, PlainFits, GoesOn DEF Updater, Flow
  <2> QED BY <1>6, <2>2, <2>3 DEF EndCheck
<1> QED BY <1>4, <1>5, <1>6

\* The flow saves a document with another status and the package it offers.
LEMMA OffersAgain ==
  ASSUME Inv, Orderly, pc["flow"] # "idle", NEW to, NEW d, FlowSave(to, d),
         Placed(to, d), InstallIsPending(Flow),
         d.package = Flow.package, d.packageVerified = Flow.packageVerified,
         d.status = Waiting => Flow.status = Waiting \/ app,
         UNCHANGED <<files, app>>
  PROVE  Moved("flow", to, d)
<1>1. Same(Flow, disk)
  BY InStep DEF Proc, Flow
<1>2. Honours(d) /\ Patient(d)
  BY <1>1, AgainFits DEF Same, InstallIsPending
<1> QED BY <1>2, FlowSaves

\* The three ways in which an offer goes on.
LEMMA OfferEdits ==
  ASSUME Inv, NEW d \in {Flow, ClearAuthEvent(Flow)}
  PROVE  /\ d \in Document
         /\ d.package = Flow.package
         /\ d.packageVerified = Flow.packageVerified
         /\ d.status = Flow.status
<1>1. Flow \in Sound
  BY Reads DEF Flow, Proc
<1>2. d \in Document /\ Same(d, Flow)
  BY <1>1, ClearAuthEventSound, SameEdits DEF Sound
<1> QED BY <1>2 DEF Same

\* Handing the offer back to the user is a move.
LEMMA HandBackMoves ==
  ASSUME Inv, Orderly, pc["flow"] # "idle", InstallIsPending(Flow),
         NEW d \in {Flow, ClearAuthEvent(Flow)},
         FlowSave("idle", WithStatus(d, "ReadyToInstall")), UNCHANGED <<files, app>>
  PROVE  \E to, e : Moved("flow", to, e)
<1> DEFINE r == WithStatus(d, "ReadyToInstall")
<1>1. /\ r.status = "ReadyToInstall"
      /\ r.package = Flow.package
      /\ r.packageVerified = Flow.packageVerified
  BY OfferEdits, StatusEdits DEF Status
<1>2. Placed("idle", r)
  BY PlainFits DEF Plain, BuildPoints
<1>3. FlowSave("idle", r)
  OBVIOUS
<1> HIDE DEF r
<1> QED BY <1>1, <1>2, <1>3, OffersAgain DEF Waiting

\* So is asking for the install.
LEMMA TriggerMoves ==
  ASSUME Inv, Orderly, pc["flow"] # "idle", InstallIsPending(Flow),
         NEW d \in {Flow, ClearAuthEvent(Flow)},
         TriggerInstall(d), UNCHANGED <<files, app>>
  PROVE  \E to, e : Moved("flow", to, e)
<1> DEFINE r == WithStatus(d, "Installing")
<1>1. /\ r.status = "Installing"
      /\ r.package = Flow.package
      /\ r.packageVerified = Flow.packageVerified
  BY OfferEdits, StatusEdits DEF Status
<1>2. FlowSave("authorize", r)
  BY DEF TriggerInstall
<1> HIDE DEF r
<1>3. Placed("authorize", r)
  BY <1>1 DEF Placed, BuildPoints
<1> QED BY <1>1, <1>2, <1>3, OffersAgain DEF Waiting

\* And asking for ChatGPT, which is open, to be closed.
LEMMA AskMoves ==
  ASSUME Inv, Orderly, pc["flow"] # "idle", InstallIsPending(Flow), app,
         NEW auto \in BOOLEAN, AskToClose(auto), UNCHANGED <<files, app>>
  PROVE  \E to, e : Moved("flow", to, e)
<1> DEFINE c == ClearAuthEvent(Flow)
           r == WaitForAppExit(c, auto)
<1>1. c \in Document /\ c.package = Flow.package
      /\ c.packageVerified = Flow.packageVerified
  BY OfferEdits
<1>2. FlowSave("idle", r)
  BY DEF AskToClose
<1> HIDE DEF c
<1>3. r.package = Flow.package /\ r.packageVerified = Flow.packageVerified
  BY <1>1 DEF WaitForAppExit, Document
<1> HIDE DEF r
<1>4. Placed("idle", r)
  BY PlainFits DEF Plain, BuildPoints
<1> QED BY <1>2, <1>3, <1>4, OffersAgain

\* Every way to offer the pending package is a move.
LEMMA OfferMoves ==
  ASSUME Inv, Orderly, Offer PROVE \E to, d : Moved("flow", to, d)
<1>1. Flow \in Document /\ Same(Flow, Flow)
  BY Typing DEF Same
<1>2. pc["flow"] # "idle" /\ UNCHANGED <<files, app>>
  BY DEF Offer, NothingToOffer, PackageUnusable, ReconcileReady, ReconcileStopWaiting,
         ReconcileAppOpen, ReconcileAppClosed, KeepsWaiting, InstallReadyAppOpen,
         InstallReadyAppClosed, Offering, At, world
<1>3. Plain("idle")
  BY DEF Plain, BuildPoints
<1>4. BackToReady => FlowSave("idle", WithStatus(Flow, "ReadyToInstall"))
  BY DEF BackToReady
<1>5. CASE NothingToOffer
  BY <1>1, <1>2, <1>3, <1>5, PlainFits, FlowGoesOn DEF NothingToOffer
<1>6. CASE PackageUnusable
  <2>1. ~InstallIsPending(MarkFailed(Flow))
    BY <1>1, EndingEdits DEF InstallIsPending
  <2> QED BY <1>2, <1>3, <1>6, <2>1, FlowEnds DEF PackageUnusable
<1>7. CASE ReconcileReady
  <2>1. InstallIsPending(Flow)
    BY <1>7 DEF ReconcileReady, InstallIsPending
  <2>2. CASE BackToReady
    BY <1>2, <1>4, <2>1, <2>2, HandBackMoves
  <2>3. CASE app /\ AskToClose(TRUE)
    BY <1>2, <2>1, <2>3, AskMoves
  <2> QED BY <1>7, <2>2, <2>3 DEF ReconcileReady
<1>8. CASE ReconcileStopWaiting
  <2>1. InstallIsPending(Flow) /\ BackToReady
    BY <1>8 DEF ReconcileStopWaiting, InstallIsPending
  <2> QED BY <1>2, <1>4, <2>1, HandBackMoves
<1>9. CASE ReconcileAppOpen
  <2>1. InstallIsPending(Flow)
    BY <1>9 DEF ReconcileAppOpen, KeepsWaiting, InstallIsPending
  <2>2. CASE BackToReady
    BY <1>2, <1>4, <2>1, <2>2, HandBackMoves
  <2>3. CASE Persist("flow", "idle", ClearAuthEvent(Flow)) /\ FlowContext("idle")
    <3>1. Same(ClearAuthEvent(Flow), Flow)
      BY <1>1, SameEdits
    <3>2. UNCHANGED previous
      BY <2>3 DEF FlowContext
    <3> QED BY <1>2, <1>3, <2>3, <3>1, <3>2, PlainFits, GoesOn DEF Updater, Flow
  <2> QED BY <1>9, <2>2, <2>3 DEF ReconcileAppOpen
<1>10. CASE ReconcileAppClosed
  <2>1. InstallIsPending(Flow)
    BY <1>10 DEF ReconcileAppClosed, KeepsWaiting, InstallIsPending
  <2>2. CASE FlowTo("idle", Flow)
    BY <1>1, <1>2, <1>3, <2>2, PlainFits, FlowGoesOn
  <2>3. CASE BackToReady
    BY <1>2, <1>4, <2>1, <2>3, HandBackMoves
  <2>4. CASE TriggerInstall(Flow)
    BY <1>2, <2>1, <2>4, TriggerMoves
  <2> QED BY <1>10, <2>2, <2>3, <2>4 DEF ReconcileAppClosed
<1>11. CASE InstallReadyAppOpen
  <2>1. InstallIsPending(Flow) /\ app
    BY <1>11 DEF InstallReadyAppOpen, Offered, InstallIsPending
  <2>2. CASE BackToReady
    BY <1>2, <1>4, <2>1, <2>2, HandBackMoves
  <2>3. CASE AskToClose(FALSE)
    BY <1>2, <2>1, <2>3, AskMoves
  <2> QED BY <1>11, <2>2, <2>3 DEF InstallReadyAppOpen
<1>12. CASE InstallReadyAppClosed
  <2>1. InstallIsPending(Flow)
    BY <1>12 DEF InstallReadyAppClosed, Offered, InstallIsPending
  <2>2. CASE FlowSave("idle", WithStatus(ClearAuthEvent(Flow), "ReadyToInstall"))
    BY <1>2, <2>1, <2>2, HandBackMoves
  <2>3. CASE TriggerInstall(ClearAuthEvent(Flow))
    BY <1>2, <2>1, <2>3, TriggerMoves
  <2> QED BY <1>12, <2>2, <2>3 DEF InstallReadyAppClosed
<1> QED BY <1>5, <1>6, <1>7, <1>8, <1>9, <1>10, <1>11, <1>12 DEF Offer
\* The flow reads the exit status of the install it asked for.
LEMMA ObserveMoves ==
  ASSUME Inv, Orderly, Observe PROVE \E to, d : Moved("flow", to, d)
<1>1. Flow \in Document
  BY Typing
<1>2. pc["flow"] # "idle" /\ UNCHANGED app
  BY DEF Observe, ObserveInstalled, ObserveDenied, ObserveFailed, At, world
<1>3. Plain("idle")
  BY DEF Plain, BuildPoints
<1>4. CASE ObserveInstalled
  <2>1. ~InstallIsPending(AfterInstall(Flow, sys.ver))
    BY <1>1, EndingEdits DEF InstallIsPending
  <2> QED BY <1>2, <1>3, <1>4, <2>1, FlowEnds DEF ObserveInstalled
<1>5. CASE ObserveDenied
  <2> DEFINE r == WithStatus(Flow, "ReadyToInstall")
             d == DeferInstall(Flow)
  <2>1. Flow.status = "Installing"
    BY <1>5 DEF ObserveDenied, At, Orderly, Placed
  <2>2. r \in Document /\ r.status = "ReadyToInstall" /\ r.package = Flow.package
        /\ r.packageVerified = Flow.packageVerified
    BY <1>1, StatusEdits DEF Status
  <2>3. d = [r EXCEPT !.authEvents = @ \cup ({Flow.candidate} \ {None})]
    BY DEF DeferInstall
  <2> HIDE DEF r, d
  <2>4. Same(d, r)
    BY <2>2, <2>3 DEF Same, Document
  <2>5. FlowSave("idle", d) /\ UNCHANGED files
    BY <1>5 DEF ObserveDenied, d, world
  <2> QED BY <1>2, <1>3, <2>1, <2>2, <2>4, <2>5, PlainFits, OffersAgain
          DEF Same, InstallIsPending, Waiting
<1>6. CASE ObserveFailed
  <2>1. ~InstallIsPending(MarkFailed(Flow))
    BY <1>1, EndingEdits DEF InstallIsPending
  <2> QED BY <1>2, <1>3, <1>6, <2>1, FlowEnds DEF ObserveFailed
<1> QED BY <1>4, <1>5, <1>6 DEF Observe

\* Every step of the flow is a move.
LEMMA FlowMoves ==
  ASSUME Inv, Orderly, FlowStep PROVE \E to, d : Moved("flow", to, d)
BY SharedMoves, ResyncMoves, CheckMoves, MatchMoves, EndsMove, BuildMoves,
   OfferMoves, ObserveMoves DEF FlowStep, Check, Updater

-----------------------------------------------------------------------------
(* The rollback command, the privileged install and crashes.               *)

\* The decisions of the rollback command are moves.
LEMMA DecideMoves ==
  ASSUME Inv, Orderly,
         RollbackRefused \/ RollbackPackageGone \/ RollbackUnverified
           \/ TriggerRollback
  PROVE  \E to, d : Moved("rollback", to, d)
<1>1. RollbackDoc \in Document /\ RollbackDoc = mem["rollback"]
  BY Typing DEF RollbackDoc, Proc
<1>2. pc["rollback"] # "idle" /\ UNCHANGED app
  BY DEF RollbackRefused, RollbackPackageGone, RollbackUnverified, TriggerRollback,
         At, world
<1>3. Same(RollbackDoc, disk)
  BY <1>1, <1>2, InStep DEF Proc
<1>4. CASE RollbackRefused \/ RollbackUnverified
  <2>1. Patient(RollbackDoc)
    BY <1>3 DEF Patient, Same
  <2> QED BY <1>2, <1>3, <1>4, <2>1
          DEF RollbackRefused, RollbackUnverified, RollbackTo, RollbackSave, Continue,
              Save, Context, Moved
<1>5. CASE RollbackPackageGone
  <2> DEFINE d == [RollbackDoc EXCEPT !.knownGood = None, !.rollback = None,
                                      !.rollbackVerified = NoPackage]
  <2>1. d.status = RollbackDoc.status
    BY <1>1 DEF Document
  <2>2. RollbackSave("idle", d)
    BY <1>5 DEF RollbackPackageGone
  <2> HIDE DEF d
  <2>3. Patient(d)
    BY <1>3, <2>1 DEF Patient, Same
  <2> QED BY <1>2, <2>2, <2>3 DEF RollbackSave, Save, Context, Moved
<1>6. CASE TriggerRollback
  <2> DEFINE d == [RollbackDoc EXCEPT !.status = "Installing"]
  <2>1. d.status = "Installing"
    BY <1>1 DEF Document
  <2>2. Save("rollback", "authorize", d) /\ previous' = disk.status
    BY <1>3, <1>6 DEF TriggerRollback, Same
  <2> HIDE DEF d
  <2>3. Patient(d)
    BY <2>1 DEF Patient, Waiting
  <2> QED BY <1>2, <2>2, <2>3 DEF Save, Moved
<1> QED BY <1>4, <1>5, <1>6

\* So is what it makes of the exit status.
LEMMA RollbackEndMoves ==
  ASSUME Inv, Orderly,
         ObserveRolledBack \/ ObserveRollbackDenied \/ ObserveRollbackFailed
  PROVE  \E to, d : Moved("rollback", to, d)
<1>1. RollbackDoc \in Document
  BY Typing DEF RollbackDoc, Proc
<1>2. pc["rollback"] # "idle" /\ UNCHANGED app
  BY DEF ObserveRolledBack, ObserveRollbackDenied, ObserveRollbackFailed, At, world
<1>3. ASSUME NEW d, RollbackSave("idle", d), Patient(d)
      PROVE  Moved("rollback", "idle", d)
  BY <1>2, <1>3 DEF RollbackSave, Save, Context, Moved
<1>4. CASE ObserveRolledBack
  <2>1. ~InstallIsPending(AfterRollback(RollbackDoc, sys.ver))
    BY <1>1, EndingEdits DEF InstallIsPending
  <2> QED BY <1>3, <1>4, <2>1, QuietFits DEF ObserveRolledBack
<1>5. CASE ObserveRollbackDenied
  <2>1. [RollbackDoc EXCEPT !.status = previous].status = previous
    BY <1>1 DEF Document
  <2>2. Patient([RollbackDoc EXCEPT !.status = previous])
    BY <2>1 DEF Patient
  <2> QED BY <1>3, <1>5, <2>2 DEF ObserveRollbackDenied
<1>6. CASE ObserveRollbackFailed
  <2>1. ~InstallIsPending(MarkFailed(RollbackDoc))
    BY <1>1, EndingEdits DEF InstallIsPending
  <2> QED BY <1>3, <1>6, <2>1, QuietFits DEF ObserveRollbackFailed
<1> QED BY <1>4, <1>5, <1>6

\* A process that stops where it is, with the document it has, moves.
LEMMA Stays ==
  ASSUME Inv, Orderly, NEW p \in Proc, pc[p] # "idle", NEW to,
         Continue(p, to, mem[p]), Context(p, to),
         p = "flow" => Placed(to, mem[p]),
         UNCHANGED <<files, app>>
  PROVE  Moved(p, to, mem[p])
<1>1. Same(mem[p], disk)
  BY InStep
<1>2. Honours(mem[p]) /\ Patient(mem[p])
  BY <1>1, SameFits
<1>3. p # "rollback" => UNCHANGED previous
  BY ContextSpares DEF Updater, Proc
<1>4. p = "rollback" => /\ previous' \in {previous, "Idle", disk.status}
                        /\ to = "idle" => previous' = "Idle"
  BY DEF Context
<1> QED BY <1>1, <1>2, <1>3, <1>4 DEF Continue, Moved

\* The end of a privileged install is a move of the process that asked for it.
LEMMA PrivilegedMoves ==
  ASSUME Inv, Orderly, NEW p \in Installer, Privileged(p)
  PROVE  \E to, d : Moved(p, to, d)
<1>1. PICK to \in {"installed", "refused", "denied", "idle"} : Answer(p, to)
  BY DEF Privileged, PrivilegedInstall, PrivilegedFailure, AuthenticationDenied,
         LaunchFails
<1>2. UNCHANGED <<files, app>>
  BY DEF Privileged, PrivilegedInstall, PrivilegedFailure, AuthenticationDenied,
         LaunchFails, world
<1>3. p \in Proc /\ pc[p] = "authorize"
  BY <1>1 DEF Answer, At, Installer, Proc
<1>4. p = "flow" => Placed(to, mem[p])
  BY <1>3 DEF Orderly, Placed, BuildPoints, Flow
<1> QED BY <1>1, <1>2, <1>3, <1>4, Stays DEF Answer

\* So is a crash.
LEMMA CrashMoves ==
  ASSUME Inv, Orderly, NEW p \in Proc, Crash(p)
  PROVE  \E to, d : Moved(p, to, d)
<1>1. Placed("idle", mem[p])
  BY PlainFits DEF Plain, BuildPoints
<1> QED BY <1>1, Stays DEF Crash, At

-----------------------------------------------------------------------------
(* Every step is a move, a start, or none of these.                        *)

\* A process is started alone where no two overlap.
LEMMA StartsAlone ==
  ASSUME Inv, OneAtATime', NEW p \in Proc, Continue(p, "sync", disk)
  PROVE  AllIdleBut(p)
<1>1. pc \in [Proc -> FlowPoints \cup StatusPoints \cup RollbackPoints]
  BY DEF Inv, PointsOK
<1>2. pc'[p] = "sync" /\ \A q \in Proc \ {p} : pc'[q] = pc[q]
  BY <1>1 DEF Continue, Goto
<1> QED BY <1>2 DEF OneAtATime, AllIdleBut

\* What the steps of Next do, while no two processes overlap.
LEMMA NextMoves ==
  ASSUME Inv, Orderly, OneAtATime', Next
  PROVE  \/ \E p \in Proc : \E to, d : Moved(p, to, d)
         \/ \E p \in Proc : Started(p)
         \/ UNCHANGED <<docs, files>>
<1>1. ASSUME NEW k \in Kinds, StartFlow(k) PROVE Started("flow")
  <2>1. "flow" \in Proc
    BY DEF Proc
  <2>2. AllIdleBut("flow")
    BY <1>1, <2>1, StartsAlone DEF StartFlow
  <2> QED BY <1>1, <2>2 DEF StartFlow, Started, Continue, world
<1>2. ASSUME NEW p \in Commands \cap Proc, StartCommand(p) PROVE Started(p)
  <2>1. AllIdleBut(p)
    BY <1>2, StartsAlone DEF StartCommand
  <2> QED BY <1>2, <2>1 DEF StartCommand, Started, Continue
<1>3. ASSUME RollbackStep PROVE \E to, d : Moved("rollback", to, d)
  BY <1>3, SyncEntryMoves, DecideMoves, RollbackEndMoves DEF RollbackStep, Proc
<1>4. ASSUME StatusStep PROVE \E to, d : Moved("status", to, d)
  BY <1>4, SharedMoves DEF StatusStep, Updater
<1>5. ASSUME Environment PROVE UNCHANGED <<docs, files>>
  BY <1>5 DEF Environment, Publish, OpenApp, CloseApp, InstallByHand, OrphanEnds
<1>6. Installer \subseteq Proc /\ {"flow", "status", "rollback"} \subseteq Proc
  BY DEF Installer, Proc
<1>7. CASE FlowStep \/ StatusStep \/ RollbackStep
  BY <1>3, <1>4, <1>6, <1>7, FlowMoves
<1>8. CASE (\E p \in Installer : Privileged(p)) \/ (\E p \in Proc : Crash(p))
  BY <1>6, <1>8, PrivilegedMoves, CrashMoves
<1>9. CASE \/ \E k \in Kinds : StartFlow(k)
           \/ \E p \in Commands \cap Proc : StartCommand(p)
  BY <1>1, <1>2, <1>6, <1>9
<1> QED BY <1>5, <1>7, <1>8, <1>9 DEF Next

\* The invariants hold in the first state.
LEMMA HInitHolds == HInit => Orderly /\ Backing /\ Calm
<1> SUFFICES ASSUME HInit PROVE Orderly /\ Backing /\ Calm
  OBVIOUS
<1>1. Init /\ dismissed = FALSE
  BY DEF HInit
<1>2. \A p \in Proc : pc[p] = "idle"
  BY <1>1 DEF Init
<1>3. Orderly
  BY <1>1, <1>2 DEF Init, Orderly, OneAtATime, Synced, Placed, BuildPoints, Rested, Proc
<1>4. Backing
  BY <1>1, <1>2 DEF Init, Backing, Backed, InstallIsPending, NewDocument, Proc
<1>5. Calm
  BY <1>1 DEF Calm
<1> QED BY <1>3, <1>4, <1>5

\* A mishap that has not happened is not happening either.
LEMMA Recorded ==
  ASSUME RecordMishaps, NEW e \in Mishap, e \notin mishaps'
  PROVE  e \notin mishaps /\ ~Occurs(e)
BY DEF RecordMishaps

\* In particular no two processes overlap.
LEMMA NoOverlap ==
  ASSUME HNext, "overlap" \notin mishaps'
  PROVE  OneAtATime' /\ "overlap" \notin mishaps
<1>1. "overlap" \in Mishap
  BY DEF Mishap
<1>2. "overlap" \notin mishaps /\ ~Occurs("overlap")
  BY <1>1, Recorded DEF HNext
<1> QED BY <1>2 DEF Occurs, OneAtATime

\* Where nothing but a rollback has happened, children die with their parents,
\* no rollback is cut short, nobody installs by hand, and the DMG served is no
\* older one.
LEMMA NoMishap ==
  ASSUME Inv, HNext, mishaps' \subseteq {"rollback"}
  PROVE  /\ mishaps \subseteq {"rollback"} /\ "overlap" \notin mishaps'
         /\ orphans' = {} /\ ~InstallByHand /\ upstream' >= upstream
         /\ \A p \in Proc : Crash(p) => pc["rollback"] = "idle"
<1>1. \A e \in {"overlap", "cut", "hand", "detached", "older"} :
        e \in Mishap /\ e \notin mishaps'
  BY DEF Mishap
<1>2. mishaps \subseteq {"rollback"}
  BY DEF HNext, RecordMishaps
<1>3. \A e \in {"overlap", "cut", "hand", "detached", "older"} : ~Occurs(e)
  BY <1>1, Recorded DEF HNext
<1>4. commands \in Nat /\ crashes \in Nat /\ upstream \in Nat
  BY CountsAssumption, EnvironmentAssumption DEF Inv, WorldOK, CountsOK, Dmg
<1>5. orphans' = {}
  BY <1>3 DEF Occurs
<1>6. ~InstallByHand
  <2>1. ~Occurs("hand")
    BY <1>3
  <2> QED BY <1>4, <2>1 DEF Occurs, InstallByHand, docs
<1>7. ASSUME NEW p \in Proc, Crash(p) PROVE pc["rollback"] = "idle"
  <2>1. ~Occurs("cut")
    BY <1>3
  <2>2. crashes' # crashes
    BY <1>4, <1>7 DEF Crash
  <2> QED BY <2>1, <2>2 DEF Occurs
<1>8. upstream' >= upstream
  <2>1. ~Occurs("older")
    BY <1>3
  <2>2. upstream' \in Nat
    BY CountsAssumption, NextKeeps DEF HNext, Inv, WorldOK, CountsOK, Dmg
  <2> QED BY <1>4, <2>1, <2>2 DEF Occurs
<1> QED BY <1>1, <1>2, <1>5, <1>6, <1>7, <1>8

\* They are inductive, as long as no two processes overlap.
LEMMA HNextKeeps ==
  ASSUME Inv, Orderly, [HNext]_hvars, "overlap" \notin mishaps'
  PROVE  /\ Orderly'
         /\ Calm => Calm'
         /\ pc'["rollback"] = "idle" /\ Backing => Backing'
<1>1. CASE UNCHANGED hvars
  <2>1. UNCHANGED <<disk, mem, pc, previous, files, app, dismissed>>
    BY <1>1 DEF hvars, vars, docs, world, history
  <2>2. Orderly'
    BY <2>1 DEF Orderly, OneAtATime, Synced, Same, Placed, Rested, Flow
  <2>3. Calm => Calm'
    BY <2>1 DEF Calm
  <2>4. Backing => Backing'
    BY <2>1 DEF Backing, Backed
  <2> QED BY <2>2, <2>3, <2>4
<1>2. CASE HNext
  <2>1. Next /\ RecordDismissed /\ OneAtATime'
    BY <1>2, NoOverlap DEF HNext
  <2>2. CASE \E p \in Proc : \E to, d : Moved(p, to, d)
    BY <2>1, <2>2, MovedOrderly, MovedCalm, MovedBacking
  <2>3. CASE \E p \in Proc : Started(p)
    <3>1. PICK p \in Proc : Started(p)
      BY <2>3
    <3>2. Orderly'
      BY <3>1, StartedOrderly
    <3>3. Calm => Calm'
      BY <2>1, <3>1, StartedKeeps
    <3>4. pc'["rollback"] = "idle" => p # "rollback"
      BY <3>1 DEF Started, Goto, Inv, PointsOK
    <3>5. pc'["rollback"] = "idle" /\ Backing => Backing'
      BY <3>1, <3>4, StartedKeeps
    <3> QED BY <3>2, <3>3, <3>5
  <2>4. CASE UNCHANGED <<docs, files>>
    BY <2>1, <2>4, StillKeeps
  <2> QED BY <2>1, <2>2, <2>3, <2>4, NextMoves
<1> QED BY <1>1, <1>2

\* A behaviour with history is a behaviour of the update flows.
LEMMA HistorySpec == HSpec => []Inv
<1>1. HInit => Init
  BY DEF HInit
<1>2. [HNext]_hvars => [Next]_vars
  BY DEF HNext, hvars
<1>3. HSpec => Spec
  BY <1>1, <1>2, PTL DEF HSpec, Spec
<1> QED BY <1>3, Invariance, PTL

-----------------------------------------------------------------------------
(* In every behaviour, until two processes overlap or a rollback begins,   *)
(* an update that is pending keeps the package it offers, with the         *)
(* recorded digest.                                                        *)
THEOREM PendingKeepsPackage == HSpec => []PendingPackageKept
<1> DEFINE Untouched == mishaps \cap {"overlap", "rollback"} = {}
<1>1. (Untouched => Orderly /\ Backing) => PendingPackageKept
  BY DEF Backing, Backed, PendingPackageKept
<1>2. ASSUME Inv, Untouched => Orderly /\ Backing, [HNext]_hvars, Untouched'
      PROVE  (Orderly /\ Backing)'
  <2>1. CASE UNCHANGED hvars
    <3>1. Untouched
      BY <1>2, <2>1 DEF hvars, history
    <3>2. pc'["rollback"] = "idle"
      BY <1>2, <2>1, <3>1 DEF hvars, vars, docs, Backing
    <3> QED BY <1>2, <3>1, <3>2, HNextKeeps
  <2>2. CASE HNext
    <3>1. "overlap" \notin mishaps' /\ "rollback" \notin mishaps' /\ RecordMishaps
      BY <1>2, <2>2 DEF HNext
    <3>2. "rollback" \in Mishap /\ "overlap" \in Mishap
      BY DEF Mishap
    <3>3. Untouched /\ ~Occurs("rollback")
      BY <3>1, <3>2, Recorded
    <3>4. pc'["rollback"] = "idle"
      BY <3>3 DEF Occurs
    <3> QED BY <1>2, <3>1, <3>3, <3>4, HNextKeeps
  <2> QED BY <1>2, <2>1, <2>2
<1>3. HInit => (Untouched => Orderly /\ Backing)
  BY HInitHolds
<1>4. Inv /\ (Untouched => Orderly /\ Backing) /\ [HNext]_hvars
        => (Untouched => Orderly /\ Backing)'
  BY <1>2
<1> QED BY <1>1, <1>3, <1>4, HistorySpec, PTL DEF HSpec

\* A step that takes the flow from its offer to the dialog is a step of the
\* flow that asks for the install.
LEMMA OnlyAsks ==
  ASSUME Inv, Next, Moves("flow", "offer", "authorize")
  PROVE  ReconcileAppClosed \/ InstallReadyAppClosed
<1>1. pc["flow"] = "offer" /\ pc'["flow"] = "authorize"
  BY DEF Moves
<1>2. pc \in [Proc -> FlowPoints \cup StatusPoints \cup RollbackPoints]
  BY DEF Inv, PointsOK
<1>3. ASSUME NEW p \in Proc, NEW to, NEW d, Goto(p, to, d)
      PROVE  p = "flow" /\ to = "authorize"
  BY <1>1, <1>2, <1>3 DEF Goto, Proc
<1>4. ASSUME NEW to, NEW d, FlowTo(to, d) \/ FlowSave(to, d) PROVE to = "authorize"
  BY <1>3, <1>4 DEF FlowTo, FlowSave, Continue, Save, Proc
<1>5. ~(\E k \in Kinds : StartFlow(k)) /\ ~(\E p \in Commands \cap Proc : StartCommand(p))
  <2>1. ASSUME NEW k \in Kinds, StartFlow(k) PROVE FALSE
    BY <1>1, <2>1 DEF StartFlow, At
  <2>2. ASSUME NEW p \in Commands \cap Proc, StartCommand(p) PROVE FALSE
    BY <1>3, <2>2 DEF StartCommand, Continue
  <2> QED BY <2>1, <2>2
<1>6. ~Environment
  BY <1>1 DEF Environment, Publish, OpenApp, CloseApp, InstallByHand, OrphanEnds, docs
<1>7. ASSUME NEW p \in Proc, Shared(p) PROVE FALSE
  <2>1. ASSUME NEW to, NEW d, Continue(p, to, d) \/ Save(p, to, d) \/ Persist(p, to, d)
        PROVE  p = "flow"
    BY <1>3, <2>1 DEF Continue, Save, Persist
  <2>2. p = "flow"
    BY <1>7, <2>1
    DEF Shared, SyncEntry, Recover, RecoverInterrupted, SettleAndPrune,
        CompleteCurrent, CompletePending, Normalize
  <2> QED BY <1>1, <1>7, <2>2
          DEF Shared, SyncEntry, Recover, CompleteCurrent, CompletePending, Normalize, At
<1>8. ~RollbackStep
  <2>1. ASSUME NEW to, NEW d, RollbackTo(to, d) \/ RollbackSave(to, d) PROVE FALSE
    BY <1>3, <2>1 DEF RollbackTo, RollbackSave, Continue, Save, Proc
  <2>2. ~TriggerRollback
    BY <1>3 DEF TriggerRollback, Save, Proc
  <2>3. ~SyncEntry("rollback")
    BY <1>7 DEF Shared, Proc
  <2> QED BY <2>1, <2>2, <2>3
          DEF RollbackStep, RollbackRefused, RollbackPackageGone, RollbackUnverified,
              ObserveRolledBack, ObserveRollbackDenied, ObserveRollbackFailed
<1>9. ASSUME NEW p \in Installer, Privileged(p) PROVE FALSE
  <2>1. At(p, "authorize") /\ \E to : Continue(p, to, mem[p])
    BY <1>9 DEF Privileged, PrivilegedInstall, PrivilegedFailure,
                AuthenticationDenied, LaunchFails, Answer
  <2>2. p = "flow"
    BY <1>3, <2>1 DEF Continue, Installer, Proc
  <2> QED BY <1>1, <2>1, <2>2 DEF At
<1>10. ASSUME NEW p \in Proc, Crash(p) PROVE FALSE
  BY <1>3, <1>10 DEF Crash, Continue
<1>11. ~Resync /\ ~Check /\ ~Build /\ ~Observe
  BY <1>1 DEF Resync, Check, SkipPending, SkipFresh, PrepareUpstreamCheck,
       FetchMetadata, DownloadTrusted, DownloadUntrusted, MatchInstalled,
       MatchBlocked, MatchKnown, DetectUpdate, StepFails, FailCheck, EndCheck,
       Build, WipeWorkspace, PrepareWorkspace, PatchApp, BuildPackage,
       FinishBuild, CheckBuiltVersion, Observe, ObserveInstalled, ObserveDenied,
       ObserveFailed, At, BuildPoints
<1>12. Offer
  BY <1>5, <1>6, <1>7, <1>8, <1>9, <1>10, <1>11 DEF Next, FlowStep, StatusStep, Proc
<1>13. ~BackToReady /\ (\A auto : ~AskToClose(auto))
  BY <1>4 DEF BackToReady, AskToClose
<1>14. ~NothingToOffer /\ ~PackageUnusable /\ ~ReconcileReady /\ ~ReconcileStopWaiting
       /\ ~InstallReadyAppOpen
  BY <1>4, <1>13 DEF NothingToOffer, PackageUnusable, ReconcileReady,
                     ReconcileStopWaiting, InstallReadyAppOpen
<1>15. ~ReconcileAppOpen
  <2>1. ~Persist("flow", "idle", ClearAuthEvent(Flow))
    BY <1>3 DEF Persist, Proc
  <2> QED BY <1>13, <2>1 DEF ReconcileAppOpen
<1> QED BY <1>12, <1>14, <1>15 DEF Offer

(* In every behaviour, until two processes overlap, whatever the user      *)
(* runs, installs by hand or rolls back: after a dismissed dialog the      *)
(* updater asks again on its own account only once ChatGPT has been opened *)
(* in between.                                                             *)
THEOREM DismissedIsNotRepeated == HSpec => NoReprompt
<1> DEFINE Alone == "overlap" \notin mishaps
<1>1. Inv /\ (Alone => Orderly /\ Calm) /\ [HNext]_hvars
        => (Alone => Orderly /\ Calm)'
  <2>1. ASSUME Inv, Alone => Orderly /\ Calm, [HNext]_hvars, Alone'
        PROVE  (Orderly /\ Calm)'
    <3>1. Alone
      <4>1. CASE HNext
        BY <2>1, <4>1, NoOverlap
      <4>2. CASE UNCHANGED hvars
        BY <2>1, <4>2 DEF hvars, history
      <4> QED BY <2>1, <4>1, <4>2
    <3> QED BY <2>1, <3>1, HNextKeeps
  <2> QED BY <2>1
<1>2. Inv /\ (Alone => Orderly /\ Calm) /\ [HNext]_hvars
        => [(/\ "overlap" \notin mishaps
             /\ Moves("flow", "offer", "authorize")
             /\ kind = "reconcile")
              => ~dismissed]_hvars
  <2> SUFFICES ASSUME Inv, Orderly, Calm, HNext,
                      Moves("flow", "offer", "authorize"), kind = "reconcile"
               PROVE  ~dismissed
    OBVIOUS
  <2>1. ReconcileAppClosed
    BY OnlyAsks DEF HNext, InstallReadyAppClosed, Offering
  <2>2. Flow.status = Waiting
    BY <2>1 DEF ReconcileAppClosed, KeepsWaiting, Waiting
  <2>3. disk.status = Waiting
    BY <2>2, InStep DEF Moves, Proc, Flow, Same
  <2> QED BY <2>3 DEF Calm
<1>3. HInit => (Alone => Orderly /\ Calm)
  BY HInitHolds
<1> QED BY <1>1, <1>2, <1>3, HistorySpec, PTL DEF HSpec, NoReprompt

-----------------------------------------------------------------------------
(* What no check is allowed to lose.  Worlds are named here, so that a     *)
(* document can be judged in the state a step leads to: u is the DMG       *)
(* served, s the installed package, c the DMGs that were concluded.        *)

\* When the document's headers or its DMG are those of the DMG now served, that
\* DMG is dealt with.
Dealt(d, u, c) == (d.headers = u \/ d.dmg = u) /\ u \in Trusted => u \in c

(***************************************************************************)
(* Everything the document knows was served before or is served now; it    *)
(* asks for no retry only when it has dealt with what is served; it has a  *)
(* candidate only while it works for it, and until it is installed that is *)
(* another DMG than the installed one.                                     *)
(***************************************************************************)
Aware(d, u, s, c) ==
  /\ d.headers <= u /\ d.dmg <= u
  /\ ~ShouldRetry(d) => Dealt(d, u, c)
  /\ ~ShouldRetry(d) /\ ~InstallIsPending(d) => d.candidate = None
  /\ d.candidate # None /\ d.status # "Installing" => s.dmg # d.dmg
  /\ d.status = "Installing" /\ s.dmg = d.dmg =>
       d.candidate # None /\ s.ver = d.candidate

Checking == {"head", "download", "match"}

\* What the flow has established at the point "to", r being its retry.
Established(to, d, u, s, c, r) ==
  /\ to \in Checking \cup BuildPoints \cup {"checkversion", "fail"} => d.status # "Installing"
  /\ to \in Checking /\ ~r =>
       d.candidate = None /\ (d.dmg = u /\ u \in Trusted => u \in c)
  /\ to = "head" /\ ~r => Dealt(d, u, c)
  /\ to = "match" => d.dmgVerified <= u /\ (d.headers = u => d.dmgVerified = u)
  /\ to \in BuildPoints => s.dmg # d.dmg /\ (d.headers = u => d.dmg = u)
  /\ to \in {"authorize", "denied", "refused"} =>
       d.status = "Installing" /\ s.dmg # d.dmg
  /\ to = "authorize" => /\ d.candidate # None
                         /\ d.packageVerified.ver = d.candidate
                         /\ d.packageVerified.dmg = d.dmg
  /\ to = "installed" => d.status = "Installing"

\* Where an install is judged, the installed version was just read.
Fresh(to, d, s) == to \in {"current", "pending", "recover"} => d.installed = s.ver

Followed ==
  /\ pc["rollback"] = "idle" /\ orphans = {}
  /\ Aware(disk, upstream, sys, concluded)
  /\ \A p \in Updater : pc[p] # "idle" =>
       Aware(mem[p], upstream, sys, concluded) /\ Fresh(pc[p], mem[p], sys)
  /\ Established(pc["flow"], Flow, upstream, sys, concluded, retry)
  /\ pc["flow"] = "authorize" => disk = Flow
\* The documents that say the same about the DMG, the candidate and the headers.
Twin(d, e) ==
  /\ d.status = e.status
  /\ d.headers = e.headers
  /\ d.dmg = e.dmg
  /\ d.candidate = e.candidate

\* Points where nothing has to be established.
Loose(to) ==
  to \notin Checking \cup BuildPoints
              \cup {"checkversion", "fail", "authorize", "denied", "refused", "installed"}

\* A process at work goes to a point with a document d that is aware of what
\* is served, and has at that point what it needs.
Tracked(p, to, d) ==
  /\ p \in Updater /\ pc[p] # "idle"
  /\ Goto(p, to, d) /\ disk' \in {disk, d}
  /\ Aware(d, upstream, sys, concluded')
  /\ Fresh(to, d, sys)
  /\ p = "flow" => /\ Established(to, d, upstream, sys, concluded', retry')
                   /\ to = "authorize" => disk' = d
  /\ UNCHANGED <<upstream, sys, orphans>>

-----------------------------------------------------------------------------
(* Which edits keep a document aware.                                      *)

\* What is concluded stays so.
LEMMA Learns == ASSUME RecordConcluded PROVE concluded \subseteq concluded'
BY DEF RecordConcluded

\* A document of the same content is as aware, and later it is no less so.
LEMMA TwinAware ==
  ASSUME NEW d, NEW e, NEW u, NEW s, NEW c, NEW c2, c \subseteq c2,
         Twin(d, e), Aware(e, u, s, c)
  PROVE  Aware(d, u, s, c2)
BY DEF Twin, Aware, Dealt, ShouldRetry, InstallIsPending

\* A document at rest that has dealt with what is served is aware.
LEMMA RestAware ==
  ASSUME NEW d, NEW u, NEW s, NEW c,
         d.status \in {"Idle", "CheckingUpstream", "Installed"}, d.candidate = None,
         d.headers <= u, d.dmg <= u, Dealt(d, u, c)
  PROVE  Aware(d, u, s, c)
BY DEF Aware

\* So is one that has to be retried, for a DMG that is not installed.
LEMMA RetryAware ==
  ASSUME NEW d, NEW u, NEW s, NEW c, ShouldRetry(d),
         d.headers <= u, d.dmg <= u, d.candidate # None => s.dmg # d.dmg
  PROVE  Aware(d, u, s, c)
BY DEF Aware, ShouldRetry

\* And one that offers such a DMG.
LEMMA OfferAware ==
  ASSUME NEW d, NEW u, NEW s, NEW c,
         d.status \in {"ReadyToInstall", "WaitingForAppExit", "Installing"},
         d.headers <= u, d.dmg <= u, Dealt(d, u, c), d.candidate # None => s.dmg # d.dmg,
         d.status = "Installing" => d.candidate # None
  PROVE  Aware(d, u, s, c)
BY DEF Aware, ShouldRetry, InstallIsPending

\* Nothing has to be established at a loose point.
LEMMA LooseFits ==
  ASSUME NEW to, Loose(to), NEW d, NEW u, NEW s, NEW c, NEW r
  PROVE  Established(to, d, u, s, c, r) /\ to # "authorize"
BY DEF Loose, Established, Checking

\* The edits that touch neither DMG, candidate nor status.
LEMMA TwinEdits ==
  ASSUME NEW d \in Document, NEW v
  PROVE  /\ Twin(d, d)
         /\ Twin(SyncRuntime(d, v), d) /\ SyncRuntime(d, v).installed = v
         /\ Twin([d EXCEPT !.installed = v], d)
         /\ [d EXCEPT !.installed = v].installed = v
         /\ Twin(NormalizeWorkspace(d), d) /\ NormalizeWorkspace(d).installed = d.installed
         /\ Twin(ClearAuthEvent(d), d)
BY DEF Twin, SyncRuntime, NormalizeWorkspace, ClearAuthEvent, Document

\* Setting the status touches neither DMG nor candidate.
LEMMA StatusTracks ==
  ASSUME NEW d \in Document, NEW s \in Status
  PROVE  /\ WithStatus(d, s).status = s
         /\ WithStatus(d, s).headers = d.headers
         /\ WithStatus(d, s).dmg = d.dmg
         /\ WithStatus(d, s).candidate = d.candidate
         /\ WithStatus(d, s).installed = d.installed
         /\ WithStatus(d, s).packageVerified = d.packageVerified
BY DEF WithStatus, Document

\* Settling an update forgets the candidate alone,
LEMMA SettleTracks ==
  ASSUME NEW d \in Document, NEW v
  PROVE  /\ Settle(d).candidate = None
         /\ Settle(d).headers = d.headers
         /\ Settle(d).dmg = d.dmg
         /\ Settle(d).installed = d.installed
         /\ AfterInstall(d, v).candidate = None
         /\ AfterInstall(d, v).headers = d.headers
         /\ AfterInstall(d, v).dmg = d.dmg
<1>1. /\ Settle(d).candidate = None
      /\ Settle(d).headers = d.headers
      /\ Settle(d).dmg = d.dmg
      /\ Settle(d).installed = d.installed
  BY DEF Settle, ClearRollbackBlock, WithStatus, NormalizeWorkspace, Document
<1>2. /\ AfterInstall(d, v).candidate = None
      /\ AfterInstall(d, v).headers = d.headers
      /\ AfterInstall(d, v).dmg = d.dmg
  BY DEF AfterInstall, ClearRollbackBlock, WithStatus, NormalizeWorkspace, Document
<1> QED BY <1>1, <1>2

\* and clearing the candidate sets the DMG besides.
LEMMA ClearTracks ==
  ASSUME NEW d \in Document, NEW dmg
  PROVE  /\ ClearCandidate(d, dmg).candidate = None
         /\ ClearCandidate(d, dmg).headers = d.headers
         /\ ClearCandidate(d, dmg).dmg = dmg
         /\ ClearCandidate(d, dmg).installed = d.installed
BY DEF ClearCandidate, WithStatus, NormalizeWorkspace, Document

\* An update is settled once what is served is dealt with.
LEMMA SettleAware ==
  ASSUME NEW d \in Document, NEW v, NEW u, NEW s, NEW c, NEW c2, c \subseteq c2,
         Aware(d, u, s, c), InstallIsPending(d)
  PROVE  Aware(Settle(d), u, s, c2) /\ Aware(AfterInstall(d, v), u, s, c2)
<1>1. Dealt(d, u, c2) /\ d.headers <= u /\ d.dmg <= u
  BY DEF Aware, ShouldRetry, InstallIsPending, Dealt
<1> QED BY <1>1, SettleTracks, EndingEdits, RestAware DEF Dealt

\* Any update that is not being installed may fail.
LEMMA FailAware ==
  ASSUME NEW d \in Document, NEW u, NEW s, NEW c, NEW c2,
         Aware(d, u, s, c), d.status # "Installing" \/ s.dmg # d.dmg
  PROVE  Aware(MarkFailed(d), u, s, c2)
<1>1. ShouldRetry(MarkFailed(d))
  BY EndingEdits DEF ShouldRetry
<1>2. /\ MarkFailed(d).headers = d.headers /\ MarkFailed(d).dmg = d.dmg
      /\ MarkFailed(d).candidate = d.candidate
  BY StatusTracks DEF MarkFailed, Status
<1>3. d.headers <= u /\ d.dmg <= u /\ (d.candidate # None => s.dmg # d.dmg)
  BY DEF Aware
<1> QED BY <1>1, <1>2, <1>3, RetryAware

-----------------------------------------------------------------------------
(* A move of an aware process keeps every process aware.                   *)

\* What a process at work knows.
LEMMA Knows ==
  ASSUME Inv, Followed, NEW p \in Updater, pc[p] # "idle"
  PROVE  /\ p \in Proc /\ mem[p] \in Document
         /\ Aware(mem[p], upstream, sys, concluded)
         /\ Fresh(pc[p], mem[p], sys)
BY Typing DEF Followed, Updater, Proc

\* A move keeps Followed.
LEMMA TrackedKeeps ==
  ASSUME Inv, Orderly, Followed, concluded \subseteq concluded',
         NEW p, NEW to, NEW d, Tracked(p, to, d)
  PROVE  Followed'
<1>1. pc \in [Proc -> FlowPoints \cup StatusPoints \cup RollbackPoints]
      /\ mem \in [Proc -> Sound]
  BY DEF Inv, PointsOK, DocsOK
<1>2. p \in Proc \ {"rollback"} /\ p \in Updater
  BY DEF Tracked, Updater, Proc
<1>3. /\ pc'[p] = to /\ \A q \in Proc \ {p} : pc'[q] = pc[q] /\ pc[q] = "idle"
      /\ to # "idle" => mem'[p] = d
  BY <1>1, <1>2 DEF Tracked, Goto, Orderly, OneAtATime
<1>4. pc'["rollback"] = "idle" /\ orphans' = {}
  BY <1>2, <1>3 DEF Proc, Followed, Tracked
<1>5. Aware(d, upstream', sys', concluded') /\ Fresh(to, d, sys')
  BY DEF Tracked
<1>6. Aware(disk, upstream', sys', concluded')
  BY TwinAware DEF Followed, Tracked, Twin
<1>7. Aware(disk', upstream', sys', concluded')
  BY <1>5, <1>6 DEF Tracked
<1>8. ASSUME NEW q \in Updater, pc'[q] # "idle"
      PROVE  Aware(mem'[q], upstream', sys', concluded') /\ Fresh(pc'[q], mem'[q], sys')
  <2>1. q = p
    BY <1>3, <1>8 DEF Updater, Proc
  <2> QED BY <1>3, <1>5, <1>8, <2>1
<1>9. /\ Established(pc'["flow"], mem'["flow"], upstream', sys', concluded', retry')
      /\ pc'["flow"] = "authorize" => disk' = mem'["flow"]
  <2>1. CASE p = "flow" /\ to # "idle"
    BY <1>3, <2>1 DEF Tracked
  <2>2. CASE p # "flow" \/ to = "idle"
    <3>1. pc'["flow"] = "idle"
      BY <1>2, <1>3, <2>2 DEF Proc
    <3>2. Loose("idle")
      BY DEF Loose, Checking, BuildPoints
    <3> QED BY <3>1, <3>2, LooseFits
  <2> QED BY <2>1, <2>2
<1> QED BY <1>4, <1>7, <1>8, <1>9 DEF Followed, Flow

\* A process goes on with the same document, saved or not.
LEMMA Carries ==
  ASSUME Inv, Followed, concluded \subseteq concluded',
         NEW p \in Updater, pc[p] # "idle", NEW to, NEW d, Twin(d, mem[p]),
         Continue(p, to, d) \/ Save(p, to, d) \/ Persist(p, to, d),
         Fresh(to, d, sys),
         p = "flow" => /\ Established(to, d, upstream, sys, concluded', retry')
                       /\ to # "authorize",
         UNCHANGED <<upstream, sys, orphans>>
  PROVE  Tracked(p, to, d)
<1>1. Aware(d, upstream, sys, concluded')
  BY Knows, TwinAware
<1>2. Goto(p, to, d) /\ disk' \in {disk, d}
  BY DEF Continue, Save, Persist
<1> QED BY <1>1, <1>2 DEF Tracked

\* A process writes an aware document, at a loose point.
LEMMA Writes ==
  ASSUME NEW p \in Updater, pc[p] # "idle", NEW to, NEW d, Save(p, to, d),
         Aware(d, upstream, sys, concluded'), Fresh(to, d, sys), Loose(to),
         UNCHANGED <<upstream, sys, orphans>>
  PROVE  Tracked(p, to, d)
BY LooseFits DEF Tracked, Save

-----------------------------------------------------------------------------
(* The steps the flow and the status command share.                        *)

\* Refreshing the installed version.
LEMMA SyncTracked ==
  ASSUME Inv, Followed, concluded \subseteq concluded', NEW p \in Proc, SyncEntry(p)
  PROVE  \E to, d : Tracked(p, to, d)
<1> DEFINE d == IF p = "flow" THEN SyncRuntime(mem[p], sys.ver)
                              ELSE [mem[p] EXCEPT !.installed = sys.ver]
<1>1. pc[p] # "idle" /\ Persist(p, AfterSync(p), d) /\ UNCHANGED world
  BY DEF SyncEntry, At
<1>2. p \in Updater
  BY <1>1 DEF Followed, Updater, Proc
<1>3. Twin(d, mem[p]) /\ d.installed = sys.ver
  BY Typing, TwinEdits
<1>4. Loose(AfterSync(p)) /\ Fresh(AfterSync(p), d, sys)
  BY <1>2, <1>3 DEF AfterSync, Loose, Checking, BuildPoints, Fresh, Updater
<1> HIDE DEF d
<1> QED BY <1>1, <1>2, <1>3, <1>4, LooseFits, Carries DEF world

\* Taking up an interrupted install: when the installed DMG is the document's,
\* the versions agree, and the update is settled.
LEMMA RecoverTracked ==
  ASSUME Inv, Followed, concluded \subseteq concluded', NEW p \in Updater, pc[p] # "idle",
         NEW d \in Document, Twin(d, mem[p]), d.installed = sys.ver,
         NEW to, Loose(to), NEW toIfFailed, Loose(toIfFailed),
         RecoverInterrupted(p, d, to, toIfFailed), UNCHANGED <<upstream, sys, orphans>>
  PROVE  \E point, e : Tracked(p, point, e)
<1>1. Aware(d, upstream, sys, concluded)
  BY Knows, TwinAware
<1>2. CASE d.status # "Installing"
  <2>1. Continue(p, to, d)
    BY <1>2 DEF RecoverInterrupted
  <2> QED BY <2>1, LooseFits, Carries DEF Fresh
<1>3. CASE d.status = "Installing" /\ Satisfies(d.installed, d.candidate)
  <2>1. Save(p, to, Settle(d))
    BY <1>3 DEF RecoverInterrupted, SettleAndPrune
  <2>2. Aware(Settle(d), upstream, sys, concluded')
    BY <1>1, <1>3, SettleAware DEF InstallIsPending
  <2>3. Fresh(to, Settle(d), sys)
    BY SettleTracks DEF Fresh
  <2> QED BY <2>1, <2>2, <2>3, Writes
<1>4. ASSUME d.status = "Installing", ~Satisfies(d.installed, d.candidate)
      PROVE  sys.dmg # d.dmg
  <2>1. d.candidate \in VersionOrNone /\ VersionOrNone \subseteq Nat
    BY CountsAssumption DEF Document, VersionOrNone
  <2>2. sys.dmg = d.dmg => d.candidate # None /\ sys.ver = d.candidate
    BY <1>1, <1>4 DEF Aware
  <2>3. d.candidate \in Nat
    BY <2>1
  <2>4. ASSUME d.installed = d.candidate, d.candidate # None PROVE FALSE
    BY <1>4, <2>3, <2>4 DEF Satisfies
  <2> QED BY <2>2, <2>4
<1>5. CASE /\ d.status = "Installing"
           /\ ~Satisfies(d.installed, d.candidate)
           /\ PackageMissing(d)
  <2>1. Save(p, toIfFailed, MarkFailed(d))
    BY <1>5 DEF RecoverInterrupted
  <2>2. Aware(MarkFailed(d), upstream, sys, concluded')
    BY <1>1, <1>4, <1>5, FailAware
  <2>3. Fresh(toIfFailed, MarkFailed(d), sys)
    BY StatusTracks DEF Fresh, MarkFailed, Status
  <2> QED BY <2>1, <2>2, <2>3, Writes
<1>6. CASE /\ d.status = "Installing"
           /\ ~Satisfies(d.installed, d.candidate)
           /\ ~PackageMissing(d)
  <2> DEFINE r == WithStatus(d, "ReadyToInstall")
             e == NormalizeWorkspace(r)
  <2>1. Save(p, to, e)
    BY <1>6 DEF RecoverInterrupted
  <2>2. r \in Document /\ r.status = "ReadyToInstall" /\ r.headers = d.headers
        /\ r.dmg = d.dmg /\ r.candidate = d.candidate /\ r.installed = d.installed
    BY StatusEdits, StatusTracks DEF Status
  <2>3. Twin(e, r) /\ e.installed = sys.ver
    BY <2>2, TwinEdits
  <2> HIDE DEF r, e
  <2>4. Dealt(d, upstream, concluded')
    BY <1>1, <1>6 DEF Aware, Dealt, ShouldRetry
  <2>5. d.headers <= upstream /\ d.dmg <= upstream /\ Dealt(r, upstream, concluded')
    BY <1>1, <2>2, <2>4 DEF Aware, Dealt
  <2>6. Aware(r, upstream, sys, concluded')
    BY <1>4, <1>6, <2>2, <2>5, OfferAware
  <2>7. Aware(e, upstream, sys, concluded')
    BY <2>3, <2>6, TwinAware
  <2> QED BY <2>1, <2>3, <2>7, Writes DEF Fresh
<1> QED BY <1>2, <1>3, <1>5, <1>6

\* The steps of Shared.
LEMMA SharedTracked ==
  ASSUME Inv, Followed, concluded \subseteq concluded', NEW p \in Updater, Shared(p)
  PROVE  \E to, d : Tracked(p, to, d)
<1>1. p \in Proc /\ pc[p] # "idle" /\ UNCHANGED <<upstream, sys, orphans>>
  BY DEF Updater, Proc, Shared, SyncEntry, Recover, CompleteCurrent, CompletePending,
         Normalize, At, world
<1>2. /\ mem[p] \in Document /\ Aware(mem[p], upstream, sys, concluded)
      /\ pc[p] \in {"current", "pending", "recover"} => mem[p].installed = sys.ver
  BY <1>1, Knows DEF Fresh
<1>3. CASE SyncEntry(p)
  BY <1>1, <1>3, SyncTracked
<1>4. CASE Recover(p)
  <2> DEFINE failed == IF p = "flow" /\ kind = "install_ready" THEN "idle"
                       ELSE AfterRecover(p)
  <2>1. RecoverInterrupted(p, mem[p], AfterRecover(p), failed) /\ pc[p] = "recover"
    BY <1>4 DEF Recover, At
  <2>2. Loose(AfterRecover(p)) /\ Loose(failed)
    BY DEF Loose, AfterRecover, Checking, BuildPoints
  <2> HIDE DEF failed
  <2> QED BY <1>1, <1>2, <2>1, <2>2, TwinEdits, RecoverTracked
<1>5. CASE CompleteCurrent(p)
  <2> DEFINE m == mem[p]
             e == ClearCandidate(m, m.dmg)
             to == IF p = "flow" /\ kind = "install_ready" THEN "idle"
                   ELSE AfterCurrent(p)
  <2>1. Loose(to) /\ Loose(AfterCurrent(p)) /\ to \notin {"current", "recover"}
    BY DEF Loose, AfterCurrent, Checking, BuildPoints
  <2>2. pc[p] = "current"
    BY <1>5 DEF CompleteCurrent, At
  <2>3. \/ m.candidate # None /\ sys.dmg = m.dmg /\ Save(p, to, e)
        \/ Continue(p, AfterCurrent(p), m)
    BY <1>5 DEF CompleteCurrent
  <2>4. /\ e.status = "Idle" /\ e.candidate = None /\ e.headers = m.headers
        /\ e.dmg = m.dmg /\ e.installed = m.installed
    BY <1>2, EndingEdits, ClearTracks
  <2> HIDE DEF to, e, m
  <2>5. CASE m.candidate # None /\ sys.dmg = m.dmg /\ Save(p, to, e)
    <3>1. m.status = "Installing"
      BY <1>2, <2>5 DEF Aware, m
    <3>2. m.headers <= upstream /\ m.dmg <= upstream /\ Dealt(e, upstream, concluded')
      BY <1>2, <2>4, <3>1 DEF Aware, Dealt, ShouldRetry, m
    <3>3. Aware(e, upstream, sys, concluded')
      BY <2>4, <3>2, RestAware
    <3> QED BY <1>1, <1>2, <2>1, <2>2, <2>4, <2>5, <3>3, Writes DEF Fresh, m
  <2>6. CASE Continue(p, AfterCurrent(p), m)
    <3>1. Twin(m, mem[p]) /\ Fresh(AfterCurrent(p), m, sys)
      BY <1>2, <2>2, TwinEdits DEF Fresh, m
    <3> QED BY <1>1, <2>1, <2>6, <3>1, LooseFits, Carries
  <2> QED BY <2>3, <2>5, <2>6
<1>6. CASE CompletePending(p)
  <2> DEFINE next == IF p = "status" THEN "recover" ELSE "offer"
             end == IF p = "status" THEN "recover" ELSE "idle"
             m == mem[p]
  <2>1. Loose(next) /\ Loose(end)
    BY DEF Loose, Checking, BuildPoints
  <2>2. pc[p] = "pending"
    BY <1>6 DEF CompletePending, At
  <2>3. \/ InstallIsPending(m) /\ Save(p, end, Settle(m))
        \/ Continue(p, next, m)
    BY <1>6 DEF CompletePending, SettleAndPrune, InstallIsPending
  <2> HIDE DEF next, end, m
  <2>4. CASE InstallIsPending(m) /\ Save(p, end, Settle(m))
    <3>1. Aware(Settle(m), upstream, sys, concluded')
      BY <1>2, <2>4, SettleAware DEF m
    <3>2. Fresh(end, Settle(m), sys)
      BY <1>2, <2>2, SettleTracks DEF Fresh, m
    <3> QED BY <1>1, <2>1, <2>4, <3>1, <3>2, Writes
  <2>5. CASE Continue(p, next, m)
    <3>1. Twin(m, mem[p]) /\ Fresh(next, m, sys)
      BY <1>2, <2>2, TwinEdits DEF Fresh, m
    <3> QED BY <1>1, <2>1, <2>5, <3>1, LooseFits, Carries
  <2> QED BY <2>3, <2>4, <2>5
<1>7. CASE Normalize(p)
  <2>1. Persist(p, AfterNormalize(p), NormalizeWorkspace(mem[p]))
    BY <1>7 DEF Normalize
  <2>2. Loose(AfterNormalize(p)) /\ AfterNormalize(p) \notin {"current", "pending", "recover"}
    BY DEF Loose, AfterNormalize, Checking, BuildPoints, Updater
  <2> QED BY <1>1, <1>2, <2>1, <2>2, TwinEdits, LooseFits, Carries DEF Fresh
<1> QED BY <1>3, <1>4, <1>5, <1>6, <1>7 DEF Shared

\* The start of a reconciliation.
LEMMA ResyncTracked ==
  ASSUME Inv, Followed, concluded \subseteq concluded', Resync
  PROVE  \E to, d : Tracked("flow", to, d)
<1> DEFINE d == SyncRuntime(mem["flow"], sys.ver)
<1>1. mem["flow"] \in Sound /\ sys.ver \in VersionOrNone
  BY Reads DEF Proc
<1>2. d \in Document /\ Twin(d, mem["flow"]) /\ d.installed = sys.ver
  BY <1>1, InstalledVersionSound, TwinEdits DEF Sound
<1>3. RecoverInterrupted("flow", d, "pending", "pending") /\ pc["flow"] # "idle"
      /\ UNCHANGED <<upstream, sys, orphans>>
  BY DEF Resync, At
<1> HIDE DEF d
<1>4. "flow" \in Updater /\ Loose("pending")
  BY DEF Updater, Loose, Checking, BuildPoints
<1> QED BY <1>2, <1>3, <1>4, RecoverTracked

-----------------------------------------------------------------------------
(* The check cycle and the build.                                          *)

\* Points of the flow at which no installed version is judged.
Ahead(to) == to \notin {"current", "pending", "recover"}

\* What the flow knows at work.
LEMMA FlowKnows ==
  ASSUME Inv, Followed, pc["flow"] # "idle"
  PROVE  /\ "flow" \in Updater /\ Flow \in Document /\ Flow = mem["flow"]
         /\ Aware(Flow, upstream, sys, concluded)
         /\ Established(pc["flow"], Flow, upstream, sys, concluded, retry)
         /\ upstream \in Nat /\ upstream # None /\ Flow.headers \in Nat /\ Flow.dmg \in Nat
<1>1. "flow" \in Updater
  BY DEF Updater
<1>2. Flow \in Document /\ Flow = mem["flow"]
  BY Typing
<1>3. upstream \in Nat /\ upstream # None
  BY CountsAssumption DEF Inv, WorldOK, CountsOK, Dmg, None
<1>4. Flow.headers \in DmgOrNone /\ Flow.dmg \in DmgOrNone
  BY <1>2 DEF Document
<1>5. DmgOrNone \subseteq Nat
  BY CountsAssumption DEF DmgOrNone
<1> QED BY <1>1, <1>2, <1>3, <1>4, <1>5, Knows DEF Followed

\* The flow goes on with the same document.
LEMMA FlowCarries ==
  ASSUME Inv, Followed, concluded \subseteq concluded', pc["flow"] # "idle",
         NEW to, NEW d, Twin(d, Flow), FlowTo(to, d) \/ FlowSave(to, d),
         Ahead(to), to # "authorize",
         Established(to, d, upstream, sys, concluded', retry'),
         UNCHANGED <<upstream, sys, orphans>>
  PROVE  Tracked("flow", to, d)
<1>1. "flow" \in Updater /\ Flow = mem["flow"]
  BY FlowKnows
<1>2. Continue("flow", to, d) \/ Save("flow", to, d)
  BY DEF FlowTo, FlowSave
<1> QED BY <1>1, <1>2, Carries DEF Fresh, Ahead

\* The flow writes an aware document.
LEMMA FlowWrites ==
  ASSUME pc["flow"] # "idle", NEW to, NEW d, FlowSave(to, d), Ahead(to),
         Aware(d, upstream, sys, concluded'),
         Established(to, d, upstream, sys, concluded', retry'),
         UNCHANGED <<upstream, sys, orphans>>
  PROVE  Tracked("flow", to, d)
BY DEF Tracked, FlowSave, Save, Fresh, Ahead, Updater

\* The beginning of a check, and what the headers say.
LEMMA CheckTracked ==
  ASSUME Inv, Followed, concluded \subseteq concluded',
         SkipPending \/ SkipFresh \/ PrepareUpstreamCheck \/ FetchMetadata
           \/ DownloadTrusted \/ DownloadUntrusted
  PROVE  \E to, d : Tracked("flow", to, d)
<1>1. pc["flow"] # "idle" /\ UNCHANGED <<upstream, sys, orphans>>
  BY DEF SkipPending, SkipFresh, PrepareUpstreamCheck, FetchMetadata,
         DownloadTrusted, DownloadUntrusted, At, world
<1>2. /\ Flow \in Document /\ Flow = mem["flow"] /\ Twin(Flow, Flow)
      /\ Aware(Flow, upstream, sys, concluded)
      /\ Established(pc["flow"], Flow, upstream, sys, concluded, retry)
      /\ upstream \in Nat
  BY <1>1, FlowKnows, TwinEdits
<1>3. Aware(Flow, upstream, sys, concluded')
  BY <1>2, TwinAware
<1>4. CASE SkipPending \/ SkipFresh
  <2>1. FlowTo("prune", Flow)
    BY <1>4 DEF SkipPending, SkipFresh
  <2>2. Loose("prune") /\ Ahead("prune")
    BY DEF Loose, Ahead, Checking, BuildPoints
  <2> QED BY <1>1, <1>2, <2>1, <2>2, LooseFits, FlowCarries
<1>5. CASE PrepareUpstreamCheck
  <2> DEFINE d == IF ShouldRetry(Flow) THEN Flow
                  ELSE [Flow EXCEPT !.status = "CheckingUpstream"]
  <2>1. Goto("flow", "head", d) /\ disk' = d /\ retry' = ShouldRetry(Flow)
        /\ ~InstallIsPending(Flow)
    BY <1>5 DEF PrepareUpstreamCheck, Save
  <2>2. CASE ShouldRetry(Flow)
    <3>1. d = Flow /\ retry' = TRUE /\ Flow.status # "Installing"
      BY <2>1, <2>2 DEF ShouldRetry
    <3>2. Established("head", d, upstream, sys, concluded', retry')
      BY <3>1 DEF Established, BuildPoints
    <3> HIDE DEF d
    <3> QED BY <1>1, <1>3, <2>1, <3>1, <3>2 DEF Tracked, Fresh, Updater
  <2>3. CASE ~ShouldRetry(Flow)
    <3>1. /\ d.status = "CheckingUpstream" /\ d.candidate = Flow.candidate
          /\ d.headers = Flow.headers /\ d.dmg = Flow.dmg /\ retry' = FALSE
      BY <1>2, <2>1, <2>3 DEF Document
    <3> HIDE DEF d
    <3>2. d.candidate = None /\ d.headers <= upstream /\ d.dmg <= upstream
          /\ Dealt(d, upstream, concluded')
      BY <1>3, <2>1, <2>3, <3>1 DEF Aware, Dealt
    <3>3. Aware(d, upstream, sys, concluded')
      BY <3>1, <3>2, RestAware
    <3>4. Established("head", d, upstream, sys, concluded', retry')
      BY <3>1, <3>2 DEF Established, BuildPoints, Dealt
    <3> QED BY <1>1, <2>1, <3>3, <3>4 DEF Tracked, Fresh, Updater
  <2> QED BY <2>2, <2>3
<1>6. CASE FetchMetadata
  <2> DEFINE seen == [Flow EXCEPT !.headers = upstream]
  <2>1. /\ pc["flow"] = "head"
        /\ \/ /\ Flow.headers = upstream /\ ~retry
              /\ FlowSave("prune", WithStatus(seen, "Idle"))
           \/ FlowSave("download", WithStatus(seen, "DownloadingDmg"))
    BY <1>6 DEF FetchMetadata, At
  <2>2. /\ seen \in Document
        /\ seen.headers = upstream /\ seen.dmg = Flow.dmg /\ seen.candidate = Flow.candidate
    BY <1>2 DEF Document, Inv, WorldOK, CountsOK, Dmg, DmgOrNone
  <2> HIDE DEF seen
  <2>3. /\ Flow.headers <= upstream /\ Flow.dmg <= upstream /\ upstream <= upstream
        /\ Flow.status # "Installing"
        /\ Flow.candidate # None => sys.dmg # Flow.dmg
        /\ ~retry => /\ Flow.candidate = None /\ Dealt(Flow, upstream, concluded)
                     /\ Flow.dmg = upstream /\ upstream \in Trusted => upstream \in concluded
    BY <1>2, <2>1 DEF Aware, Established, Checking
  <2>4. CASE Flow.headers = upstream /\ ~retry /\ FlowSave("prune", WithStatus(seen, "Idle"))
    <3> DEFINE e == WithStatus(seen, "Idle")
    <3>1. /\ e.status = "Idle" /\ e.candidate = Flow.candidate
          /\ e.headers = upstream /\ e.dmg = Flow.dmg
      BY <2>2, StatusTracks DEF Status
    <3> HIDE DEF e
    <3>2. Dealt(e, upstream, concluded')
      BY <2>3, <2>4, <3>1 DEF Dealt
    <3>3. Aware(e, upstream, sys, concluded')
      BY <2>3, <2>4, <3>1, <3>2, RestAware
    <3>4. Loose("prune") /\ Ahead("prune")
      BY DEF Loose, Ahead, Checking, BuildPoints
    <3> QED BY <1>1, <2>4, <3>3, <3>4, LooseFits, FlowWrites DEF e
  <2>5. CASE FlowSave("download", WithStatus(seen, "DownloadingDmg"))
    <3> DEFINE e == WithStatus(seen, "DownloadingDmg")
    <3>1. /\ e.status = "DownloadingDmg" /\ e.candidate = Flow.candidate
          /\ e.headers = upstream /\ e.dmg = Flow.dmg
      BY <2>2, StatusTracks DEF Status
    <3> HIDE DEF e
    <3>2. Aware(e, upstream, sys, concluded')
      BY <2>3, <3>1, RetryAware DEF ShouldRetry
    <3>3. retry' = retry
      BY <2>5 DEF FlowSave, FlowContext, Inv, ContextOK
    <3>4. Established("download", e, upstream, sys, concluded', retry')
      BY <2>3, <3>1, <3>3 DEF Established, BuildPoints
    <3> QED BY <1>1, <2>5, <3>2, <3>4, FlowWrites DEF e, Ahead
  <2> QED BY <2>1, <2>4, <2>5
<1>7. CASE DownloadTrusted
  <2> DEFINE e == [Flow EXCEPT !.dmgVerified = upstream]
  <2>1. FlowTo("match", e) /\ pc["flow"] = "download"
    BY <1>7 DEF DownloadTrusted, At
  <2>2. Twin(e, Flow) /\ e.dmgVerified = upstream
    BY <1>2 DEF Twin, Document
  <2> HIDE DEF e
  <2>3. retry' = retry
    BY <2>1 DEF FlowTo, FlowContext, Inv, ContextOK
  <2>4. Established("match", e, upstream, sys, concluded', retry')
    BY <1>2, <2>1, <2>2, <2>3 DEF Established, Checking, BuildPoints, Twin
  <2> QED BY <1>1, <2>1, <2>2, <2>4, FlowCarries DEF Ahead
<1>8. CASE DownloadUntrusted
  <2> DEFINE e == [Flow EXCEPT !.dmgVerified = None]
  <2>1. FlowTo("fail", e) /\ pc["flow"] = "download"
    BY <1>8 DEF DownloadUntrusted, At
  <2>2. Twin(e, Flow)
    BY <1>2 DEF Twin, Document
  <2> HIDE DEF e
  <2>3. Established("fail", e, upstream, sys, concluded', retry')
    BY <1>2, <2>1, <2>2 DEF Established, Checking, BuildPoints, Twin
  <2> QED BY <1>1, <2>1, <2>2, <2>3, FlowCarries DEF Ahead
<1> QED BY <1>4, <1>5, <1>6, <1>7, <1>8

\* While the flow is elsewhere, no process looks for an update already installed.
LEMMA NoneIsCurrent ==
  ASSUME Orderly, pc["flow"] \notin {"idle", "current"}
  PROVE  \A p \in {"flow", "status"} : pc[p] # "current"
BY DEF Orderly, OneAtATime, Proc

\* What a check that ends with a match has concluded.
LEMMA MatchConcludes ==
  ASSUME Inv, Orderly, Followed, RecordConcluded, At("flow", "match"), pc'["flow"] = "prune",
         upstream \in Trusted, Flow.dmgVerified = upstream
  PROVE  upstream \in concluded'
<1>1. pc["flow"] = "match" /\ Moves("flow", "match", "prune")
  BY DEF At, Moves
<1>2. CASE AlreadyKnown
  <2>1. Flow.dmg = upstream /\ ~retry
    BY <1>2 DEF AlreadyKnown
  <2>2. upstream \in concluded
    BY <1>1, <2>1 DEF Followed, Established, Checking
  <2> QED BY <2>2, Learns
<1>3. CASE ~AlreadyKnown
  <2>1. ~Moves("flow", "finish", "checkversion")
    BY <1>1 DEF Moves
  <2>2. \A p \in {"flow", "status"} : pc[p] # "current"
    BY <1>1, NoneIsCurrent
  <2>3. concluded' = concluded \cup {Flow.dmgVerified}
    BY <1>1, <1>3, <2>1, <2>2 DEF RecordConcluded
  <2> QED BY <2>3
<1> QED BY <1>2, <1>3

\* What to do with the verified DMG.
LEMMA MatchTracked ==
  ASSUME Inv, Orderly, Followed, RecordConcluded,
         MatchInstalled \/ MatchBlocked \/ MatchKnown \/ DetectUpdate
  PROVE  \E to, d : Tracked("flow", to, d)
<1>1. pc["flow"] = "match" /\ pc["flow"] # "idle" /\ UNCHANGED <<upstream, sys, orphans>>
      /\ concluded \subseteq concluded'
  BY Learns DEF MatchInstalled, MatchBlocked, MatchKnown, DetectUpdate, At, world
<1>2. /\ Flow \in Document /\ Flow = mem["flow"]
      /\ Aware(Flow, upstream, sys, concluded)
      /\ Established("match", Flow, upstream, sys, concluded, retry)
      /\ upstream \in Nat
  BY <1>1, FlowKnows
<1>3. /\ Flow.headers <= upstream /\ Flow.dmg <= upstream /\ Flow.dmgVerified <= upstream
      /\ Flow.headers = upstream => Flow.dmgVerified = upstream
      /\ Flow.status # "Installing"
      /\ Flow.candidate # None => sys.dmg # Flow.dmg
      /\ ~retry => Flow.candidate = None
  BY <1>2 DEF Aware, Established, Checking
<1>4. ASSUME NEW e, FlowSave("prune", e), e.status = "Idle", e.candidate = None,
             e.headers = Flow.headers, e.dmg = Flow.dmgVerified
      PROVE  Tracked("flow", "prune", e)
  <2>1. pc'["flow"] = "prune"
    BY <1>4 DEF FlowSave, Save, Goto, Inv, PointsOK, Proc
  <2>2. Dealt(e, upstream, concluded')
    BY <1>1, <1>3, <1>4, <2>1, MatchConcludes DEF Dealt, At
  <2>3. Aware(e, upstream, sys, concluded')
    BY <1>3, <1>4, <2>2, RestAware
  <2>4. Loose("prune") /\ Ahead("prune")
    BY DEF Loose, Ahead, Checking, BuildPoints
  <2> QED BY <1>1, <1>4, <2>3, <2>4, LooseFits, FlowWrites
<1>5. CASE MatchInstalled
  <2> DEFINE e == ClearCandidate(Flow, Flow.dmgVerified)
  <2>1. FlowSave("prune", e)
    BY <1>5 DEF MatchInstalled
  <2>2. e.status = "Idle" /\ e.candidate = None /\ e.headers = Flow.headers
        /\ e.dmg = Flow.dmgVerified
    BY <1>2, EndingEdits, ClearTracks
  <2> HIDE DEF e
  <2> QED BY <1>4, <2>1, <2>2
<1>6. CASE MatchBlocked
  <2> DEFINE e == [Flow EXCEPT !.candidate = None, !.dmg = Flow.dmgVerified, !.status = "Idle"]
  <2>1. FlowSave("prune", e)
    BY <1>6 DEF MatchBlocked
  <2>2. e.status = "Idle" /\ e.candidate = None /\ e.headers = Flow.headers
        /\ e.dmg = Flow.dmgVerified
    BY <1>2 DEF Document
  <2> HIDE DEF e
  <2> QED BY <1>4, <2>1, <2>2
<1>7. CASE MatchKnown
  <2> DEFINE e == [Flow EXCEPT !.status = "Idle"]
  <2>1. FlowSave("prune", e) /\ Flow.dmg = Flow.dmgVerified /\ ~retry
    BY <1>7 DEF MatchKnown, AlreadyKnown
  <2>2. e.status = "Idle" /\ e.candidate = None /\ e.headers = Flow.headers
        /\ e.dmg = Flow.dmgVerified
    BY <1>2, <1>3, <2>1 DEF Document
  <2> HIDE DEF e
  <2> QED BY <1>4, <2>1, <2>2
<1>8. CASE DetectUpdate
  <2> DEFINE k == RecordKnownGood(files, Flow)
             e == [k EXCEPT !.status = "UpdateDetected",
                            !.candidate = ManifestVersion[Flow.dmgVerified],
                            !.dmg = Flow.dmgVerified, !.authEvents = {}]
  <2>1. FlowSave("wipe", e) /\ sys.dmg # Flow.dmgVerified
    BY <1>8 DEF DetectUpdate
  <2>2. k \in Document /\ k.headers = Flow.headers
    <3>1. Flow \in Sound
      BY <1>2, Reads DEF Proc
    <3>2. k \in Document
      BY <3>1, RecordKnownGoodSound DEF Sound
    <3> QED BY <1>2, <3>2 DEF RecordKnownGood, Document
  <2> HIDE DEF k
  <2>3. e.status = "UpdateDetected" /\ e.headers = Flow.headers /\ e.dmg = Flow.dmgVerified
    BY <2>2 DEF Document
  <2> HIDE DEF e
  <2>4. Aware(e, upstream, sys, concluded')
    BY <1>3, <2>1, <2>3, RetryAware DEF ShouldRetry
  <2>5. Established("wipe", e, upstream, sys, concluded', retry')
    BY <1>3, <2>1, <2>3 DEF Established, Checking
  <2> QED BY <1>1, <2>1, <2>4, <2>5, FlowWrites DEF Ahead
<1> QED BY <1>5, <1>6, <1>7, <1>8

\* The flow marks an update failed that is not being installed.
LEMMA FailTracked ==
  ASSUME Inv, Followed, concluded \subseteq concluded', pc["flow"] # "idle",
         NEW to \in {"idle", "fail"}, FlowSave(to, MarkFailed(Flow)),
         Flow.status # "Installing" \/ sys.dmg # Flow.dmg,
         UNCHANGED <<upstream, sys, orphans>>
  PROVE  Tracked("flow", to, MarkFailed(Flow))
<1>1. Flow \in Document /\ Aware(Flow, upstream, sys, concluded)
  BY FlowKnows
<1>2. Aware(MarkFailed(Flow), upstream, sys, concluded')
  BY <1>1, FailAware
<1>3. MarkFailed(Flow).status = "Failed"
  BY <1>1, EndingEdits
<1>4. Established(to, MarkFailed(Flow), upstream, sys, concluded', retry')
  BY <1>3 DEF Established, Checking, BuildPoints
<1> QED BY <1>2, <1>4, FlowWrites DEF Ahead

\* A failure, and the two ends of a check.
LEMMA EndsTracked ==
  ASSUME Inv, Followed, concluded \subseteq concluded', StepFails \/ FailCheck \/ EndCheck
  PROVE  \E to, d : Tracked("flow", to, d)
<1>1. pc["flow"] # "idle" /\ UNCHANGED <<upstream, sys, orphans>>
  BY DEF StepFails, FailCheck, EndCheck, At, world, BuildPoints
<1>2. /\ Flow \in Document /\ Flow = mem["flow"] /\ Twin(Flow, Flow) /\ "flow" \in Updater
      /\ Established(pc["flow"], Flow, upstream, sys, concluded, retry)
  BY <1>1, FlowKnows, TwinEdits
<1>3. CASE StepFails
  <2>1. Flow.status # "Installing"
    BY <1>2, <1>3 DEF StepFails, Established, Checking
  <2>2. Established("fail", Flow, upstream, sys, concluded', retry')
    BY <2>1 DEF Established, Checking, BuildPoints
  <2> QED BY <1>1, <1>2, <1>3, <2>2, FlowCarries DEF StepFails, Ahead
<1>4. CASE FailCheck
  <2>1. Flow.status # "Installing"
    BY <1>2, <1>4 DEF FailCheck, At, Established
  <2> QED BY <1>1, <1>4, <2>1, FailTracked DEF FailCheck
<1>5. CASE EndCheck
  <2>1. Loose("idle") /\ Loose("resync") /\ Ahead("idle") /\ Ahead("resync")
    BY DEF Loose, Ahead, Checking, BuildPoints
  <2>2. FlowTo("idle", Flow) \/ Continue("flow", "resync", Flow)
    BY <1>5 DEF EndCheck
  <2>3. CASE FlowTo("idle", Flow)
    BY <1>1, <1>2, <2>1, <2>3, LooseFits, FlowCarries
  <2>4. CASE Continue("flow", "resync", Flow)
    BY <1>1, <1>2, <2>1, <2>4, LooseFits, Carries DEF Fresh, Ahead
  <2> QED BY <2>2, <2>3, <2>4
<1> QED BY <1>3, <1>4, <1>5

\* The build goes on with the DMG it was started for.
LEMMA BuildsOn ==
  ASSUME Inv, Followed, concluded \subseteq concluded', pc["flow"] \in BuildPoints,
         NEW to \in BuildPoints, NEW d, FlowSave(to, d), ShouldRetry(d),
         d.headers = Flow.headers, d.dmg = Flow.dmg,
         UNCHANGED <<upstream, sys, orphans>>
  PROVE  Tracked("flow", to, d)
<1>1. pc["flow"] # "idle"
  BY DEF BuildPoints
<1>2. /\ Aware(Flow, upstream, sys, concluded)
      /\ Established(pc["flow"], Flow, upstream, sys, concluded, retry)
  BY <1>1, FlowKnows
<1>3. /\ Flow.headers <= upstream /\ Flow.dmg <= upstream /\ sys.dmg # Flow.dmg
      /\ Flow.headers = upstream => Flow.dmg = upstream
  BY <1>2 DEF Aware, Established
<1>4. Aware(d, upstream, sys, concluded')
  BY <1>3, RetryAware
<1>5. Established(to, d, upstream, sys, concluded', retry')
  BY <1>3 DEF Established, Checking, BuildPoints, ShouldRetry
<1>6. Ahead(to)
  BY DEF Ahead, BuildPoints
<1> QED BY <1>1, <1>4, <1>5, <1>6, FlowWrites

\* What a finished build has concluded.
LEMMA FinishConcludes ==
  ASSUME Inv, Orderly, RecordConcluded, pc["flow"] = "finish", pc'["flow"] = "checkversion"
  PROVE  Flow.dmg \in concluded'
<1>1. Moves("flow", "finish", "checkversion") /\ ~Moves("flow", "match", "prune")
  BY DEF Moves
<1>2. \A p \in {"flow", "status"} : pc[p] # "current"
  BY NoneIsCurrent
<1>3. concluded' = concluded \cup {Flow.dmg}
  BY <1>1, <1>2 DEF RecordConcluded
<1> QED BY <1>3

\* The local build.
LEMMA BuildTracked ==
  ASSUME Inv, Orderly, Followed, RecordConcluded, Build
  PROVE  \E to, d : Tracked("flow", to, d)
<1>1. pc["flow"] # "idle" /\ UNCHANGED <<upstream, sys, orphans>>
      /\ concluded \subseteq concluded'
  BY Learns DEF Build, WipeWorkspace, PrepareWorkspace, PatchApp, BuildPackage,
                FinishBuild, CheckBuiltVersion, At, world
<1>2. /\ Flow \in Document /\ Flow = mem["flow"] /\ Twin(Flow, Flow)
      /\ Aware(Flow, upstream, sys, concluded)
      /\ Established(pc["flow"], Flow, upstream, sys, concluded, retry)
  BY <1>1, FlowKnows, TwinEdits
<1>3. CASE WipeWorkspace
  <2>1. FlowTo("prepare", Flow) /\ pc["flow"] = "wipe"
    BY <1>3 DEF WipeWorkspace, At
  <2>2. /\ Flow.status # "Installing" /\ sys.dmg # Flow.dmg
        /\ Flow.headers = upstream => Flow.dmg = upstream
    BY <1>2, <2>1 DEF Established, BuildPoints
  <2>3. Established("prepare", Flow, upstream, sys, concluded', retry')
    BY <2>2 DEF Established, Checking
  <2> QED BY <1>1, <1>2, <2>1, <2>3, FlowCarries DEF Ahead
<1>4. CASE PrepareWorkspace
  <2> DEFINE d == [Flow EXCEPT !.status = "PreparingWorkspace",
                               !.packageVerified = NoPackage,
                               !.workspace = Flow.candidate]
  <2>1. d.status = "PreparingWorkspace" /\ d.headers = Flow.headers /\ d.dmg = Flow.dmg
    BY <1>2 DEF Document
  <2>2. FlowSave("patch", d) /\ pc["flow"] = "prepare"
    BY <1>4 DEF PrepareWorkspace, At
  <2> HIDE DEF d
  <2> QED BY <1>1, <2>1, <2>2, BuildsOn DEF BuildPoints, ShouldRetry
<1>5. CASE PatchApp
  <2> DEFINE d == [Flow EXCEPT !.status = "PatchingApp"]
  <2>1. d.status = "PatchingApp" /\ d.headers = Flow.headers /\ d.dmg = Flow.dmg
    BY <1>2 DEF Document
  <2>2. FlowSave("package", d) /\ pc["flow"] = "patch"
    BY <1>5 DEF PatchApp, At
  <2> HIDE DEF d
  <2> QED BY <1>1, <2>1, <2>2, BuildsOn DEF BuildPoints, ShouldRetry
<1>6. CASE BuildPackage
  <2> DEFINE d == [Flow EXCEPT !.status = "BuildingPackage",
                               !.candidate = BundleVersion[Flow.dmg]]
  <2>1. d.status = "BuildingPackage" /\ d.headers = Flow.headers /\ d.dmg = Flow.dmg
    BY <1>2 DEF Document
  <2>2. FlowSave("finish", d) /\ pc["flow"] = "package"
    BY <1>6 DEF BuildPackage, At
  <2> HIDE DEF d
  <2> QED BY <1>1, <2>1, <2>2, BuildsOn DEF BuildPoints, ShouldRetry
<1>7. CASE FinishBuild
  <2> DEFINE built == [dmg |-> Flow.dmg, ver |-> Flow.candidate,
                       build |-> builds + 1, at |-> Flow.workspace]
             d == [Flow EXCEPT !.status = "ReadyToInstall",
                               !.package = Flow.workspace,
                               !.packageVerified = built]
  <2>1. FlowSave("checkversion", d) /\ pc["flow"] = "finish"
    BY <1>7 DEF FinishBuild, At
  <2>2. d.status = "ReadyToInstall" /\ d.headers = Flow.headers /\ d.dmg = Flow.dmg
    BY <1>2 DEF Document
  <2> HIDE DEF built, d
  <2>3. pc'["flow"] = "checkversion"
    BY <2>1 DEF FlowSave, Save, Goto, Inv, PointsOK, Proc
  <2>4. Flow.dmg \in concluded'
    BY <2>1, <2>3, FinishConcludes
  <2>5. /\ Flow.headers <= upstream /\ Flow.dmg <= upstream /\ sys.dmg # Flow.dmg
        /\ Flow.headers = upstream => Flow.dmg = upstream
    BY <1>2, <2>1 DEF Aware, Established, BuildPoints
  <2>6. Dealt(d, upstream, concluded')
    BY <2>2, <2>4, <2>5 DEF Dealt
  <2>7. Aware(d, upstream, sys, concluded')
    BY <2>2, <2>5, <2>6, OfferAware
  <2>8. Established("checkversion", d, upstream, sys, concluded', retry')
    BY <2>2 DEF Established, Checking, BuildPoints
  <2> QED BY <1>1, <2>1, <2>7, <2>8, FlowWrites DEF Ahead
<1>8. CASE CheckBuiltVersion
  <2>1. Flow.status # "Installing"
    BY <1>2, <1>8 DEF CheckBuiltVersion, At, Established
  <2>2. Loose("prune") /\ Ahead("prune")
    BY DEF Loose, Ahead, Checking, BuildPoints
  <2>3. CASE FlowTo("prune", Flow)
    BY <1>1, <1>2, <2>2, <2>3, LooseFits, FlowCarries
  <2>4. CASE FlowSave("fail", MarkFailed(Flow))
    BY <1>1, <2>1, <2>4, FailTracked
  <2> QED BY <1>8, <2>3, <2>4 DEF CheckBuiltVersion
<1> QED BY <1>3, <1>4, <1>5, <1>6, <1>7, <1>8 DEF Build

-----------------------------------------------------------------------------
(* The offer, and the privileged install.                                  *)

\* The flow writes an offer of the same update, for a DMG that is not installed.
LEMMA OfferTracked ==
  ASSUME Inv, Followed, concluded \subseteq concluded', pc["flow"] # "idle",
         InstallIsPending(Flow), Flow.candidate # None => sys.dmg # Flow.dmg,
         NEW d, FlowSave("idle", d), d.status \in {"ReadyToInstall", "WaitingForAppExit"},
         d.headers = Flow.headers, d.dmg = Flow.dmg, d.candidate = Flow.candidate,
         UNCHANGED <<upstream, sys, orphans>>
  PROVE  Tracked("flow", "idle", d)
<1>1. Aware(Flow, upstream, sys, concluded)
  BY FlowKnows
<1>2. ~ShouldRetry(Flow)
  BY DEF ShouldRetry, InstallIsPending
<1>3. d.headers <= upstream /\ d.dmg <= upstream /\ Dealt(d, upstream, concluded')
  BY <1>1, <1>2 DEF Aware, Dealt
<1>4. Aware(d, upstream, sys, concluded')
  BY <1>3, OfferAware
<1>5. Loose("idle") /\ Ahead("idle")
  BY DEF Loose, Ahead, Checking, BuildPoints
<1> QED BY <1>4, <1>5, LooseFits, FlowWrites

\* Forgetting a dismissed dialog leaves the update what it is.
LEMMA OfferedEdits ==
  ASSUME Inv, NEW d \in {Flow, ClearAuthEvent(Flow)}, NEW s \in Status
  PROVE  LET e == WithStatus(d, s) IN
         /\ d \in Document /\ e.status = s /\ e.headers = Flow.headers
         /\ e.dmg = Flow.dmg /\ e.candidate = Flow.candidate
         /\ e.packageVerified = Flow.packageVerified
<1>1. d \in Document /\ d.packageVerified = Flow.packageVerified
  BY OfferEdits
<1>2. d.headers = Flow.headers /\ d.dmg = Flow.dmg /\ d.candidate = Flow.candidate
  BY Typing, TwinEdits DEF Twin
<1> QED BY <1>1, <1>2, StatusTracks

\* A usable package is handed back, waits for ChatGPT to exit, or is installed.
LEMMA UsableTracked ==
  ASSUME Inv, Followed, concluded \subseteq concluded', pc["flow"] = "offer",
         Offered, PackageUsable, UNCHANGED <<upstream, sys, orphans>>,
         NEW d \in {Flow, ClearAuthEvent(Flow)}
  PROVE  /\ FlowSave("idle", WithStatus(d, "ReadyToInstall")) =>
              \E to, e : Tracked("flow", to, e)
         /\ \A auto \in BOOLEAN :
              AskToClose(auto) => \E to, e : Tracked("flow", to, e)
         /\ TriggerInstall(d) => \E to, e : Tracked("flow", to, e)
<1>1. /\ pc["flow"] # "idle" /\ InstallIsPending(Flow)
      /\ Flow.status # "Installing"
  BY DEF Offered, InstallIsPending
<1>2. Flow \in Document /\ Aware(Flow, upstream, sys, concluded)
  BY <1>1, FlowKnows
<1>3. Flow.candidate # None => sys.dmg # Flow.dmg
  BY <1>1, <1>2 DEF Aware
<1>4. ASSUME FlowSave("idle", WithStatus(d, "ReadyToInstall"))
      PROVE  Tracked("flow", "idle", WithStatus(d, "ReadyToInstall"))
  <2> DEFINE e == WithStatus(d, "ReadyToInstall")
  <2>1. /\ e.status = "ReadyToInstall" /\ e.headers = Flow.headers /\ e.dmg = Flow.dmg
        /\ e.candidate = Flow.candidate
    BY OfferedEdits DEF Status
  <2>2. FlowSave("idle", e)
    BY <1>4
  <2> HIDE DEF e
  <2>3. Tracked("flow", "idle", e)
    BY <1>1, <1>3, <2>1, <2>2, OfferTracked
  <2> QED BY <2>3 DEF e
<1>5. ASSUME NEW auto \in BOOLEAN, AskToClose(auto)
      PROVE  Tracked("flow", "idle", WaitForAppExit(ClearAuthEvent(Flow), auto))
  <2> DEFINE c == ClearAuthEvent(Flow)
             e == WaitForAppExit(c, auto)
  <2>1. c \in Document /\ Twin(c, Flow)
    BY <1>2, OfferEdits, TwinEdits
  <2>2. FlowSave("idle", e)
    BY <1>5 DEF AskToClose
  <2> HIDE DEF c
  <2>3. /\ e.status = "WaitingForAppExit" /\ e.headers = Flow.headers
        /\ e.dmg = Flow.dmg /\ e.candidate = Flow.candidate
    BY <2>1 DEF WaitForAppExit, Twin, Document
  <2> HIDE DEF e
  <2>4. Tracked("flow", "idle", e)
    BY <1>1, <1>3, <2>2, <2>3, OfferTracked
  <2> QED BY <2>4 DEF e, c
<1>6. ASSUME TriggerInstall(d)
      PROVE  Tracked("flow", "authorize", WithStatus(d, "Installing"))
  <2> DEFINE e == WithStatus(d, "Installing")
  <2>1. /\ e.status = "Installing" /\ e.headers = Flow.headers /\ e.dmg = Flow.dmg
        /\ e.candidate = Flow.candidate /\ e.packageVerified = Flow.packageVerified
    BY OfferedEdits DEF Status
  <2>2. FlowSave("authorize", e)
    BY <1>6 DEF TriggerInstall
  <2> HIDE DEF e
  <2>3. /\ Flow.candidate # None /\ Flow.packageVerified.ver = Flow.candidate
        /\ Flow.packageVerified.dmg = Flow.dmg
    BY DEF PackageUsable, ReadyPackageBound
  <2>4. ~ShouldRetry(Flow)
    BY <1>1 DEF ShouldRetry, InstallIsPending
  <2>5. e.headers <= upstream /\ e.dmg <= upstream /\ Dealt(e, upstream, concluded')
    BY <1>2, <2>1, <2>4 DEF Aware, Dealt
  <2>6. Aware(e, upstream, sys, concluded')
    BY <1>3, <2>1, <2>3, <2>5, OfferAware
  <2>7. Established("authorize", e, upstream, sys, concluded', retry')
    BY <1>3, <2>1, <2>3 DEF Established, Checking, BuildPoints
  <2>8. disk' = e
    BY <2>2 DEF FlowSave, Save
  <2>9. Goto("flow", "authorize", e) /\ "flow" \in Updater /\ Fresh("authorize", e, sys)
    BY <2>2 DEF FlowSave, Save, Updater, Fresh
  <2>10. Tracked("flow", "authorize", e)
    BY <1>1, <2>6, <2>7, <2>8, <2>9 DEF Tracked
  <2> QED BY <2>10 DEF e
<1> QED BY <1>4, <1>5, <1>6

\* Every way to offer the pending package.
LEMMA OffersTracked ==
  ASSUME Inv, Followed, concluded \subseteq concluded', Offer
  PROVE  \E to, d : Tracked("flow", to, d)
<1>1. pc["flow"] = "offer" /\ pc["flow"] # "idle" /\ UNCHANGED <<upstream, sys, orphans>>
  BY DEF Offer, NothingToOffer, PackageUnusable, ReconcileReady, ReconcileStopWaiting,
         ReconcileAppOpen, ReconcileAppClosed, KeepsWaiting, InstallReadyAppOpen,
         InstallReadyAppClosed, Offering, At, world
<1>2. /\ Flow \in Document /\ Flow = mem["flow"] /\ Twin(Flow, Flow) /\ "flow" \in Updater
      /\ Twin(ClearAuthEvent(Flow), Flow)
  BY <1>1, FlowKnows, TwinEdits
<1>3. Loose("idle") /\ Ahead("idle")
  BY DEF Loose, Ahead, Checking, BuildPoints
<1>4. ASSUME FlowTo("idle", Flow) PROVE Tracked("flow", "idle", Flow)
  BY <1>1, <1>2, <1>3, <1>4, LooseFits, FlowCarries
<1>5. CASE NothingToOffer
  BY <1>4, <1>5 DEF NothingToOffer
<1>6. CASE PackageUnusable
  <2>1. Flow.status # "Installing" /\ FlowSave("idle", MarkFailed(Flow))
    BY <1>6 DEF PackageUnusable, Offered
  <2> QED BY <1>1, <2>1, FailTracked
<1>7. ASSUME Offered, PackageUsable,
             \/ BackToReady
             \/ \E auto \in BOOLEAN : AskToClose(auto)
             \/ FlowSave("idle", WithStatus(ClearAuthEvent(Flow), "ReadyToInstall"))
             \/ TriggerInstall(Flow)
             \/ TriggerInstall(ClearAuthEvent(Flow))
      PROVE  \E to, d : Tracked("flow", to, d)
  BY <1>1, <1>7, UsableTracked DEF BackToReady
<1>8. CASE ReconcileReady \/ ReconcileStopWaiting
  <2>1. /\ Offered /\ PackageUsable
        /\ BackToReady \/ AskToClose(TRUE)
    BY <1>8 DEF ReconcileReady, ReconcileStopWaiting, Offered
  <2> QED BY <1>7, <2>1
<1>9. CASE ReconcileAppOpen
  <2>1. Offered /\ PackageUsable
    BY <1>9 DEF ReconcileAppOpen, KeepsWaiting, Offered
  <2>2. CASE BackToReady
    BY <1>7, <2>1, <2>2
  <2>3. CASE Persist("flow", "idle", ClearAuthEvent(Flow))
    BY <1>1, <1>2, <1>3, <2>3, LooseFits, Carries DEF Fresh, Ahead
  <2> QED BY <1>9, <2>2, <2>3 DEF ReconcileAppOpen
<1>10. CASE ReconcileAppClosed
  <2>1. Offered /\ PackageUsable
    BY <1>10 DEF ReconcileAppClosed, KeepsWaiting, Offered
  <2>2. FlowTo("idle", Flow) \/ BackToReady \/ TriggerInstall(Flow)
    BY <1>10 DEF ReconcileAppClosed
  <2> QED BY <1>4, <1>7, <2>1, <2>2
<1>11. CASE InstallReadyAppOpen \/ InstallReadyAppClosed
  <2>1. Offered /\ PackageUsable
    BY <1>11 DEF InstallReadyAppOpen, InstallReadyAppClosed
  <2>2. \/ BackToReady \/ AskToClose(FALSE)
        \/ FlowSave("idle", WithStatus(ClearAuthEvent(Flow), "ReadyToInstall"))
        \/ TriggerInstall(ClearAuthEvent(Flow))
    BY <1>11 DEF InstallReadyAppOpen, InstallReadyAppClosed
  <2> QED BY <1>7, <2>1, <2>2
<1> QED BY <1>5, <1>6, <1>8, <1>9, <1>10, <1>11 DEF Offer

\* The exit status of the install.
LEMMA ObserveTracked ==
  ASSUME Inv, Followed, concluded \subseteq concluded', Observe
  PROVE  \E to, d : Tracked("flow", to, d)
<1>1. pc["flow"] # "idle" /\ UNCHANGED <<upstream, sys, orphans>>
  BY DEF Observe, ObserveInstalled, ObserveDenied, ObserveFailed, At, world
<1>2. /\ Flow \in Document /\ Aware(Flow, upstream, sys, concluded)
      /\ Established(pc["flow"], Flow, upstream, sys, concluded, retry)
  BY <1>1, FlowKnows
<1>3. Loose("idle") /\ Ahead("idle")
  BY DEF Loose, Ahead, Checking, BuildPoints
<1>4. CASE ObserveInstalled
  <2>1. FlowSave("idle", AfterInstall(Flow, sys.ver)) /\ pc["flow"] = "installed"
    BY <1>4 DEF ObserveInstalled, At
  <2>2. InstallIsPending(Flow)
    BY <1>2, <2>1 DEF Established, InstallIsPending
  <2>3. Aware(AfterInstall(Flow, sys.ver), upstream, sys, concluded')
    BY <1>2, <2>2, SettleAware
  <2> QED BY <1>1, <1>3, <2>1, <2>3, LooseFits, FlowWrites
<1>5. CASE ObserveDenied
  <2> DEFINE r == WithStatus(Flow, "ReadyToInstall")
             d == DeferInstall(Flow)
  <2>1. FlowSave("idle", d) /\ pc["flow"] = "denied"
    BY <1>5 DEF ObserveDenied, At
  <2>2. InstallIsPending(Flow) /\ sys.dmg # Flow.dmg
    BY <1>2, <2>1 DEF Established, InstallIsPending
  <2>3. /\ r \in Document /\ r.status = "ReadyToInstall" /\ r.headers = Flow.headers
        /\ r.dmg = Flow.dmg /\ r.candidate = Flow.candidate
    BY <1>2, StatusEdits, StatusTracks DEF Status
  <2>4. d = [r EXCEPT !.authEvents = @ \cup ({Flow.candidate} \ {None})]
    BY DEF DeferInstall
  <2> HIDE DEF r, d
  <2>5. /\ d.status = "ReadyToInstall" /\ d.headers = Flow.headers
        /\ d.dmg = Flow.dmg /\ d.candidate = Flow.candidate
    BY <2>3, <2>4 DEF Document
  <2> QED BY <1>1, <2>1, <2>2, <2>5, OfferTracked
<1>6. CASE ObserveFailed
  <2>1. FlowSave("idle", MarkFailed(Flow)) /\ pc["flow"] = "refused"
    BY <1>6 DEF ObserveFailed, At
  <2>2. sys.dmg # Flow.dmg
    BY <1>2, <2>1 DEF Established
  <2> QED BY <1>1, <2>1, <2>2, FailTracked
<1> QED BY <1>4, <1>5, <1>6 DEF Observe

\* Every step of the flow.
LEMMA FlowTracked ==
  ASSUME Inv, Orderly, Followed, RecordConcluded, FlowStep
  PROVE  \E to, d : Tracked("flow", to, d)
<1>1. concluded \subseteq concluded' /\ "flow" \in Updater
  BY Learns DEF Updater
<1> QED BY <1>1, SharedTracked, ResyncTracked, CheckTracked, MatchTracked, EndsTracked,
           BuildTracked, OffersTracked, ObserveTracked DEF FlowStep, Check

\* A dialog that ends without an install.
LEMMA UnansweredTracked ==
  ASSUME Inv, Followed, concluded \subseteq concluded',
         PrivilegedFailure("flow") \/ AuthenticationDenied("flow") \/ LaunchFails("flow")
  PROVE  \E to, d : Tracked("flow", to, d)
<1>1. PICK to \in {"refused", "denied", "idle"} : Answer("flow", to)
  BY DEF PrivilegedFailure, AuthenticationDenied, LaunchFails
<1>2. UNCHANGED <<upstream, sys, orphans>>
  BY DEF PrivilegedFailure, AuthenticationDenied, LaunchFails, world
<1>3. pc["flow"] = "authorize" /\ pc["flow"] # "idle" /\ Continue("flow", to, mem["flow"])
  BY <1>1 DEF Answer, At
<1>4. /\ "flow" \in Updater /\ Flow = mem["flow"] /\ Twin(Flow, Flow)
      /\ Established("authorize", Flow, upstream, sys, concluded, retry)
  BY <1>3, FlowKnows, TwinEdits
<1>5. Established(to, Flow, upstream, sys, concluded', retry')
  BY <1>4 DEF Established, Checking, BuildPoints
<1> QED BY <1>2, <1>3, <1>4, <1>5, Carries DEF Fresh

\* The installed package is the one the documents, which agree, offer.
LEMMA InstallFollowed ==
  ASSUME Inv, Orderly, Followed, concluded \subseteq concluded', PrivilegedInstall("flow")
  PROVE  Followed'
<1>1. /\ pc["flow"] = "authorize" /\ pc["flow"] # "idle"
      /\ Continue("flow", "installed", mem["flow"])
      /\ UNCHANGED <<orphans, upstream>> /\ sys' = mem["flow"].packageVerified
  BY DEF PrivilegedInstall, Answer, At, RequestOf
<1>2. pc \in [Proc -> FlowPoints \cup StatusPoints \cup RollbackPoints]
      /\ mem \in [Proc -> Sound]
  BY DEF Inv, PointsOK, DocsOK
<1>3. /\ pc'["flow"] = "installed" /\ mem'["flow"] = mem["flow"]
      /\ \A q \in Proc \ {"flow"} : pc'[q] = "idle"
      /\ UNCHANGED disk /\ Flow = mem["flow"] /\ disk = Flow
  BY <1>1, <1>2 DEF Continue, Goto, Orderly, OneAtATime, Proc, Flow, Followed
<1>4. /\ Aware(Flow, upstream, sys, concluded)
      /\ Established("authorize", Flow, upstream, sys, concluded, retry)
  BY <1>1, FlowKnows
<1>5. /\ Flow.status = "Installing" /\ Flow.candidate # None
      /\ sys'.ver = Flow.candidate
  BY <1>1, <1>3, <1>4 DEF Established
<1>6. Aware(Flow, upstream, sys', concluded')
  BY <1>4, <1>5 DEF Aware, Dealt, ShouldRetry, InstallIsPending
<1>7. Established("installed", Flow, upstream, sys', concluded', retry')
  BY <1>5 DEF Established, Checking, BuildPoints
<1>8. \A p \in Updater : pc'[p] # "idle" => p = "flow"
  BY <1>3 DEF Updater, Proc
<1>9. mem'["flow"] = Flow /\ disk' = Flow /\ upstream' = upstream /\ orphans' = {}
      /\ pc'["rollback"] = "idle"
  BY <1>1, <1>3 DEF Followed, Proc
<1> QED BY <1>3, <1>6, <1>7, <1>8, <1>9 DEF Followed, Fresh, Flow

-----------------------------------------------------------------------------
(* Every step, and the theorem.                                            *)

\* A process that is started has loaded the saved document.
LEMMA StartedFollowed ==
  ASSUME Inv, Followed, concluded \subseteq concluded', NEW p \in Updater, Started(p),
         UNCHANGED <<upstream, sys, orphans>>
  PROVE  Followed'
<1>1. /\ pc'[p] = "sync" /\ \A q \in Proc \ {p} : pc'[q] = "idle"
      /\ mem'[p] = disk /\ UNCHANGED disk
  BY DEF Inv, PointsOK, DocsOK, Started, Goto, AllIdleBut, Updater, Proc
<1>2. Aware(disk, upstream, sys, concluded')
  BY TwinAware DEF Followed, Twin
<1>3. Loose("sync") /\ Loose("idle") /\ Fresh("sync", disk, sys)
  BY DEF Loose, Checking, BuildPoints, Fresh
<1>4. pc'["flow"] \in {"sync", "idle"} /\ pc'["rollback"] = "idle"
  BY <1>1 DEF Updater, Proc
<1>5. /\ Established(pc'["flow"], mem'["flow"], upstream', sys', concluded', retry')
      /\ pc'["flow"] # "authorize"
  BY <1>3, <1>4, LooseFits
<1>6. \A q \in Updater : pc'[q] # "idle" => q = p
  BY <1>1 DEF Updater, Proc
<1> QED BY <1>1, <1>2, <1>3, <1>4, <1>5, <1>6 DEF Followed, Flow

\* About a newer DMG no document says anything yet.
LEMMA NewerAware ==
  ASSUME NEW d \in Document, NEW u \in Dmg, NEW v \in Dmg, v >= u,
         NEW s, NEW c, NEW c2, c \subseteq c2, Aware(d, u, s, c)
  PROVE  Aware(d, v, s, c2)
<1>1. d.headers \in Nat /\ d.dmg \in Nat /\ u \in Nat /\ v \in Nat
  BY CountsAssumption DEF Document, DmgOrNone, Dmg
<1>2. d.headers <= u /\ d.dmg <= u /\ (v # u => d.headers # v /\ d.dmg # v)
  BY <1>1 DEF Aware
<1>3. Dealt(d, u, c) => Dealt(d, v, c2)
  BY <1>2 DEF Dealt
<1>4. d.headers <= v /\ d.dmg <= v
  BY <1>1, <1>2
<1> QED BY <1>3, <1>4 DEF Aware

\* So what the flow has established holds for it as well.
LEMMA PublishFollowed ==
  ASSUME Inv, Followed, concluded \subseteq concluded', upstream' >= upstream, Publish
  PROVE  Followed'
<1>1. UNCHANGED <<disk, mem, pc, retry, orphans, sys>> /\ upstream' \in Replaces[upstream]
  BY DEF Publish, docs
<1>2. upstream \in Dmg /\ upstream' \in Dmg /\ upstream' >= upstream
  BY <1>1, EnvironmentAssumption DEF Inv, WorldOK, CountsOK, Dmg
<1>3. Aware(disk, upstream', sys, concluded')
  BY <1>2, Typing, NewerAware DEF Followed
<1>4. ASSUME NEW p \in Updater, pc[p] # "idle"
      PROVE  Aware(mem[p], upstream', sys, concluded') /\ Fresh(pc[p], mem[p], sys)
  BY <1>2, <1>4, Knows, NewerAware
<1>5. Established(pc["flow"], Flow, upstream', sys, concluded', retry)
  <2>1. CASE pc["flow"] = "idle"
    BY <2>1, LooseFits DEF Loose, Checking, BuildPoints
  <2>2. CASE pc["flow"] # "idle"
    <3>1. /\ Flow \in Document /\ Aware(Flow, upstream, sys, concluded)
          /\ Established(pc["flow"], Flow, upstream, sys, concluded, retry)
      BY <2>2, FlowKnows
    <3>2. /\ Flow.headers \in Nat /\ Flow.dmg \in Nat /\ Flow.dmgVerified \in Nat
          /\ upstream \in Nat /\ upstream' \in Nat
      BY <1>2, <3>1, CountsAssumption DEF Document, DmgOrNone, Dmg
    <3>3. /\ Flow.headers <= upstream /\ Flow.dmg <= upstream
          /\ upstream' # upstream => Flow.headers # upstream' /\ Flow.dmg # upstream'
      BY <1>2, <3>1, <3>2 DEF Aware
    <3>4. Dealt(Flow, upstream, concluded) => Dealt(Flow, upstream', concluded')
      BY <3>3 DEF Dealt
    <3>5. pc["flow"] = "match" => /\ Flow.dmgVerified <= upstream'
                                  /\ Flow.headers = upstream' => Flow.dmgVerified = upstream'
      BY <1>2, <3>1, <3>2, <3>3 DEF Established
    <3>6. pc["flow"] \in BuildPoints => (Flow.headers = upstream' => Flow.dmg = upstream')
      BY <3>1, <3>3 DEF Established
    <3>7. pc["flow"] \in Checking /\ ~retry =>
            /\ Flow.candidate = None
            /\ Flow.dmg = upstream' /\ upstream' \in Trusted => upstream' \in concluded'
      BY <3>1, <3>3 DEF Established
    <3> QED BY <3>1, <3>4, <3>5, <3>6, <3>7 DEF Established
  <2> QED BY <2>1, <2>2
<1> QED BY <1>1, <1>3, <1>4, <1>5 DEF Followed, Flow

\* Followed is inductive while there is no mishap.
LEMMA NextFollowed ==
  ASSUME Inv, Orderly, Followed, HNext, mishaps' = {}
  PROVE  Followed'
<1>1. concluded \subseteq concluded' /\ Next /\ RecordConcluded
  BY Learns DEF HNext
<1>14. /\ OneAtATime' /\ orphans' = {} /\ ~InstallByHand /\ upstream' >= upstream
      /\ pc'["rollback"] = "idle"
  <2>1. "rollback" \in Mishap /\ "rollback" \notin mishaps' /\ RecordMishaps
    BY DEF Mishap, HNext
  <2>2. ~Occurs("rollback")
    BY <2>1, Recorded
  <2> QED BY <2>2, NoMishap, NoOverlap DEF Occurs
<1>2. ASSUME NEW p, NEW to, NEW d, Tracked(p, to, d) PROVE Followed'
  BY <1>1, <1>2, TrackedKeeps
<1>3. ASSUME NEW k \in Kinds, StartFlow(k) PROVE Followed'
  <2>1. Started("flow") /\ "flow" \in Updater /\ UNCHANGED <<upstream, sys, orphans>>
    <3>1. "flow" \in Proc /\ "flow" \in Updater
      BY DEF Proc, Updater
    <3>2. AllIdleBut("flow")
      BY <1>3, <1>14, <3>1, StartsAlone DEF StartFlow
    <3> QED BY <1>3, <3>1, <3>2 DEF StartFlow, Started, Continue, world
  <2> QED BY <1>1, <2>1, StartedFollowed
<1>4. ASSUME NEW p \in Commands \cap Proc, StartCommand(p) PROVE Followed'
  <2>1. Started(p) /\ p \in Updater /\ UNCHANGED <<upstream, sys, orphans>>
    <3>1. AllIdleBut(p)
      BY <1>4, <1>14, StartsAlone DEF StartCommand
    <3>2. pc'[p] = "sync"
      BY <1>4 DEF StartCommand, Continue, Goto, Inv, PointsOK
    <3>3. p \in Updater
      BY <1>14, <3>2 DEF Updater, Proc
    <3> QED BY <1>4, <3>1, <3>3 DEF StartCommand, Started, Continue
  <2> QED BY <1>1, <2>1, StartedFollowed
<1>5. CASE FlowStep
  BY <1>1, <1>2, <1>5, FlowTracked
<1>6. CASE StatusStep
  BY <1>1, <1>2, <1>6, SharedTracked DEF StatusStep, Updater
<1>7. ~RollbackStep /\ ~Privileged("rollback")
  BY DEF RollbackStep, SyncEntry, RollbackRefused, RollbackPackageGone, RollbackUnverified,
         TriggerRollback, ObserveRolledBack, ObserveRollbackDenied, ObserveRollbackFailed,
         Privileged, PrivilegedInstall, PrivilegedFailure, AuthenticationDenied,
         LaunchFails, Answer, At, Followed
<1>8. CASE Privileged("flow")
  <2>1. CASE PrivilegedInstall("flow")
    BY <1>1, <2>1, InstallFollowed
  <2>2. CASE PrivilegedFailure("flow") \/ AuthenticationDenied("flow") \/ LaunchFails("flow")
    BY <1>1, <1>2, <2>2, UnansweredTracked
  <2> QED BY <1>8, <2>1, <2>2 DEF Privileged
<1>9. ASSUME NEW p \in Proc, Crash(p) PROVE Followed'
  <2>1. p \in Updater /\ pc[p] # "idle"
    BY <1>9 DEF Crash, At, Followed, Updater, Proc
  <2>2. Continue(p, "idle", mem[p]) /\ UNCHANGED <<upstream, sys, orphans>>
    BY <1>9, <1>14 DEF Crash, Followed
  <2>3. Twin(mem[p], mem[p]) /\ Fresh("idle", mem[p], sys) /\ Loose("idle")
    BY DEF Twin, Fresh, Loose, Checking, BuildPoints
  <2>4. Tracked(p, "idle", mem[p])
    BY <1>1, <2>1, <2>2, <2>3, LooseFits, Carries
  <2> QED BY <1>2, <2>4
<1>10. CASE Publish
  BY <1>1, <1>14, <1>10, PublishFollowed
<1>11. CASE OpenApp \/ CloseApp
  <2>1. UNCHANGED <<disk, mem, pc, retry, orphans, sys, upstream>>
    BY <1>11 DEF OpenApp, CloseApp, docs
  <2>2. Aware(disk, upstream, sys, concluded')
    BY <1>1, TwinAware DEF Followed, Twin
  <2>3. ASSUME NEW p \in Updater, pc[p] # "idle"
        PROVE  Aware(mem[p], upstream, sys, concluded') /\ Fresh(pc[p], mem[p], sys)
    BY <1>1, <2>3, TwinAware DEF Followed, Twin
  <2>4. Established(pc["flow"], Flow, upstream, sys, concluded', retry)
    BY <1>1 DEF Followed, Established, Dealt
  <2> QED BY <2>1, <2>2, <2>3, <2>4 DEF Followed, Flow
<1>12. ~InstallByHand /\ ~OrphanEnds
  BY <1>14 DEF OrphanEnds, Followed
<1>13. (\E p \in Installer : Privileged(p)) => Privileged("flow") \/ Privileged("rollback")
  BY DEF Installer
<1> QED BY <1>1, <1>3, <1>4, <1>5, <1>6, <1>7, <1>8, <1>9, <1>10, <1>11, <1>12, <1>13
        DEF Next, Environment

\* In the first state nobody has learned of any DMG.
LEMMA HInitFollowed == HInit => Followed
<1> SUFFICES ASSUME HInit PROVE Followed
  OBVIOUS
<1>1. Init
  BY DEF HInit
<1>2. \A p \in Proc : pc[p] = "idle"
  BY <1>1 DEF Init
<1>3. upstream \in Nat /\ upstream # None
  BY <1>1, CountsAssumption DEF Init, Dmg, None
<1>4. Aware(NewDocument, upstream, sys, concluded)
  BY <1>3 DEF NewDocument, Aware, Dealt, None, ShouldRetry, InstallIsPending
<1>5. Established("idle", Flow, upstream, sys, concluded, retry)
  BY LooseFits DEF Loose, Checking, BuildPoints
<1> QED BY <1>1, <1>2, <1>4, <1>5 DEF Followed, Init, Proc, Updater

(* In every behaviour, until processes overlap, somebody rolls back or     *)
(* installs by hand, a child outlives its parent or an older DMG replaces  *)
(* a newer one, a trusted DMG is skipped as unchanged only after it was    *)
(* built, found installed or found blocked - whatever failed or crashed on *)
(* the way, and whatever was published meanwhile.                          *)
THEOREM NothingIsSkipped == HSpec => []NoSkippedUpdate
<1> DEFINE Good == mishaps = {} => Orderly /\ Followed
<1>1. Good => NoSkippedUpdate
  BY DEF Followed, Aware, Dealt, WouldSkip, NoSkippedUpdate
<1>2. Inv /\ Good /\ [HNext]_hvars => Good'
  <2>1. ASSUME Inv, Good, [HNext]_hvars, mishaps' = {} PROVE Orderly' /\ Followed'
    <3>1. mishaps = {}
      BY <2>1 DEF HNext, RecordMishaps, hvars, history
    <3>2. Orderly'
      BY <2>1, <3>1, HNextKeeps
    <3>3. CASE HNext
      BY <2>1, <3>1, <3>2, <3>3, NextFollowed
    <3>4. CASE UNCHANGED hvars
      <4>1. UNCHANGED <<disk, mem, pc, retry, orphans, sys, upstream, concluded>>
        BY <3>4 DEF hvars, vars, docs, world, history
      <4>2. Followed'
        BY <2>1, <3>1, <4>1 DEF Followed, Aware, Dealt, Established, Fresh, Flow
      <4> QED BY <3>2, <4>2
    <3> QED BY <2>1, <3>3, <3>4
  <2> QED BY <2>1
<1>3. HInit => Good
  BY HInitHolds, HInitFollowed
<1> QED BY <1>1, <1>2, <1>3, HistorySpec, PTL DEF HSpec

-----------------------------------------------------------------------------
(* What is retained for a rollback, and what a rollback blocks.            *)

\* Each DMG has versions of its own.
OwnVersions ==
  \A a, b \in Dmg : a # b =>
    {ManifestVersion[a], BundleVersion[a]} \cap {ManifestVersion[b], BundleVersion[b]} = {}

\* A version that blocks a DMG blocks the older ones too.
BlocksOlder ==
  \A v \in VersionOrNone, a, b \in Dmg : a <= b =>
    \A w \in {ManifestVersion[b], DownloadVersion[b]} :
      VersionBlocks(v, w) =>
        VersionBlocks(v, ManifestVersion[a]) \/ VersionBlocks(v, DownloadVersion[a])

\* A package has a version of its DMG, and a build if it lies in a workspace.
Genuine(pkg) ==
  /\ pkg.dmg = None => pkg.ver = None
  /\ pkg.dmg # None => pkg.ver \in {ManifestVersion[pkg.dmg], BundleVersion[pkg.dmg]}
  /\ pkg.at # None => pkg.build # 0

\* What the document d retains was installed, c being the builds that were,
\* and is recorded with its version.
Retains(d, c) ==
  /\ Genuine(d.rollbackVerified) /\ d.rollbackVerified.dmg <= d.dmg
  /\ d.rollbackVerified.at # None => d.rollbackVerified.build \in c
  /\ d.rollbackVerified # NoPackage => d.knownGood = d.rollbackVerified.ver

\* No DMG from a candidate's on is blocked.
Unblocked(d) ==
  d.candidate # None =>
    d.dmg # None /\ \A e \in Dmg : d.dmg <= e => ~BlockedByRollback(d, e)

\* What the document d says, whatever is installed, when u is served.
Traced(d, u, c) ==
  /\ d.blockedDmg <= d.dmg /\ d.dmg <= u
  /\ Genuine(d.packageVerified) /\ d.packageVerified.dmg <= d.dmg
  /\ Retains(d, c)
  /\ Unblocked(d)

(***************************************************************************)
(* What it says of the installed package s: the package it names is that   *)
(* one, unless it has a candidate of another version; who can roll back    *)
(* has nothing newer installed than the document knows; and the DMG r that *)
(* was rolled back is blocked, or is older.                                *)
(***************************************************************************)
Matches(d, s, r) ==
  /\ d.package # None /\ d.candidate \in {None, s.ver} => d.packageVerified = s
  /\ d.rollbackVerified # NoPackage => s.dmg <= d.dmg
  /\ r < d.dmg \/ r = None \/ (r = d.dmg /\ r = d.blockedDmg)

\* What the process p has established at the point "to".
Grounded(p, to, d, u, s, r) ==
  /\ p # "rollback" /\ to \notin {"idle", "sync", "installed"} => d.installed = s.ver
  /\ to = "match" => d.dmg <= d.dmgVerified /\ d.dmgVerified <= u
  /\ to \in BuildPoints =>
       /\ s.dmg # d.dmg /\ d.dmg \in Dmg
       /\ d.candidate \in {ManifestVersion[d.dmg], BundleVersion[d.dmg]}
  /\ p = "flow" /\ to \in {"authorize", "installed"} =>
       d.candidate # None /\ d.candidate = d.packageVerified.ver
  /\ p = "flow" /\ to = "installed" => d.packageVerified = s
  /\ p = "rollback" /\ to = "authorize" => d.rollbackVerified # NoPackage
  /\ p = "rollback" /\ to = "installed" =>
       d.rollbackVerified = s /\ d.rollbackVerified # NoPackage /\ r <= d.dmg

\* The rolled back package is installed, and no document says so yet.
RollingBack == pc["rollback"] = "installed"

Faithful ==
  /\ orphans = {}
  /\ Genuine(sys) /\ (sys.build # 0 => sys.build \in wasInstalled)
  /\ rolledBack \in DmgOrNone
  /\ Traced(disk, upstream, wasInstalled)
  /\ RollingBack \/ Matches(disk, sys, rolledBack)
  /\ \A p \in Proc : pc[p] # "idle" =>
       /\ Traced(mem[p], upstream, wasInstalled)
       /\ RollingBack \/ Matches(mem[p], sys, rolledBack)
       /\ Grounded(p, pc[p], mem[p], upstream, sys, rolledBack)
  /\ pc["flow"] = "authorize" => disk = Flow

\* A process at work edits its document, and perhaps writes it.
Edited(p, to, d) ==
  /\ pc[p] # "idle"
  /\ Goto(p, to, d) /\ disk' \in {disk, d}
  /\ Traced(d, upstream, wasInstalled) /\ Matches(d, sys, rolledBack)
  /\ Grounded(p, to, d, upstream, sys, rolledBack)
  /\ RollingBack \/ (p = "flow" /\ to = "authorize") => disk' = d
  /\ UNCHANGED <<upstream, sys, orphans>>

\* Two documents that say the same of packages, candidates and blocks.
Alike(d, e) ==
  /\ d.candidate = e.candidate /\ d.dmg = e.dmg
  /\ d.package = e.package /\ d.packageVerified = e.packageVerified
  /\ d.rollbackVerified = e.rollbackVerified /\ d.knownGood = e.knownGood
  /\ d.blockedVersion = e.blockedVersion /\ d.blockedDmg = e.blockedDmg

\* and of what is installed.
Near(d, e) == Alike(d, e) /\ d.installed = e.installed

\* Points at which a process has established no more than what is installed.
Free(to) == to \notin BuildPoints \cup {"match", "authorize", "installed"}

-----------------------------------------------------------------------------
(* The edits of a document, as far as this goes.                           *)

\* DMGs are numbers.
LEMMA Numbers ==
  ASSUME NEW d \in Document
  PROVE  /\ d.dmg \in Nat /\ d.blockedDmg \in Nat /\ d.dmgVerified \in Nat
         /\ d.packageVerified.dmg \in Nat /\ d.rollbackVerified.dmg \in Nat
         /\ d.packageVerified \in Package /\ d.rollbackVerified \in Package
BY CountsAssumption DEF Document, Package, DmgOrNone

\* No package is genuine.
LEMMA NoneGenuine ==
  Genuine(NoPackage) /\ NoPackage.dmg = None /\ NoPackage.at = None
BY DEF Genuine, NoPackage

\* No version of another DMG is that of a genuine package.
LEMMA OtherVersion ==
  ASSUME OwnVersions, NEW s \in Package, Genuine(s), NEW v \in Dmg, s.dmg # v,
         NEW w \in {ManifestVersion[v], BundleVersion[v]}
  PROVE  w # None /\ w # s.ver
<1>1. w # None
  BY ManifestAssumption DEF Dmg, None
<1>2. s.dmg # None => s.dmg \in Dmg
  BY DEF Package, DmgOrNone, Dmg, None
<1> QED BY <1>1, <1>2 DEF Genuine, OwnVersions

\* What is alike in both respects.
LEMMA AlikeTold ==
  ASSUME NEW d, NEW e, Alike(d, e), NEW u, NEW s, NEW r, NEW c
  PROVE  /\ Traced(e, u, c) => Traced(d, u, c)
         /\ Matches(e, s, r) => Matches(d, s, r)
<1>1. Unblocked(e) => Unblocked(d)
  BY DEF Alike, Unblocked, BlockedByRollback
<1>2. Retains(e, c) => Retains(d, c)
  BY DEF Alike, Retains
<1>3. Traced(e, u, c) => Traced(d, u, c)
  BY <1>1, <1>2 DEF Alike, Traced
<1>4. Matches(e, s, r) => Matches(d, s, r)
  BY DEF Alike, Matches
<1> QED BY <1>3, <1>4

\* Being alike, in either sense, is transitive.
LEMMA AlikeChain ==
  ASSUME NEW d, NEW e, NEW f
  PROVE  /\ Alike(d, e) /\ Alike(e, f) => Alike(d, f)
         /\ Near(d, e) /\ Near(e, f) => Near(d, f)
BY DEF Alike, Near

\* The edits that leave all this alone.
LEMMA NearEdits ==
  ASSUME NEW d \in Document, NEW v, NEW x, NEW b
  PROVE  /\ Near(d, d)
         /\ Near(WithStatus(d, x), d)
         /\ Near([d EXCEPT !.status = x], d)
         /\ Near(NormalizeWorkspace(d), d)
         /\ Near(ClearAuthEvent(d), d)
         /\ Near(WaitForAppExit(d, b), d)
         /\ Near([d EXCEPT !.headers = v], d)
         /\ Near([d EXCEPT !.dmgVerified = v], d)
<1>1. /\ Near(d, d) /\ Near(WithStatus(d, x), d) /\ Near([d EXCEPT !.status = x], d)
      /\ Near(NormalizeWorkspace(d), d)
  BY DEF Near, Alike, WithStatus, NormalizeWorkspace, Document
<1>2. /\ Near(ClearAuthEvent(d), d) /\ Near(WaitForAppExit(d, b), d)
      /\ Near([d EXCEPT !.headers = v], d) /\ Near([d EXCEPT !.dmgVerified = v], d)
  BY DEF Near, Alike, ClearAuthEvent, WaitForAppExit, Document
<1> QED BY <1>1, <1>2

\* Refreshing the installed version.
LEMMA InstalledEdits ==
  ASSUME NEW d \in Document, NEW v
  PROVE  /\ Alike(SyncRuntime(d, v), d) /\ SyncRuntime(d, v).installed = v
         /\ Alike([d EXCEPT !.installed = v], d) /\ [d EXCEPT !.installed = v].installed = v
BY DEF Alike, SyncRuntime, Document

\* A dismissed dialog.
LEMMA DeferNear == ASSUME NEW d \in Document PROVE Near(DeferInstall(d), d)
<1> DEFINE r == WithStatus(d, "ReadyToInstall")
<1>1. r \in Document /\ Near(r, d)
  BY StatusEdits, NearEdits DEF Status
<1>2. DeferInstall(d) = [r EXCEPT !.authEvents = @ \cup ({d.candidate} \ {None})]
  BY DEF DeferInstall
<1> HIDE DEF r
<1> QED BY <1>1, <1>2 DEF Near, Alike, Document

\* Settling forgets the package unless it is the installed one, which was not
\* rolled back: what has a candidate is not blocked.
LEMMA SettleTold ==
  ASSUME NEW d \in Document, NEW u \in Nat, NEW s \in Package, NEW r \in DmgOrNone, NEW c,
         Traced(d, u, c), Matches(d, s, r), d.candidate # None, d.installed = s.ver
  PROVE  /\ Traced(Settle(d), u, c) /\ Matches(Settle(d), s, r)
         /\ Settle(d).installed = d.installed
<1> DEFINE e == Settle(d)
<1>1. /\ e.candidate = None /\ e.dmg = d.dmg /\ e.installed = d.installed
      /\ e.blockedDmg = None
  BY DEF Settle, ClearRollbackBlock, WithStatus, NormalizeWorkspace, Document
<1>2. /\ e.rollbackVerified = d.rollbackVerified /\ e.knownGood = d.knownGood
      /\ IF d.installed # d.candidate THEN e.package = None /\ e.packageVerified = NoPackage
         ELSE e.package = d.package /\ e.packageVerified = d.packageVerified
  BY DEF Settle, ClearRollbackBlock, WithStatus, NormalizeWorkspace, Document
<1> HIDE DEF e
<1>3. Retains(e, c) /\ Unblocked(e)
  BY <1>1, <1>2 DEF Traced, Retains, Unblocked
<1>4. None <= d.dmg
  BY Numbers DEF None
<1>5. Genuine(e.packageVerified) /\ e.packageVerified.dmg <= d.dmg
  BY <1>2, <1>4, NoneGenuine DEF Traced
<1>6. Traced(e, u, c)
  BY <1>1, <1>3, <1>4, <1>5 DEF Traced
<1>7. d.dmg \in Dmg /\ d.dmg <= d.dmg
  BY Numbers DEF Traced, Unblocked, Document, DmgOrNone, Dmg, None
<1>8. r < d.dmg \/ r = None
  BY <1>7 DEF Matches, Traced, Unblocked, BlockedByRollback
<1>9. e.package # None => e.packageVerified = s
  BY <1>2 DEF Matches
<1>10. Matches(e, s, r)
  BY <1>1, <1>2, <1>8, <1>9 DEF Matches
<1> QED BY <1>1, <1>6, <1>10 DEF e

\* A package that was the candidate becomes the installed one.
LEMMA AfterInstallTold ==
  ASSUME NEW d \in Document, NEW u \in Nat, NEW s \in Package, NEW r \in DmgOrNone, NEW c,
         Traced(d, u, c), Matches(d, s, r), d.candidate # None, d.packageVerified = s, NEW v
  PROVE  Traced(AfterInstall(d, v), u, c) /\ Matches(AfterInstall(d, v), s, r)
<1> DEFINE e == AfterInstall(d, v)
<1>1. e.candidate = None /\ e.dmg = d.dmg /\ e.blockedDmg = None
  BY DEF AfterInstall, ClearRollbackBlock, WithStatus, NormalizeWorkspace, Document
<1>2. /\ e.rollbackVerified = d.rollbackVerified /\ e.knownGood = d.knownGood
      /\ e.packageVerified = d.packageVerified
  BY DEF AfterInstall, ClearRollbackBlock, WithStatus, NormalizeWorkspace, Document
<1> HIDE DEF e
<1>3. Retains(e, c) /\ Unblocked(e)
  BY <1>1, <1>2 DEF Traced, Retains, Unblocked
<1>4. None <= d.dmg
  BY Numbers DEF None
<1>5. Traced(e, u, c)
  BY <1>1, <1>2, <1>3, <1>4 DEF Traced
<1>6. d.dmg \in Dmg /\ d.dmg <= d.dmg
  BY Numbers DEF Traced, Unblocked, Document, DmgOrNone, Dmg, None
<1>7. r < d.dmg \/ r = None
  BY <1>6 DEF Matches, Traced, Unblocked, BlockedByRollback
<1>8. Matches(e, s, r)
  BY <1>1, <1>2, <1>7 DEF Matches
<1> QED BY <1>5, <1>8 DEF e

\* A newer DMG takes the place of the one that was known.
LEMMA LaterDmg ==
  ASSUME NEW d \in Document, NEW u \in Nat, NEW s \in Package, NEW r \in DmgOrNone, NEW c,
         Traced(d, u, c), Matches(d, s, r), NEW v \in Nat, d.dmg <= v
  PROVE  /\ d.blockedDmg <= v /\ d.packageVerified.dmg <= v /\ d.rollbackVerified.dmg <= v
         /\ d.rollbackVerified # NoPackage => s.dmg <= v
         /\ r < v \/ r = None \/ (r = v /\ r = d.blockedDmg)
<1>1. r \in Nat /\ s.dmg \in Nat
  BY CountsAssumption DEF DmgOrNone, Package
<1>2. d.blockedDmg <= v /\ d.packageVerified.dmg <= v /\ d.rollbackVerified.dmg <= v
  BY Numbers DEF Traced, Retains
<1>3. d.rollbackVerified # NoPackage => s.dmg <= v
  BY <1>1, Numbers DEF Matches
<1>4. r < v \/ r = None \/ (r = v /\ r = d.blockedDmg)
  BY <1>1, Numbers DEF Matches
<1> QED BY <1>2, <1>3, <1>4

\* Clearing the candidate forgets its package.
LEMMA ClearTold ==
  ASSUME NEW d \in Document, NEW u \in Nat, NEW s \in Package, NEW r \in DmgOrNone, NEW c,
         Traced(d, u, c), Matches(d, s, r), NEW v \in Nat, d.dmg <= v, v <= u
  PROVE  /\ Traced(ClearCandidate(d, v), u, c) /\ Matches(ClearCandidate(d, v), s, r)
         /\ ClearCandidate(d, v).installed = d.installed
<1> DEFINE e == ClearCandidate(d, v)
<1>1. /\ e.candidate = None /\ e.dmg = v /\ e.installed = d.installed
      /\ e.blockedDmg = d.blockedDmg /\ e.package = None
  BY DEF ClearCandidate, WithStatus, NormalizeWorkspace, Document
<1>2. /\ e.rollbackVerified = d.rollbackVerified /\ e.knownGood = d.knownGood
      /\ e.packageVerified = d.packageVerified
  BY DEF ClearCandidate, WithStatus, NormalizeWorkspace, Document
<1> HIDE DEF e
<1>3. Retains(e, c) /\ Unblocked(e)
  BY <1>1, <1>2, LaterDmg DEF Traced, Retains, Unblocked
<1>4. Traced(e, u, c)
  BY <1>1, <1>2, <1>3, LaterDmg DEF Traced
<1>5. Matches(e, s, r)
  BY <1>1, <1>2, LaterDmg DEF Matches
<1> QED BY <1>1, <1>4, <1>5 DEF e

\* A blocked DMG finds no candidate, so the package named is the installed one.
LEMMA BlockedTold ==
  ASSUME NEW d \in Document, NEW u \in Nat, NEW s \in Package, NEW r \in DmgOrNone, NEW c,
         Traced(d, u, c), Matches(d, s, r), NEW v \in Dmg, d.dmg <= v, v <= u,
         BlockedByRollback(d, v),
         NEW e, e.candidate = None, e.dmg = v, e.blockedDmg = d.blockedDmg,
         e.package = d.package, e.packageVerified = d.packageVerified,
         e.rollbackVerified = d.rollbackVerified, e.knownGood = d.knownGood
  PROVE  Traced(e, u, c) /\ Matches(e, s, r)
<1>1. v \in Nat /\ d.candidate = None
  BY DEF Dmg, Traced, Unblocked
<1>2. Retains(e, c) /\ Unblocked(e)
  BY <1>1, LaterDmg DEF Traced, Retains, Unblocked
<1>3. Traced(e, u, c)
  BY <1>1, <1>2, LaterDmg DEF Traced
<1>4. Matches(e, s, r)
  BY <1>1, LaterDmg DEF Matches
<1> QED BY <1>3, <1>4

\* What is recorded as known good is the installed package.
LEMMA KnownGoodTold ==
  ASSUME NEW d \in Document, NEW u \in Nat, NEW s \in Package, NEW r \in DmgOrNone, NEW c,
         Traced(d, u, c), Matches(d, s, r), d.installed = s.ver,
         Genuine(s), s.build # 0 => s.build \in c, NEW f
  PROVE  LET k == RecordKnownGood(f, d)
         IN  /\ Retains(k, c) /\ k.rollbackVerified \in Package
             /\ k.rollbackVerified # NoPackage => s.dmg <= d.dmg
             /\ k.candidate = d.candidate /\ k.dmg = d.dmg /\ k.installed = d.installed
             /\ k.package = d.package /\ k.packageVerified = d.packageVerified
             /\ k.blockedDmg = d.blockedDmg /\ k.blockedVersion = d.blockedVersion
<1> DEFINE k == RecordKnownGood(f, d)
<1>1. /\ k.candidate = d.candidate /\ k.dmg = d.dmg /\ k.installed = d.installed
      /\ k.package = d.package /\ k.packageVerified = d.packageVerified
      /\ k.blockedDmg = d.blockedDmg /\ k.blockedVersion = d.blockedVersion
  BY DEF RecordKnownGood, Document
<1>2. \/ k = d
      \/ /\ d.candidate = None /\ d.package # None
         /\ k.knownGood = d.installed
         /\ k.rollbackVerified \in {d.packageVerified, NoPackage}
  BY DEF RecordKnownGood, Document
<1> HIDE DEF k
<1>3. CASE k = d
  BY <1>1, <1>3, Numbers DEF Traced, Matches, k
<1>4. CASE /\ d.candidate = None /\ d.package # None
           /\ k.knownGood = d.installed
           /\ k.rollbackVerified \in {d.packageVerified, NoPackage}
  <2>1. d.packageVerified = s /\ s.dmg <= d.dmg
    BY <1>4 DEF Traced, Matches
  <2>2. None <= d.dmg
    BY Numbers DEF None
  <2>3. Retains(k, c)
    BY <1>1, <1>4, <2>1, <2>2, NoneGenuine DEF Retains, Genuine
  <2>4. k.rollbackVerified \in Package
    BY <1>4, Numbers, NoneTyped
  <2> QED BY <1>1, <2>1, <2>3, <2>4 DEF k
<1> QED BY <1>2, <1>3, <1>4

\* The update found is of a DMG that is not blocked, nor is any newer one, and
\* of another version than the installed one.
LEMMA DetectTold ==
  ASSUME OwnVersions, BlocksOlder,
         NEW d \in Document, NEW u \in Nat, NEW s \in Package, NEW r \in DmgOrNone, NEW c,
         Traced(d, u, c), Matches(d, s, r), d.installed = s.ver,
         Genuine(s), s.build # 0 => s.build \in c, NEW f,
         NEW v \in Dmg, d.dmg <= v, v <= u, ~BlockedByRollback(d, v), s.dmg # v,
         NEW k, k = RecordKnownGood(f, d),
         NEW e, e.candidate = ManifestVersion[v], e.dmg = v,
         e.package = k.package, e.packageVerified = k.packageVerified,
         e.rollbackVerified = k.rollbackVerified, e.knownGood = k.knownGood,
         e.blockedDmg = k.blockedDmg, e.blockedVersion = k.blockedVersion
  PROVE  Traced(e, u, c) /\ Matches(e, s, r) /\ v # r
<1>1. /\ Retains(k, c) /\ k.rollbackVerified \in Package
      /\ k.rollbackVerified # NoPackage => s.dmg <= d.dmg
      /\ k.dmg = d.dmg
      /\ k.packageVerified = d.packageVerified
      /\ k.blockedDmg = d.blockedDmg /\ k.blockedVersion = d.blockedVersion
  BY KnownGoodTold
<1>2. /\ v \in Nat /\ s.dmg \in Nat /\ r \in Nat /\ d.dmg \in Nat /\ d.blockedDmg \in Nat
      /\ v # None
  BY CountsAssumption, Numbers DEF Dmg, DmgOrNone, Package, None
<1>3. d.blockedDmg <= d.dmg /\ d.blockedDmg # v
  BY DEF Traced, BlockedByRollback
<1>4. k.rollbackVerified.dmg <= v
  <2>1. k.rollbackVerified.dmg \in Nat
    BY <1>1, CountsAssumption DEF Package, DmgOrNone
  <2>2. k.rollbackVerified.dmg <= d.dmg
    BY <1>1 DEF Retains
  <2> QED BY <1>2, <2>1, <2>2
<1>5. Retains(e, c)
  BY <1>1, <1>4 DEF Retains
<1>6. ASSUME NEW a \in Dmg, v <= a PROVE ~BlockedByRollback(e, a)
  <2>1. a \in Nat /\ e.blockedDmg # a
    <3>1. a \in Nat
      BY DEF Dmg
    <3>2. d.blockedDmg < v
      BY <1>2, <1>3
    <3> QED BY <1>1, <1>2, <1>6, <3>1, <3>2
  <2>2. d.blockedVersion \in VersionOrNone /\ e.blockedVersion = d.blockedVersion
    BY <1>1 DEF Document
  <2>3. /\ ~VersionBlocks(d.blockedVersion, ManifestVersion[v])
        /\ ~VersionBlocks(d.blockedVersion, DownloadVersion[v])
    BY DEF BlockedByRollback
  <2>4. /\ ~VersionBlocks(d.blockedVersion, ManifestVersion[a])
        /\ ~VersionBlocks(d.blockedVersion, DownloadVersion[a])
    BY <1>6, <2>2, <2>3 DEF BlocksOlder
  <2> QED BY <2>1, <2>2, <2>4 DEF BlockedByRollback
<1>7. Unblocked(e)
  BY <1>2, <1>6 DEF Unblocked
<1>8. Traced(e, u, c)
  <2>1. Genuine(d.packageVerified) /\ d.packageVerified.dmg <= v
    BY <1>2, LaterDmg DEF Traced
  <2>2. d.blockedDmg <= v
    BY <1>2, <1>3
  <2> QED BY <1>1, <1>5, <1>7, <2>1, <2>2 DEF Traced
<1>9. e.candidate # None /\ e.candidate # s.ver
  BY OtherVersion
<1>10. e.rollbackVerified # NoPackage => s.dmg <= v
  BY <1>1, <1>2
<1>11. r < v \/ r = None
  <2>1. d.blockedDmg < v
    BY <1>2, <1>3
  <2> QED BY <1>2, <2>1, LaterDmg
<1>12. Matches(e, s, r)
  BY <1>9, <1>10, <1>11 DEF Matches
<1> QED BY <1>1, <1>2, <1>8, <1>11, <1>12

\* While it is built, its version, and the package, are of that DMG.
LEMMA BuildTold ==
  ASSUME OwnVersions,
         NEW d \in Document, NEW u \in Nat, NEW s \in Package, NEW r \in DmgOrNone, NEW c,
         Traced(d, u, c), Matches(d, s, r), Genuine(s),
         s.dmg # d.dmg, d.dmg \in Dmg,
         d.candidate \in {ManifestVersion[d.dmg], BundleVersion[d.dmg]},
         NEW e, e.dmg = d.dmg,
         e.candidate \in {ManifestVersion[d.dmg], BundleVersion[d.dmg]},
         Genuine(e.packageVerified), e.packageVerified.dmg <= d.dmg,
         e.rollbackVerified = d.rollbackVerified, e.knownGood = d.knownGood,
         e.blockedVersion = d.blockedVersion, e.blockedDmg = d.blockedDmg
  PROVE  Traced(e, u, c) /\ Matches(e, s, r)
<1>1. d.candidate # None
  BY OtherVersion
<1>2. e.candidate # None /\ e.candidate # s.ver
  BY OtherVersion
<1>3. Unblocked(e)
  BY <1>1 DEF Traced, Unblocked, BlockedByRollback
<1>4. Retains(e, c)
  BY DEF Traced, Retains
<1>5. Traced(e, u, c)
  BY <1>3, <1>4 DEF Traced
<1>6. Matches(e, s, r)
  BY <1>2 DEF Matches
<1> QED BY <1>5, <1>6

\* A retained package that is gone is forgotten.
LEMMA GoneTold ==
  ASSUME NEW d \in Document, NEW u \in Nat, NEW s \in Package, NEW r \in DmgOrNone, NEW c,
         Traced(d, u, c), Matches(d, s, r),
         NEW e, e.candidate = d.candidate, e.dmg = d.dmg,
         e.package = d.package, e.packageVerified = d.packageVerified,
         e.rollbackVerified = NoPackage,
         e.blockedDmg = d.blockedDmg, e.blockedVersion = d.blockedVersion
  PROVE  Traced(e, u, c) /\ Matches(e, s, r)
<1>1. None <= d.dmg
  BY Numbers DEF None
<1>2. Retains(e, c)
  BY <1>1, NoneGenuine DEF Retains
<1>3. Unblocked(e)
  BY DEF Traced, Unblocked, BlockedByRollback
<1>4. Traced(e, u, c)
  BY <1>2, <1>3 DEF Traced
<1>5. Matches(e, s, r)
  BY DEF Matches
<1> QED BY <1>4, <1>5

\* The end of a rollback names the package that is installed again, and blocks
\* the DMG it knew.
LEMMA AfterRollbackTold ==
  ASSUME NEW d \in Document, NEW u \in Nat, NEW s \in Package, NEW r \in DmgOrNone, NEW c,
         Traced(d, u, c), d.rollbackVerified = s, d.rollbackVerified # NoPackage, r <= d.dmg
  PROVE  Traced(AfterRollback(d, s.ver), u, c) /\ Matches(AfterRollback(d, s.ver), s, r)
<1> DEFINE e == AfterRollback(d, s.ver)
<1>1. /\ e.candidate = None /\ e.dmg = d.dmg /\ e.blockedDmg = d.dmg
      /\ e.packageVerified = d.rollbackVerified
      /\ e.rollbackVerified = d.rollbackVerified /\ e.knownGood = s.ver
  BY DEF AfterRollback, NormalizeWorkspace, Document
<1> HIDE DEF e
<1>2. d.dmg \in Nat /\ r \in Nat
  BY CountsAssumption, Numbers DEF DmgOrNone
<1>3. Retains(e, c) /\ Unblocked(e)
  BY <1>1 DEF Traced, Retains, Unblocked
<1>4. Genuine(s) /\ s.dmg <= d.dmg
  BY DEF Traced, Retains
<1>5. Traced(e, u, c)
  BY <1>1, <1>2, <1>3, <1>4 DEF Traced
<1>6. Matches(e, s, r)
  BY <1>1, <1>2, <1>4 DEF Matches
<1> QED BY <1>5, <1>6 DEF e

-----------------------------------------------------------------------------
(* A process that edits its document keeps every document faithful.        *)

\* What a process at work knows.
LEMMA Tells ==
  ASSUME Inv, Orderly, Faithful, NEW p \in Proc, pc[p] # "idle", ~RollingBack
  PROVE  /\ mem[p] \in Document /\ upstream \in Nat
         /\ sys \in Package /\ rolledBack \in DmgOrNone
         /\ Traced(mem[p], upstream, wasInstalled) /\ Matches(mem[p], sys, rolledBack)
         /\ Grounded(p, pc[p], mem[p], upstream, sys, rolledBack)
         /\ Genuine(sys) /\ (sys.build # 0 => sys.build \in wasInstalled)
BY Typing DEF Faithful, Inv, WorldOK, SysOK, CountsOK, Dmg

\* The flow and the status command never run while a rollback does.
LEMMA NoRollingBack ==
  ASSUME Orderly, NEW p \in Updater, pc[p] # "idle"
  PROVE  p \in Proc /\ ~RollingBack
BY DEF Orderly, OneAtATime, RollingBack, Updater, Proc

\* The history of a step that installs nothing.
LEMMA NothingInstalled ==
  ASSUME Faithful, RecordRolledBack, RecordInstalled, UNCHANGED sys
  PROVE  UNCHANGED <<rolledBack, wasInstalled>>
BY DEF Faithful, RecordRolledBack, RecordInstalled

\* An edit keeps Faithful.
LEMMA EditedKeeps ==
  ASSUME Inv, Orderly, Faithful, RecordRolledBack, RecordInstalled,
         NEW p \in Proc, NEW to, NEW d, Edited(p, to, d)
  PROVE  Faithful'
<1>1. pc \in [Proc -> FlowPoints \cup StatusPoints \cup RollbackPoints]
      /\ mem \in [Proc -> Sound]
  BY DEF Inv, PointsOK, DocsOK
<1>2. UNCHANGED <<upstream, sys, orphans, rolledBack, wasInstalled>>
  BY NothingInstalled DEF Edited
<1>3. /\ pc'[p] = to /\ \A q \in Proc \ {p} : pc'[q] = pc[q] /\ pc[q] = "idle"
      /\ to # "idle" => mem'[p] = d
  BY <1>1 DEF Edited, Goto, Orderly, OneAtATime
<1>5. Traced(disk', upstream, wasInstalled) /\ Matches(disk', sys, rolledBack)
  BY DEF Faithful, Edited
<1>6. ASSUME NEW q \in Proc, pc'[q] # "idle"
      PROVE  /\ Traced(mem'[q], upstream, wasInstalled) /\ Matches(mem'[q], sys, rolledBack)
             /\ Grounded(q, pc'[q], mem'[q], upstream, sys, rolledBack)
  BY <1>3, <1>6 DEF Edited
<1>7. pc'["flow"] = "authorize" => disk' = mem'["flow"]
  BY <1>3 DEF Edited, Proc
<1>8. /\ orphans' = {} /\ Genuine(sys') /\ (sys'.build # 0 => sys'.build \in wasInstalled')
      /\ rolledBack' \in DmgOrNone
  BY <1>2 DEF Faithful
<1> QED BY <1>2, <1>5, <1>6, <1>7, <1>8 DEF Faithful, Flow

\* A point where a process knows no more than what is installed.
LEMMA FreeFits ==
  ASSUME NEW p \in Updater, NEW to, Free(to), NEW d, NEW u, NEW s, NEW r, d.installed = s.ver
  PROVE  Grounded(p, to, d, u, s, r)
BY DEF Free, Grounded, Updater

\* A process that ends has nothing to establish.
LEMMA EndFits ==
  ASSUME NEW p, NEW d, NEW u, NEW s, NEW r PROVE Grounded(p, "idle", d, u, s, r)
BY DEF Grounded, BuildPoints

\* A process goes on with a document that says the same, saved or not.
LEMMA Proceeds ==
  ASSUME Inv, Orderly, Faithful, NEW p \in Proc, pc[p] # "idle", ~RollingBack,
         NEW to, NEW d, Alike(d, mem[p]),
         Continue(p, to, d) \/ Save(p, to, d) \/ Persist(p, to, d),
         p = "flow" /\ to = "authorize" => Save(p, to, d),
         Grounded(p, to, d, upstream, sys, rolledBack),
         UNCHANGED <<upstream, sys, orphans>>
  PROVE  Edited(p, to, d)
<1>1. Traced(d, upstream, wasInstalled) /\ Matches(d, sys, rolledBack)
  BY Tells, AlikeTold
<1>2. Goto(p, to, d) /\ disk' \in {disk, d}
  BY DEF Continue, Save, Persist
<1>3. p = "flow" /\ to = "authorize" => disk' = d
  BY DEF Save
<1> QED BY <1>1, <1>2, <1>3 DEF Edited

\* A process writes a document that says something else.
LEMMA Rewrites ==
  ASSUME NEW p \in Proc, pc[p] # "idle", NEW to, NEW d, Save(p, to, d),
         Traced(d, upstream, wasInstalled), Matches(d, sys, rolledBack),
         Grounded(p, to, d, upstream, sys, rolledBack),
         UNCHANGED <<upstream, sys, orphans>>
  PROVE  Edited(p, to, d)
BY DEF Edited, Save

-----------------------------------------------------------------------------
(* The steps the processes share are edits.                                *)

\* Refreshing the installed version.
LEMMA SyncEdited ==
  ASSUME Inv, Orderly, Faithful, NEW p \in Proc, SyncEntry(p)
  PROVE  \E to, d : Edited(p, to, d)
<1> DEFINE d == IF p = "flow" THEN SyncRuntime(mem[p], sys.ver)
                              ELSE [mem[p] EXCEPT !.installed = sys.ver]
<1>1. pc[p] = "sync" /\ Persist(p, AfterSync(p), d) /\ UNCHANGED world
  BY DEF SyncEntry, At
<1>2. ~RollingBack
  BY <1>1 DEF Orderly, OneAtATime, RollingBack, Proc
<1>3. Alike(d, mem[p]) /\ d.installed = sys.ver
  BY Typing, InstalledEdits
<1>4. AfterSync(p) \in {"current", "decide", "gate", "resync", "recover"}
  BY DEF AfterSync, Proc
<1> HIDE DEF d
<1>5. Grounded(p, AfterSync(p), d, upstream, sys, rolledBack)
  BY <1>3, <1>4 DEF Grounded, BuildPoints
<1> QED BY <1>1, <1>2, <1>3, <1>4, <1>5, Proceeds DEF world

\* Taking up an interrupted install.
LEMMA RecoverEdited ==
  ASSUME Inv, Orderly, Faithful, NEW p \in Updater, pc[p] # "idle",
         NEW d \in Document, Alike(d, mem[p]), d.installed = sys.ver,
         NEW to, Free(to), NEW toIfFailed, Free(toIfFailed),
         RecoverInterrupted(p, d, to, toIfFailed), UNCHANGED <<upstream, sys, orphans>>
  PROVE  \E point, e : Edited(p, point, e)
<1>1. p \in Proc /\ ~RollingBack
  BY NoRollingBack
<1>2. /\ upstream \in Nat /\ sys \in Package /\ rolledBack \in DmgOrNone
      /\ Traced(d, upstream, wasInstalled) /\ Matches(d, sys, rolledBack)
  BY <1>1, Tells, AlikeTold
<1>3. ASSUME NEW point, Free(point), NEW e, Near(e, d),
             Continue(p, point, e) \/ Save(p, point, e)
      PROVE  Edited(p, point, e)
  <2>1. Alike(e, mem[p]) /\ e.installed = sys.ver
    BY <1>3, AlikeChain DEF Near
  <2>2. Grounded(p, point, e, upstream, sys, rolledBack)
    BY <1>3, <2>1, FreeFits
  <2>3. point # "authorize"
    BY <1>3 DEF Free
  <2> QED BY <1>1, <1>3, <2>1, <2>2, <2>3, Proceeds
<1>4. CASE d.status # "Installing"
  <2>1. Continue(p, to, d)
    BY <1>4 DEF RecoverInterrupted
  <2> QED BY <1>3, <2>1, NearEdits
<1>5. CASE d.status = "Installing" /\ Satisfies(d.installed, d.candidate)
  <2>1. Save(p, to, Settle(d)) /\ d.candidate # None
    BY <1>5 DEF RecoverInterrupted, SettleAndPrune, Satisfies
  <2>2. /\ Traced(Settle(d), upstream, wasInstalled) /\ Matches(Settle(d), sys, rolledBack)
        /\ Settle(d).installed = sys.ver
    BY <1>2, <2>1, SettleTold
  <2> QED BY <1>1, <2>1, <2>2, FreeFits, Rewrites
<1>6. CASE /\ d.status = "Installing"
           /\ ~Satisfies(d.installed, d.candidate)
           /\ PackageMissing(d)
  <2>1. Save(p, toIfFailed, MarkFailed(d))
    BY <1>6 DEF RecoverInterrupted
  <2> QED BY <1>3, <2>1, NearEdits DEF MarkFailed
<1>7. CASE /\ d.status = "Installing"
           /\ ~Satisfies(d.installed, d.candidate)
           /\ ~PackageMissing(d)
  <2> DEFINE r == WithStatus(d, "ReadyToInstall")
             e == NormalizeWorkspace(r)
  <2>1. Save(p, to, e)
    BY <1>7 DEF RecoverInterrupted
  <2>2. r \in Document /\ Near(r, d)
    BY StatusEdits, NearEdits DEF Status
  <2> HIDE DEF r
  <2>3. Near(e, d)
    BY <2>2, NearEdits, AlikeChain
  <2> QED BY <1>3, <2>1, <2>3
<1> QED BY <1>4, <1>5, <1>6, <1>7

\* The steps of Shared.
LEMMA SharedEdited ==
  ASSUME Inv, Orderly, Faithful, NEW p \in Updater, Shared(p)
  PROVE  \E to, d : Edited(p, to, d)
<1>1. pc[p] \in {"sync", "recover", "current", "pending", "normalize"} /\ pc[p] # "idle"
      /\ UNCHANGED <<upstream, sys, orphans>>
  BY DEF Shared, SyncEntry, Recover, CompleteCurrent, CompletePending, Normalize, At, world
<1>2. p \in Proc /\ ~RollingBack /\ p # "rollback"
  BY <1>1, NoRollingBack DEF Updater
<1>3. /\ mem[p] \in Document /\ upstream \in Nat
      /\ sys \in Package /\ rolledBack \in DmgOrNone
      /\ Traced(mem[p], upstream, wasInstalled) /\ Matches(mem[p], sys, rolledBack)
      /\ pc[p] # "sync" => mem[p].installed = sys.ver
  BY <1>1, <1>2, Tells DEF Grounded
<1>4. ASSUME NEW to, Free(to), NEW d, Near(d, mem[p]), pc[p] # "sync",
             Continue(p, to, d) \/ Persist(p, to, d)
      PROVE  Edited(p, to, d)
  <2>1. Alike(d, mem[p]) /\ d.installed = sys.ver /\ to # "authorize"
    BY <1>3, <1>4 DEF Near, Free
  <2> QED BY <1>1, <1>2, <1>4, <2>1, FreeFits, Proceeds
<1>5. ASSUME NEW to, Free(to), NEW d, Save(p, to, d), d.installed = sys.ver,
             Traced(d, upstream, wasInstalled), Matches(d, sys, rolledBack)
      PROVE  Edited(p, to, d)
  BY <1>1, <1>2, <1>5, FreeFits, Rewrites
<1>6. CASE SyncEntry(p)
  BY <1>2, <1>6, SyncEdited
<1>7. CASE Recover(p)
  <2> DEFINE failed == IF p = "flow" /\ kind = "install_ready" THEN "idle"
                       ELSE AfterRecover(p)
  <2>1. RecoverInterrupted(p, mem[p], AfterRecover(p), failed) /\ pc[p] = "recover"
    BY <1>7 DEF Recover, At
  <2>2. Free(AfterRecover(p)) /\ Free(failed)
    BY DEF Free, AfterRecover, BuildPoints
  <2>3. Alike(mem[p], mem[p])
    BY DEF Alike
  <2> HIDE DEF failed
  <2> QED BY <1>1, <1>3, <2>1, <2>2, <2>3, RecoverEdited
<1>8. CASE CompleteCurrent(p)
  <2> DEFINE m == mem[p]
             e == ClearCandidate(m, m.dmg)
             to == IF p = "flow" /\ kind = "install_ready" THEN "idle"
                   ELSE AfterCurrent(p)
  <2>1. Free(to) /\ Free(AfterCurrent(p))
    BY DEF Free, AfterCurrent, BuildPoints
  <2>2. pc[p] = "current"
    BY <1>8 DEF CompleteCurrent, At
  <2>3. Save(p, to, e) \/ Continue(p, AfterCurrent(p), m)
    BY <1>8 DEF CompleteCurrent
  <2>4. m.dmg \in Nat /\ m.dmg <= m.dmg /\ m.dmg <= upstream
    BY <1>3, Numbers DEF Traced
  <2>5. /\ Traced(e, upstream, wasInstalled) /\ Matches(e, sys, rolledBack)
        /\ e.installed = sys.ver
    BY <1>3, <2>2, <2>4, ClearTold
  <2>6. Near(m, mem[p])
    BY DEF Near, Alike
  <2> HIDE DEF to, e, m
  <2> QED BY <1>4, <1>5, <2>1, <2>2, <2>3, <2>5, <2>6
<1>9. CASE CompletePending(p)
  <2> DEFINE next == IF p = "status" THEN "recover" ELSE "offer"
             end == IF p = "status" THEN "recover" ELSE "idle"
             m == mem[p]
  <2>1. Free(next) /\ Free(end)
    BY DEF Free, BuildPoints
  <2>2. pc[p] = "pending"
    BY <1>9 DEF CompletePending, At
  <2>3. \/ m.candidate # None /\ Save(p, end, Settle(m))
        \/ Continue(p, next, m)
    BY <1>9 DEF CompletePending, SettleAndPrune, Satisfies
  <2>4. Near(m, mem[p])
    BY DEF Near, Alike
  <2>5. ASSUME m.candidate # None
        PROVE  /\ Traced(Settle(m), upstream, wasInstalled)
               /\ Matches(Settle(m), sys, rolledBack)
               /\ Settle(m).installed = sys.ver
    BY <1>3, <2>2, <2>5, SettleTold
  <2> HIDE DEF next, end, m
  <2> QED BY <1>4, <1>5, <2>1, <2>2, <2>3, <2>4, <2>5
<1>10. CASE Normalize(p)
  <2>1. Persist(p, AfterNormalize(p), NormalizeWorkspace(mem[p])) /\ pc[p] = "normalize"
    BY <1>10 DEF Normalize, At
  <2>2. Free(AfterNormalize(p))
    BY DEF Free, AfterNormalize, BuildPoints
  <2> QED BY <1>3, <1>4, <2>1, <2>2, NearEdits
<1> QED BY <1>6, <1>7, <1>8, <1>9, <1>10 DEF Shared

\* The start of a reconciliation.
LEMMA ResyncEdited ==
  ASSUME Inv, Orderly, Faithful, Resync
  PROVE  \E to, d : Edited("flow", to, d)
<1> DEFINE d == SyncRuntime(mem["flow"], sys.ver)
<1>1. mem["flow"] \in Sound /\ sys.ver \in VersionOrNone
  BY Reads DEF Proc
<1>2. d \in Document /\ Alike(d, mem["flow"]) /\ d.installed = sys.ver
  BY <1>1, InstalledVersionSound, InstalledEdits DEF Sound
<1>3. RecoverInterrupted("flow", d, "pending", "pending") /\ pc["flow"] # "idle"
      /\ UNCHANGED <<upstream, sys, orphans>>
  BY DEF Resync, At
<1> HIDE DEF d
<1>4. "flow" \in Updater /\ Free("pending")
  BY DEF Updater, Free, BuildPoints
<1> QED BY <1>2, <1>3, <1>4, RecoverEdited

-----------------------------------------------------------------------------
(* The steps of the flow are edits.                                        *)

\* What the flow knows at work.
LEMMA FlowTells ==
  ASSUME Inv, Orderly, Faithful, pc["flow"] # "idle"
  PROVE  /\ ~RollingBack /\ "flow" \in Updater /\ "flow" \in Proc
         /\ Flow = mem["flow"] /\ Flow \in Document /\ upstream \in Nat
         /\ sys \in Package /\ rolledBack \in DmgOrNone
         /\ Traced(Flow, upstream, wasInstalled) /\ Matches(Flow, sys, rolledBack)
         /\ Grounded("flow", pc["flow"], Flow, upstream, sys, rolledBack)
         /\ Genuine(sys) /\ (sys.build # 0 => sys.build \in wasInstalled)
<1>1. "flow" \in Updater /\ "flow" \in Proc /\ ~RollingBack
  BY NoRollingBack DEF Updater
<1>2. Flow = mem["flow"]
  BY DEF Flow
<1> QED BY <1>1, <1>2, Tells

\* The flow goes on, having established no more.
LEMMA FlowProceeds ==
  ASSUME Inv, Orderly, Faithful, pc["flow"] \notin {"idle", "sync", "installed"},
         NEW to, Free(to), NEW d, Near(d, Flow),
         FlowTo(to, d) \/ FlowSave(to, d) \/ Persist("flow", to, d),
         UNCHANGED <<upstream, sys, orphans>>
  PROVE  Edited("flow", to, d)
<1>1. Alike(d, mem["flow"]) /\ d.installed = sys.ver
  BY FlowTells DEF Near, Grounded
<1>2. Continue("flow", to, d) \/ Save("flow", to, d) \/ Persist("flow", to, d)
  BY DEF FlowTo, FlowSave
<1>3. Grounded("flow", to, d, upstream, sys, rolledBack) /\ to # "authorize"
  BY <1>1, FreeFits DEF Updater, Free
<1> QED BY <1>1, <1>2, <1>3, FlowTells, Proceeds

\* The flow writes a document that says something else.
LEMMA FlowRewrites ==
  ASSUME pc["flow"] # "idle", NEW to, NEW d, FlowSave(to, d),
         Traced(d, upstream, wasInstalled), Matches(d, sys, rolledBack),
         Grounded("flow", to, d, upstream, sys, rolledBack),
         UNCHANGED <<upstream, sys, orphans>>
  PROVE  Edited("flow", to, d)
BY Rewrites DEF FlowSave, Proc

\* The beginning of a check.
LEMMA CheckEdited ==
  ASSUME Inv, Orderly, Faithful,
         SkipPending \/ SkipFresh \/ PrepareUpstreamCheck \/ FetchMetadata
           \/ DownloadTrusted \/ DownloadUntrusted
  PROVE  \E to, d : Edited("flow", to, d)
<1>1. pc["flow"] \in {"gate", "head", "download"} /\ UNCHANGED <<upstream, sys, orphans>>
  BY DEF SkipPending, SkipFresh, PrepareUpstreamCheck, FetchMetadata,
         DownloadTrusted, DownloadUntrusted, At, world
<1>2. Flow \in Document
  BY <1>1, FlowTells
<1>3. ASSUME NEW to, Free(to), NEW d, Near(d, Flow), FlowTo(to, d) \/ FlowSave(to, d)
      PROVE  Edited("flow", to, d)
  BY <1>1, <1>3, FlowProceeds
<1>4. Free("prune") /\ Free("head") /\ Free("download") /\ Free("fail") /\ Near(Flow, Flow)
  BY DEF Free, BuildPoints, Near, Alike
<1>5. CASE SkipPending \/ SkipFresh
  BY <1>3, <1>4, <1>5 DEF SkipPending, SkipFresh
<1>6. CASE PrepareUpstreamCheck
  <2> DEFINE d == IF ShouldRetry(Flow) THEN Flow
                  ELSE [Flow EXCEPT !.status = "CheckingUpstream"]
  <2>1. Save("flow", "head", d)
    BY <1>6 DEF PrepareUpstreamCheck
  <2>2. Near(d, Flow)
    BY <1>2, NearEdits
  <2> HIDE DEF d
  <2>3. Alike(d, mem["flow"]) /\ d.installed = sys.ver
    BY <1>1, <2>2, FlowTells DEF Near, Grounded
  <2> QED BY <1>1, <1>4, <2>1, <2>3, FlowTells, FreeFits, Proceeds
<1>7. CASE FetchMetadata
  <2> DEFINE seen == [Flow EXCEPT !.headers = upstream]
  <2>1. \/ FlowSave("prune", WithStatus(seen, "Idle"))
        \/ FlowSave("download", WithStatus(seen, "DownloadingDmg"))
    BY <1>7 DEF FetchMetadata
  <2>2. upstream \in DmgOrNone
    BY ConstantsTyped DEF Inv, WorldOK, CountsOK
  <2>3. seen \in Document /\ Near(seen, Flow)
    BY <1>2, <2>2, NearEdits DEF Document
  <2> HIDE DEF seen
  <2>4. Near(WithStatus(seen, "Idle"), Flow) /\ Near(WithStatus(seen, "DownloadingDmg"), Flow)
    BY <2>3, NearEdits, AlikeChain
  <2> QED BY <1>3, <1>4, <2>1, <2>4
<1>8. CASE DownloadTrusted
  <2> DEFINE e == [Flow EXCEPT !.dmgVerified = upstream]
  <2>1. Continue("flow", "match", e) /\ pc["flow"] = "download"
    BY <1>8 DEF DownloadTrusted, FlowTo, At
  <2>2. Near(e, Flow) /\ e.dmgVerified = upstream
    BY <1>2, NearEdits DEF Document
  <2> HIDE DEF e
  <2>3. e.installed = sys.ver /\ Alike(e, mem["flow"]) /\ e.dmg = Flow.dmg
    BY <2>1, <2>2, FlowTells DEF Near, Alike, Grounded
  <2>4. e.dmg <= e.dmgVerified /\ e.dmgVerified <= upstream
    BY <1>1, <2>2, <2>3, FlowTells DEF Traced
  <2>5. Grounded("flow", "match", e, upstream, sys, rolledBack)
    BY <2>3, <2>4 DEF Grounded, BuildPoints
  <2> QED BY <1>1, <2>1, <2>3, <2>5, FlowTells, Proceeds
<1>9. CASE DownloadUntrusted
  <2>1. FlowTo("fail", [Flow EXCEPT !.dmgVerified = None])
    BY <1>9 DEF DownloadUntrusted
  <2> QED BY <1>2, <1>3, <1>4, <2>1, NearEdits
<1> QED BY <1>5, <1>6, <1>7, <1>8, <1>9

\* What the flow knows about the verified DMG.
LEMMA MatchTells ==
  ASSUME Inv, Orderly, Faithful, pc["flow"] = "match"
  PROVE  /\ Flow.dmgVerified \in Dmg /\ Flow.dmgVerified \in Nat
         /\ Flow.dmg <= Flow.dmgVerified /\ Flow.dmgVerified <= upstream
         /\ Flow.installed = sys.ver
<1>1. Flow.dmgVerified \in Trusted
  BY DEF Inv, ChainOK, Chained, Flow
<1>2. Flow.dmgVerified \in Dmg
  BY <1>1, ConstantsTyped
<1>3. Flow.dmgVerified \in Nat
  BY <1>2 DEF Dmg
<1> QED BY <1>2, <1>3, FlowTells DEF Grounded

\* A new update: it is not of the DMG that was rolled back.
LEMMA DetectEdited ==
  ASSUME OwnVersions, BlocksOlder, Inv, Orderly, Faithful, DetectUpdate
  PROVE  /\ \E to, d : Edited("flow", to, d)
         /\ Flow.dmgVerified # rolledBack
<1> DEFINE v == Flow.dmgVerified
           k == RecordKnownGood(files, Flow)
           e == [k EXCEPT !.status = "UpdateDetected", !.candidate = ManifestVersion[v],
                          !.dmg = v, !.authEvents = {}]
<1>1. /\ pc["flow"] = "match" /\ FlowSave("wipe", e)
      /\ UNCHANGED <<upstream, sys, orphans>>
      /\ sys.dmg # v /\ ~BlockedByRollback(Flow, v)
  BY DEF DetectUpdate, At, world
<1>2. Flow \in Sound
  BY Reads DEF Proc, Flow
<1>3. k \in Document
  BY <1>2, RecordKnownGoodSound DEF Sound
<1>4. v \in Dmg /\ Flow.dmg <= v /\ v <= upstream /\ Flow.installed = sys.ver
  BY <1>1, MatchTells
<1> HIDE DEF k, v
<1>5. /\ e.installed = k.installed /\ e.candidate = ManifestVersion[v] /\ e.dmg = v
      /\ e.package = k.package /\ e.packageVerified = k.packageVerified
      /\ e.rollbackVerified = k.rollbackVerified /\ e.knownGood = k.knownGood
      /\ e.blockedDmg = k.blockedDmg /\ e.blockedVersion = k.blockedVersion
  BY <1>3 DEF Document
<1> HIDE DEF e
<1>6. k = RecordKnownGood(files, Flow)
  BY DEF k
<1>7. /\ Flow \in Document /\ upstream \in Nat /\ sys \in Package /\ rolledBack \in DmgOrNone
      /\ Traced(Flow, upstream, wasInstalled) /\ Matches(Flow, sys, rolledBack)
      /\ Genuine(sys) /\ (sys.build # 0 => sys.build \in wasInstalled)
  BY <1>1, FlowTells
<1>8. Traced(e, upstream, wasInstalled) /\ Matches(e, sys, rolledBack) /\ v # rolledBack
  BY <1>1, <1>4, <1>5, <1>6, <1>7, DetectTold
<1>9. k.installed = Flow.installed
  BY <1>4, <1>6, <1>7, KnownGoodTold
<1>10. Grounded("flow", "wipe", e, upstream, sys, rolledBack)
  BY <1>1, <1>4, <1>5, <1>9 DEF Grounded, BuildPoints
<1> QED BY <1>1, <1>8, <1>10, FlowRewrites DEF v

\* What to do with the verified DMG.
LEMMA MatchEdited ==
  ASSUME OwnVersions, BlocksOlder, Inv, Orderly, Faithful,
         MatchInstalled \/ MatchBlocked \/ MatchKnown \/ DetectUpdate
  PROVE  \E to, d : Edited("flow", to, d)
<1>1. pc["flow"] = "match" /\ UNCHANGED <<upstream, sys, orphans>>
  BY DEF MatchInstalled, MatchBlocked, MatchKnown, DetectUpdate, At, world
<1>2. Free("prune") /\ "flow" \in Updater
  BY DEF Free, BuildPoints, Updater
<1>3. ASSUME NEW e, FlowSave("prune", e), Traced(e, upstream, wasInstalled),
             Matches(e, sys, rolledBack), e.installed = Flow.installed
      PROVE  Edited("flow", "prune", e)
  <2>1. e.installed = sys.ver
    BY <1>1, <1>3, MatchTells
  <2> QED BY <1>1, <1>2, <1>3, <2>1, FreeFits, FlowRewrites
<1>4. CASE MatchInstalled
  <2>1. FlowSave("prune", ClearCandidate(Flow, Flow.dmgVerified))
    BY <1>4 DEF MatchInstalled
  <2> QED BY <1>1, <1>3, <2>1, FlowTells, MatchTells, ClearTold
<1>5. CASE MatchBlocked
  <2> DEFINE e == [Flow EXCEPT !.candidate = None, !.dmg = Flow.dmgVerified, !.status = "Idle"]
  <2>1. FlowSave("prune", e) /\ BlockedByRollback(Flow, Flow.dmgVerified)
    BY <1>5 DEF MatchBlocked
  <2>2. /\ e.candidate = None /\ e.dmg = Flow.dmgVerified /\ e.installed = Flow.installed
        /\ e.package = Flow.package /\ e.packageVerified = Flow.packageVerified
        /\ e.rollbackVerified = Flow.rollbackVerified /\ e.knownGood = Flow.knownGood
        /\ e.blockedDmg = Flow.blockedDmg
    BY <1>1, FlowTells DEF Document
  <2> HIDE DEF e
  <2>3. /\ Flow \in Document /\ upstream \in Nat /\ sys \in Package
        /\ rolledBack \in DmgOrNone
        /\ Traced(Flow, upstream, wasInstalled) /\ Matches(Flow, sys, rolledBack)
        /\ Flow.dmgVerified \in Dmg /\ Flow.dmg <= Flow.dmgVerified
        /\ Flow.dmgVerified <= upstream
    BY <1>1, FlowTells, MatchTells
  <2>4. Traced(e, upstream, wasInstalled) /\ Matches(e, sys, rolledBack)
    BY <2>1, <2>2, <2>3, BlockedTold
  <2> QED BY <1>3, <2>1, <2>2, <2>4
<1>6. CASE MatchKnown
  <2>1. FlowSave("prune", [Flow EXCEPT !.status = "Idle"])
    BY <1>6 DEF MatchKnown
  <2>2. Near([Flow EXCEPT !.status = "Idle"], Flow)
    BY <1>1, FlowTells, NearEdits
  <2> QED BY <1>1, <1>2, <2>1, <2>2, FlowProceeds
<1>7. CASE DetectUpdate
  BY <1>7, DetectEdited
<1> QED BY <1>4, <1>5, <1>6, <1>7

\* A failure, and the end of a check.
LEMMA EndsEdited ==
  ASSUME Inv, Orderly, Faithful, StepFails \/ FailCheck \/ EndCheck
  PROVE  \E to, d : Edited("flow", to, d)
<1>1. pc["flow"] \notin {"idle", "sync", "installed"} /\ UNCHANGED <<upstream, sys, orphans>>
  BY DEF StepFails, FailCheck, EndCheck, At, world, BuildPoints
<1>2. /\ Flow \in Document /\ Near(Flow, Flow) /\ Near(MarkFailed(Flow), Flow)
      /\ Free("fail") /\ Free("idle") /\ Free("resync")
  BY <1>1, FlowTells, NearEdits DEF MarkFailed, Free, BuildPoints
<1>3. \/ FlowTo("fail", Flow) \/ FlowSave("idle", MarkFailed(Flow)) \/ FlowTo("idle", Flow)
      \/ Continue("flow", "resync", Flow)
  BY DEF StepFails, FailCheck, EndCheck
<1>4. CASE Continue("flow", "resync", Flow)
  <2>1. Alike(Flow, mem["flow"]) /\ Flow.installed = sys.ver
    BY <1>1, <1>2, FlowTells DEF Near, Grounded
  <2> QED BY <1>1, <1>2, <1>4, <2>1, FlowTells, FreeFits, Proceeds
<1> QED BY <1>1, <1>2, <1>3, <1>4, FlowProceeds

\* What the flow knows while it builds.
LEMMA BuildTells ==
  ASSUME Inv, Orderly, Faithful, pc["flow"] \in BuildPoints
  PROVE  /\ sys.dmg # Flow.dmg /\ Flow.dmg \in Dmg /\ Flow.installed = sys.ver
         /\ Flow.candidate \in {ManifestVersion[Flow.dmg], BundleVersion[Flow.dmg]}
BY FlowTells DEF Grounded, BuildPoints

\* The build keeps to the DMG and its versions.
LEMMA BuildEdited ==
  ASSUME OwnVersions, Inv, Orderly, Faithful, Build
  PROVE  \E to, d : Edited("flow", to, d)
<1>1. /\ pc["flow"] \in BuildPoints \cup {"checkversion"}
      /\ UNCHANGED <<upstream, sys, orphans>>
  BY DEF Build, WipeWorkspace, PrepareWorkspace, PatchApp, BuildPackage, FinishBuild,
         CheckBuiltVersion, At, world, BuildPoints
<1>2. pc["flow"] \notin {"idle", "sync", "installed"}
  BY <1>1 DEF BuildPoints
<1>3. Flow \in Document
  BY <1>2, FlowTells
<1>4. ASSUME NEW to, to \in BuildPoints \cup {"checkversion"}, NEW e,
             FlowTo(to, e) \/ FlowSave(to, e), Near(e, Flow), pc["flow"] \in BuildPoints
      PROVE  Edited("flow", to, e)
  <2>1. Grounded("flow", to, e, upstream, sys, rolledBack)
    BY <1>4, BuildTells DEF Grounded, Near, Alike, BuildPoints
  <2>2. Alike(e, mem["flow"]) /\ to # "authorize"
    BY <1>4 DEF Near, Flow, BuildPoints
  <2> QED BY <1>1, <1>2, <1>4, <2>1, <2>2, FlowTells, Proceeds DEF FlowTo, FlowSave
<1>5. ASSUME NEW to, to \in BuildPoints \cup {"checkversion"}, NEW e, FlowSave(to, e),
             pc["flow"] \in BuildPoints,
             e.dmg = Flow.dmg, e.installed = Flow.installed,
             e.candidate \in {ManifestVersion[Flow.dmg], BundleVersion[Flow.dmg]},
             Genuine(e.packageVerified), e.packageVerified.dmg <= Flow.dmg,
             e.rollbackVerified = Flow.rollbackVerified, e.knownGood = Flow.knownGood,
             e.blockedVersion = Flow.blockedVersion, e.blockedDmg = Flow.blockedDmg
      PROVE  Edited("flow", to, e)
  <2>1. Traced(e, upstream, wasInstalled) /\ Matches(e, sys, rolledBack)
    BY <1>2, <1>5, FlowTells, BuildTells, BuildTold
  <2>2. Grounded("flow", to, e, upstream, sys, rolledBack)
    BY <1>5, BuildTells DEF Grounded, BuildPoints
  <2> QED BY <1>1, <1>2, <1>5, <2>1, <2>2, FlowRewrites
<1>6. CASE WipeWorkspace
  <2>1. FlowTo("prepare", Flow) /\ pc["flow"] \in BuildPoints /\ Near(Flow, Flow)
    BY <1>6 DEF WipeWorkspace, At, BuildPoints, Near, Alike
  <2> QED BY <1>4, <2>1 DEF BuildPoints
<1>7. CASE PrepareWorkspace
  <2> DEFINE e == [Flow EXCEPT !.status = "PreparingWorkspace",
                               !.packageVerified = NoPackage,
                               !.workspace = Flow.candidate]
  <2>1. FlowSave("patch", e) /\ pc["flow"] \in BuildPoints
    BY <1>7 DEF PrepareWorkspace, At, BuildPoints
  <2>2. /\ e.dmg = Flow.dmg /\ e.installed = Flow.installed
        /\ e.candidate = Flow.candidate /\ e.packageVerified = NoPackage
        /\ e.rollbackVerified = Flow.rollbackVerified /\ e.knownGood = Flow.knownGood
        /\ e.blockedVersion = Flow.blockedVersion /\ e.blockedDmg = Flow.blockedDmg
    BY <1>3 DEF Document
  <2> HIDE DEF e
  <2>3. NoPackage.dmg <= Flow.dmg
    BY <1>3, Numbers, NoneGenuine DEF None
  <2> QED BY <1>5, <2>1, <2>2, <2>3, BuildTells, NoneGenuine DEF BuildPoints
<1>8. CASE PatchApp
  <2>1. FlowSave("package", [Flow EXCEPT !.status = "PatchingApp"]) /\ pc["flow"] \in BuildPoints
    BY <1>8 DEF PatchApp, At, BuildPoints
  <2>2. Near([Flow EXCEPT !.status = "PatchingApp"], Flow)
    BY <1>3, NearEdits
  <2> QED BY <1>4, <2>1, <2>2 DEF BuildPoints
<1>9. CASE BuildPackage
  <2> DEFINE e == [Flow EXCEPT !.status = "BuildingPackage",
                               !.candidate = BundleVersion[Flow.dmg]]
  <2>1. FlowSave("finish", e) /\ pc["flow"] \in BuildPoints
    BY <1>9 DEF BuildPackage, At, BuildPoints
  <2>2. /\ e.dmg = Flow.dmg /\ e.installed = Flow.installed
        /\ e.candidate = BundleVersion[Flow.dmg] /\ e.packageVerified = Flow.packageVerified
        /\ e.rollbackVerified = Flow.rollbackVerified /\ e.knownGood = Flow.knownGood
        /\ e.blockedVersion = Flow.blockedVersion /\ e.blockedDmg = Flow.blockedDmg
    BY <1>3 DEF Document
  <2> HIDE DEF e
  <2>3. Genuine(Flow.packageVerified) /\ Flow.packageVerified.dmg <= Flow.dmg
    BY <1>2, FlowTells DEF Traced
  <2> QED BY <1>5, <2>1, <2>2, <2>3 DEF BuildPoints
<1>10. CASE FinishBuild
  <2> DEFINE built == [dmg |-> Flow.dmg, ver |-> Flow.candidate,
                       build |-> builds + 1, at |-> Flow.workspace]
             e == [Flow EXCEPT !.status = "ReadyToInstall", !.package = Flow.workspace,
                               !.packageVerified = built]
  <2>1. FlowSave("checkversion", e) /\ pc["flow"] \in BuildPoints
    BY <1>10 DEF FinishBuild, At, BuildPoints
  <2>2. /\ e.dmg = Flow.dmg /\ e.installed = Flow.installed
        /\ e.candidate = Flow.candidate /\ e.packageVerified = built
        /\ e.rollbackVerified = Flow.rollbackVerified /\ e.knownGood = Flow.knownGood
        /\ e.blockedVersion = Flow.blockedVersion /\ e.blockedDmg = Flow.blockedDmg
    BY <1>3 DEF Document
  <2> HIDE DEF e
  <2>3. builds + 1 # 0 /\ Flow.dmg # None /\ Flow.dmg <= Flow.dmg
    BY <2>1, BuildTells DEF Inv, WorldOK, CountsOK, Dmg, None
  <2>4. Genuine(built) /\ built.dmg <= Flow.dmg
    BY <2>1, <2>3, BuildTells DEF Genuine
  <2> HIDE DEF built
  <2> QED BY <1>5, <2>1, <2>2, <2>4, BuildTells
<1>11. CASE CheckBuiltVersion
  <2>1. FlowTo("prune", Flow) \/ FlowSave("fail", MarkFailed(Flow))
    BY <1>11 DEF CheckBuiltVersion
  <2>2. Near(Flow, Flow) /\ Near(MarkFailed(Flow), Flow) /\ Free("prune") /\ Free("fail")
    BY <1>3, NearEdits DEF MarkFailed, Free, BuildPoints
  <2> QED BY <1>1, <1>2, <2>1, <2>2, FlowProceeds
<1> QED BY <1>6, <1>7, <1>8, <1>9, <1>10, <1>11 DEF Build

\* Offering the pending package: an install is asked for the one the document
\* has a candidate for.
LEMMA OfferEdited ==
  ASSUME Inv, Orderly, Faithful, Offer
  PROVE  \E to, d : Edited("flow", to, d)
<1>1. pc["flow"] = "offer" /\ UNCHANGED <<upstream, sys, orphans>>
  BY DEF Offer, NothingToOffer, PackageUnusable, ReconcileReady, ReconcileStopWaiting,
         ReconcileAppOpen, ReconcileAppClosed, KeepsWaiting, Offering,
         InstallReadyAppOpen, InstallReadyAppClosed, At, world
<1> DEFINE c == ClearAuthEvent(Flow)
<1>2. Flow \in Document /\ c \in Document
  BY <1>1, Typing, Reads, ClearAuthEventSound DEF Sound, Flow, Proc
<1>3. Near(Flow, Flow) /\ Near(c, Flow)
  BY <1>2, NearEdits
<1> HIDE DEF c
<1>4. ASSUME NEW d, Near(d, Flow),
             FlowTo("idle", d) \/ FlowSave("idle", d) \/ Persist("flow", "idle", d)
      PROVE  Edited("flow", "idle", d)
  BY <1>1, <1>4, FlowProceeds DEF Free, BuildPoints
<1>5. ASSUME NEW x \in {Flow, c}, NEW s
      PROVE  Near(WithStatus(x, s), Flow)
  <2>1. Near(WithStatus(x, s), x)
    BY <1>2, NearEdits
  <2> QED BY <1>3, <2>1, AlikeChain
<1>6. ASSUME NEW b PROVE Near(WaitForAppExit(c, b), Flow)
  <2>1. Near(WaitForAppExit(c, b), c)
    BY <1>2, NearEdits
  <2> QED BY <1>3, <2>1, AlikeChain
<1>7. ASSUME NEW x \in {Flow, c}, TriggerInstall(x), PackageUsable
      PROVE  Edited("flow", "authorize", WithStatus(x, "Installing"))
  <2> DEFINE e == WithStatus(x, "Installing")
  <2>1. Save("flow", "authorize", e)
    BY <1>7 DEF TriggerInstall, FlowSave
  <2>2. Near(e, Flow)
    BY <1>5
  <2> HIDE DEF e
  <2>3. Flow.candidate # None /\ Flow.candidate = Flow.packageVerified.ver
    BY <1>7 DEF PackageUsable, ReadyPackageBound
  <2>4. e.installed = sys.ver /\ Alike(e, mem["flow"])
    BY <1>1, <2>2, FlowTells DEF Near, Grounded
  <2>5. Grounded("flow", "authorize", e, upstream, sys, rolledBack)
    BY <2>2, <2>3, <2>4 DEF Grounded, Near, Alike, BuildPoints
  <2>6. Edited("flow", "authorize", e)
    BY <1>1, <2>1, <2>4, <2>5, FlowTells, Proceeds
  <2> QED BY <2>6 DEF e
<1>8. CASE NothingToOffer
  BY <1>3, <1>4, <1>8 DEF NothingToOffer
<1>9. CASE PackageUnusable
  BY <1>4, <1>5, <1>9 DEF PackageUnusable, MarkFailed
<1>10. CASE BackToReady
  BY <1>4, <1>5, <1>10 DEF BackToReady
<1>11. ASSUME NEW b, AskToClose(b) PROVE \E to, d : Edited("flow", to, d)
  BY <1>4, <1>6, <1>11 DEF AskToClose, c
<1>12. CASE ReconcileReady \/ ReconcileStopWaiting
  BY <1>10, <1>11, <1>12 DEF ReconcileReady, ReconcileStopWaiting
<1>13. CASE ReconcileAppOpen
  <2>1. BackToReady \/ Persist("flow", "idle", c)
    BY <1>13 DEF ReconcileAppOpen, c
  <2> QED BY <1>3, <1>4, <1>10, <2>1
<1>14. CASE ReconcileAppClosed
  <2>1. FlowTo("idle", Flow) \/ BackToReady \/ (TriggerInstall(Flow) /\ PackageUsable)
    BY <1>14 DEF ReconcileAppClosed, KeepsWaiting
  <2> QED BY <1>3, <1>4, <1>7, <1>10, <2>1
<1>15. CASE InstallReadyAppOpen
  BY <1>10, <1>11, <1>15 DEF InstallReadyAppOpen
<1>16. CASE InstallReadyAppClosed
  <2>1. \/ FlowSave("idle", WithStatus(c, "ReadyToInstall"))
        \/ TriggerInstall(c) /\ PackageUsable
    BY <1>16 DEF InstallReadyAppClosed, c
  <2> QED BY <1>4, <1>5, <1>7, <2>1
<1> QED BY <1>8, <1>9, <1>12, <1>13, <1>14, <1>15, <1>16 DEF Offer

\* The exit status of an install.
LEMMA ObserveEdited ==
  ASSUME Inv, Orderly, Faithful, Observe
  PROVE  \E to, d : Edited("flow", to, d)
<1>1. pc["flow"] # "idle" /\ UNCHANGED <<upstream, sys, orphans>>
  BY DEF Observe, ObserveInstalled, ObserveDenied, ObserveFailed, At, world
<1>2. Flow \in Document
  BY <1>1, FlowTells
<1>3. CASE ObserveInstalled
  <2>1. pc["flow"] = "installed" /\ FlowSave("idle", AfterInstall(Flow, sys.ver))
    BY <1>3 DEF ObserveInstalled, At
  <2>2. Flow.candidate # None /\ Flow.packageVerified = sys
    BY <1>1, <2>1, FlowTells DEF Grounded
  <2>3. /\ Traced(AfterInstall(Flow, sys.ver), upstream, wasInstalled)
        /\ Matches(AfterInstall(Flow, sys.ver), sys, rolledBack)
    BY <1>1, <2>2, FlowTells, AfterInstallTold
  <2> QED BY <1>1, <2>1, <2>3, EndFits, FlowRewrites
<1>4. CASE ObserveDenied \/ ObserveFailed
  <2>1. /\ pc["flow"] \in {"denied", "refused"}
        /\ FlowSave("idle", DeferInstall(Flow)) \/ FlowSave("idle", MarkFailed(Flow))
    BY <1>4 DEF ObserveDenied, ObserveFailed, At
  <2>2. Near(DeferInstall(Flow), Flow) /\ Near(MarkFailed(Flow), Flow) /\ Free("idle")
    BY <1>2, DeferNear, NearEdits DEF MarkFailed, Free, BuildPoints
  <2> QED BY <1>1, <2>1, <2>2, FlowProceeds
<1> QED BY <1>3, <1>4 DEF Observe

\* Every step of the flow.
LEMMA FlowEdited ==
  ASSUME OwnVersions, BlocksOlder, Inv, Orderly, Faithful, FlowStep
  PROVE  \E to, d : Edited("flow", to, d)
<1>1. "flow" \in Updater
  BY DEF Updater
<1> QED BY <1>1, SharedEdited, ResyncEdited, CheckEdited, MatchEdited, EndsEdited,
           BuildEdited, OfferEdited, ObserveEdited DEF FlowStep, Check

-----------------------------------------------------------------------------
(* The steps of the rollback command are edits.                            *)

\* Every step of the rollback command is an edit, apart from an install.
LEMMA RollbackEdited ==
  ASSUME Inv, Orderly, Faithful, RollbackStep
  PROVE  \E to, d : Edited("rollback", to, d)
<1>1. /\ "rollback" \in Proc /\ RollbackDoc = mem["rollback"]
      /\ RollbackDoc \in Document
  BY Typing DEF Proc, RollbackDoc
<1>2. CASE SyncEntry("rollback")
  BY <1>1, <1>2, SyncEdited
<1>3. CASE ~SyncEntry("rollback")
  <2>1. pc["rollback"] # "idle" /\ UNCHANGED <<upstream, sys, orphans>>
    BY <1>3 DEF RollbackStep, RollbackRefused, RollbackPackageGone, RollbackUnverified,
           TriggerRollback, ObserveRolledBack, ObserveRollbackDenied,
           ObserveRollbackFailed, At, world
  <2>2. ASSUME NEW d, Near(d, RollbackDoc), ~RollingBack,
               RollbackTo("idle", d) \/ RollbackSave("idle", d)
        PROVE  Edited("rollback", "idle", d)
    BY <1>1, <2>1, <2>2, EndFits, Proceeds DEF RollbackTo, RollbackSave, Near
  <2>3. /\ Near(RollbackDoc, RollbackDoc) /\ Near(MarkFailed(RollbackDoc), RollbackDoc)
        /\ Near([RollbackDoc EXCEPT !.status = previous], RollbackDoc)
        /\ Near([RollbackDoc EXCEPT !.status = "Installing"], RollbackDoc)
    BY <1>1, NearEdits DEF MarkFailed
  <2>4. CASE RollbackRefused \/ RollbackUnverified
    <3>1. ~RollingBack /\ (RollbackTo("idle", RollbackDoc) \/ RollbackSave("idle", RollbackDoc))
      BY <2>4 DEF RollbackRefused, RollbackUnverified, At, RollingBack
    <3> QED BY <2>2, <2>3, <3>1
  <2>5. CASE RollbackPackageGone
    <3> DEFINE e == [RollbackDoc EXCEPT !.knownGood = None, !.rollback = None,
                                        !.rollbackVerified = NoPackage]
    <3>1. ~RollingBack /\ Save("rollback", "idle", e)
      BY <2>5 DEF RollbackPackageGone, RollbackSave, At, RollingBack
    <3>2. /\ e.candidate = RollbackDoc.candidate /\ e.dmg = RollbackDoc.dmg
          /\ e.package = RollbackDoc.package
          /\ e.packageVerified = RollbackDoc.packageVerified
          /\ e.rollbackVerified = NoPackage
          /\ e.blockedDmg = RollbackDoc.blockedDmg
          /\ e.blockedVersion = RollbackDoc.blockedVersion
      BY <1>1 DEF Document
    <3> HIDE DEF e
    <3>3. Traced(e, upstream, wasInstalled) /\ Matches(e, sys, rolledBack)
      BY <1>1, <2>1, <3>1, <3>2, Tells, GoneTold
    <3> QED BY <1>1, <2>1, <3>1, <3>3, EndFits, Rewrites
  <2>6. CASE TriggerRollback
    <3> DEFINE e == [RollbackDoc EXCEPT !.status = "Installing"]
    <3>1. /\ ~RollingBack /\ Save("rollback", "authorize", e)
          /\ RollbackDoc.rollbackVerified # NoPackage
      BY <2>6 DEF TriggerRollback, Bound, At, RollingBack
    <3> HIDE DEF e
    <3>2. Alike(e, mem["rollback"])
      BY <1>1, <2>3 DEF Near, e
    <3>3. e.rollbackVerified # NoPackage
      BY <1>1, <3>1, <3>2 DEF Alike
    <3>4. Grounded("rollback", "authorize", e, upstream, sys, rolledBack)
      BY <3>3 DEF Grounded, BuildPoints
    <3> QED BY <1>1, <2>1, <3>1, <3>2, <3>4, Proceeds
  <2>7. CASE ObserveRolledBack
    <3> DEFINE e == AfterRollback(RollbackDoc, sys.ver)
    <3>1. pc["rollback"] = "installed" /\ Save("rollback", "idle", e)
      BY <2>7 DEF ObserveRolledBack, RollbackSave, At
    <3>2. /\ Traced(RollbackDoc, upstream, wasInstalled)
          /\ Grounded("rollback", "installed", RollbackDoc, upstream, sys, rolledBack)
      BY <1>1, <3>1 DEF Faithful
    <3>3. /\ RollbackDoc.rollbackVerified = sys /\ RollbackDoc.rollbackVerified # NoPackage
          /\ rolledBack <= RollbackDoc.dmg
      BY <3>2 DEF Grounded
    <3>4. upstream \in Nat /\ sys \in Package /\ rolledBack \in DmgOrNone
      BY DEF Faithful, Inv, WorldOK, SysOK, CountsOK, Dmg
    <3>5. Traced(e, upstream, wasInstalled) /\ Matches(e, sys, rolledBack)
      BY <1>1, <3>2, <3>3, <3>4, AfterRollbackTold
    <3> HIDE DEF e
    <3> QED BY <1>1, <2>1, <3>1, <3>5, EndFits, Rewrites
  <2>8. CASE ObserveRollbackDenied \/ ObserveRollbackFailed
    <3>1. /\ ~RollingBack
          /\ \/ RollbackSave("idle", [RollbackDoc EXCEPT !.status = previous])
             \/ RollbackSave("idle", MarkFailed(RollbackDoc))
      BY <2>8 DEF ObserveRollbackDenied, ObserveRollbackFailed, At, RollingBack
    <3> QED BY <2>2, <2>3, <3>1
  <2> QED BY <1>3, <2>4, <2>5, <2>6, <2>7, <2>8 DEF RollbackStep
<1> QED BY <1>2, <1>3

-----------------------------------------------------------------------------
(* The dialogs.                                                            *)

\* A dialog that ends without an install.
LEMMA UnansweredEdited ==
  ASSUME Inv, Orderly, Faithful, NEW p \in Installer,
         PrivilegedFailure(p) \/ AuthenticationDenied(p) \/ LaunchFails(p)
  PROVE  \E to, d : Edited(p, to, d)
<1>1. PICK to \in {"refused", "denied", "idle"} : Answer(p, to)
  BY DEF PrivilegedFailure, AuthenticationDenied, LaunchFails
<1>2. UNCHANGED <<upstream, sys, orphans>>
  BY DEF PrivilegedFailure, AuthenticationDenied, LaunchFails, world
<1>3. pc[p] = "authorize" /\ Continue(p, to, mem[p])
  BY <1>1 DEF Answer, At
<1>4. p \in Proc /\ ~RollingBack /\ Alike(mem[p], mem[p])
  BY <1>3, NoRollingBack DEF Installer, Updater, Proc, RollingBack, Alike
<1>5. Grounded(p, to, mem[p], upstream, sys, rolledBack)
  <2>1. CASE p = "flow"
    <3>1. mem[p].installed = sys.ver
      BY <1>3, <1>4, <2>1, Tells DEF Grounded
    <3> QED BY <2>1, <3>1, FreeFits DEF Free, BuildPoints, Updater
  <2>2. CASE p = "rollback"
    BY <2>2 DEF Grounded, BuildPoints
  <2> QED BY <2>1, <2>2 DEF Installer
<1>6. pc[p] # "idle" /\ to # "authorize"
  BY <1>3
<1> QED BY <1>2, <1>3, <1>4, <1>5, <1>6, Proceeds

\* The only process at work has its document in memory.
LEMMA OnlyOne ==
  ASSUME Inv, Orderly, NEW p \in Proc, pc[p] # "idle", NEW to, to # "idle",
         Continue(p, to, mem[p])
  PROVE  /\ pc'[p] = to /\ \A q \in Proc \ {p} : pc'[q] = "idle"
         /\ mem'[p] = mem[p] /\ UNCHANGED disk
<1>1. pc \in [Proc -> FlowPoints \cup StatusPoints \cup RollbackPoints]
      /\ mem \in [Proc -> Sound]
  BY DEF Inv, PointsOK, DocsOK
<1> QED BY <1>1 DEF Continue, Goto, Orderly, OneAtATime

\* The package installed as an update is the one the documents, which agree,
\* have a candidate for.
LEMMA InstallFaithful ==
  ASSUME Inv, Orderly, Faithful, RecordRolledBack, RecordInstalled, PrivilegedInstall("flow")
  PROVE  Faithful'
<1> DEFINE m == mem["flow"]
<1>1. /\ pc["flow"] = "authorize" /\ pc["flow"] # "idle" /\ m = Flow
      /\ Continue("flow", "installed", m)
      /\ UNCHANGED <<orphans, upstream>> /\ sys' = m.packageVerified
  BY DEF PrivilegedInstall, Answer, At, RequestOf, Flow
<1>2. /\ pc'["flow"] = "installed" /\ \A q \in Proc \ {"flow"} : pc'[q] = "idle"
      /\ mem'["flow"] = m /\ UNCHANGED disk /\ disk = m
  BY <1>1, OnlyOne DEF Faithful, Proc
<1>3. /\ m \in Document
      /\ Traced(m, upstream, wasInstalled) /\ Matches(m, sys, rolledBack)
      /\ Grounded("flow", "authorize", m, upstream, sys, rolledBack)
  BY <1>1, FlowTells
<1> HIDE DEF m
<1>4. m.candidate # None /\ m.candidate = sys'.ver
  BY <1>1, <1>3 DEF Grounded
<1>5. rolledBack' \in {rolledBack, None} /\ rolledBack' \in DmgOrNone
  <2>1. ~Moves("rollback", "authorize", "installed")
    BY <1>2 DEF Moves, Proc
  <2> QED BY <2>1, NoneTyped DEF RecordRolledBack, Faithful
<1>6. wasInstalled \subseteq wasInstalled' /\ (sys'.build # 0 => sys'.build \in wasInstalled')
  BY DEF RecordInstalled
<1>7. Traced(m, upstream', wasInstalled')
  BY <1>1, <1>3, <1>6 DEF Traced, Retains
<1>8. Matches(m, sys', rolledBack')
  BY <1>1, <1>3, <1>5 DEF Matches, Traced
<1>9. Grounded("flow", "installed", m, upstream', sys', rolledBack')
  BY <1>1, <1>4 DEF Grounded, BuildPoints
<1>10. Genuine(sys')
  BY <1>1, <1>3 DEF Traced
<1>11. pc'["rollback"] = "idle" /\ orphans' = {}
  BY <1>1, <1>2 DEF Proc, Faithful
<1>12. ASSUME NEW q \in Proc, pc'[q] # "idle" PROVE q = "flow" /\ pc'[q] = "installed"
  BY <1>2, <1>12
<1> QED BY <1>2, <1>5, <1>6, <1>7, <1>8, <1>9, <1>10, <1>11, <1>12 DEF Faithful, Flow

\* The package installed by a rollback is the retained one.
LEMMA RollbackInstallFaithful ==
  ASSUME Inv, Orderly, Faithful, RecordRolledBack, RecordInstalled,
         PrivilegedInstall("rollback")
  PROVE  Faithful'
<1> DEFINE m == mem["rollback"]
<1>1. /\ pc["rollback"] = "authorize" /\ "rollback" \in Proc
      /\ Continue("rollback", "installed", m)
      /\ UNCHANGED <<orphans, upstream>> /\ sys' = m.rollbackVerified
  BY DEF PrivilegedInstall, Answer, At, RequestOf, Proc
<1>2. /\ pc'["rollback"] = "installed" /\ \A q \in Proc \ {"rollback"} : pc'[q] = "idle"
      /\ mem'["rollback"] = m /\ UNCHANGED disk
  BY <1>1, OnlyOne
<1>3. ~RollingBack
  BY <1>1 DEF RollingBack
<1>4. /\ m \in Document /\ sys \in Package
      /\ Traced(m, upstream, wasInstalled) /\ Matches(m, sys, rolledBack)
      /\ Grounded("rollback", "authorize", m, upstream, sys, rolledBack)
  BY <1>1, <1>3, Tells
<1> HIDE DEF m
<1>5. m.rollbackVerified # NoPackage
  BY <1>4 DEF Grounded
<1>6. /\ m.dmg \in Nat /\ sys.dmg \in DmgOrNone /\ sys.dmg <= m.dmg
      /\ rolledBack \in DmgOrNone /\ DmgOrNone \subseteq Nat
  BY <1>4, <1>5, Numbers, CountsAssumption DEF Matches, Package, Faithful, DmgOrNone
<1>7. rolledBack <= m.dmg
  BY <1>4, <1>6 DEF Matches, None
<1>8. rolledBack' \in DmgOrNone /\ rolledBack' <= m.dmg
  <2>1. rolledBack' \in {rolledBack, sys.dmg}
    BY <1>1, <1>2 DEF RecordRolledBack, Moves
  <2> QED BY <1>6, <1>7, <2>1
<1>9. wasInstalled \subseteq wasInstalled' /\ (sys'.build # 0 => sys'.build \in wasInstalled')
  BY DEF RecordInstalled
<1>10. Traced(m, upstream', wasInstalled') /\ Traced(disk', upstream', wasInstalled')
  BY <1>1, <1>2, <1>4, <1>9 DEF Traced, Retains, Faithful
<1>11. Grounded("rollback", "installed", m, upstream', sys', rolledBack')
  BY <1>1, <1>5, <1>8 DEF Grounded, BuildPoints
<1>12. Genuine(sys')
  BY <1>1, <1>4 DEF Traced, Retains
<1>13. /\ pc'["flow"] = "idle" /\ orphans' = {} /\ RollingBack'
  BY <1>1, <1>2 DEF Proc, Faithful, RollingBack
<1>14. ASSUME NEW q \in Proc, pc'[q] # "idle" PROVE q = "rollback" /\ pc'[q] = "installed"
  BY <1>2, <1>14
<1> QED BY <1>2, <1>8, <1>9, <1>10, <1>11, <1>12, <1>13, <1>14 DEF Faithful, Flow

\* A step that takes the flow from one point to another where it is at work is
\* a step of the flow, or the answer to its dialog.
LEMMA OnlyFlow ==
  ASSUME Inv, Next, pc["flow"] # "idle", pc'["flow"] \notin {"idle", pc["flow"]}
  PROVE  /\ FlowStep \/ Privileged("flow")
         /\ \A to, d : FlowTo(to, d) \/ FlowSave(to, d) \/ Persist("flow", to, d)
                         => to = pc'["flow"]
<1>1. pc \in [Proc -> FlowPoints \cup StatusPoints \cup RollbackPoints]
  BY DEF Inv, PointsOK
<1>2. ASSUME NEW p \in Proc, NEW to, NEW d, Goto(p, to, d)
      PROVE  p = "flow" /\ to = pc'["flow"]
  BY <1>1, <1>2 DEF Goto, Proc
<1>3. ASSUME NEW to, NEW d, FlowTo(to, d) \/ FlowSave(to, d) \/ Persist("flow", to, d)
      PROVE  to = pc'["flow"]
  BY <1>2, <1>3 DEF FlowTo, FlowSave, Continue, Save, Persist, Proc
<1>4. ~(\E k \in Kinds : StartFlow(k)) /\ ~(\E p \in Commands \cap Proc : StartCommand(p))
  <2>1. ASSUME NEW k \in Kinds, StartFlow(k) PROVE FALSE
    BY <2>1 DEF StartFlow, At
  <2>2. ASSUME NEW p \in Commands \cap Proc, StartCommand(p) PROVE FALSE
    <3>1. p = "flow" /\ pc[p] = "idle"
      BY <1>2, <2>2 DEF StartCommand, Continue, At
    <3> QED BY <3>1
  <2> QED BY <2>1, <2>2
<1>5. ~Environment
  BY DEF Environment, Publish, OpenApp, CloseApp, InstallByHand, OrphanEnds, docs
<1>6. ASSUME NEW p \in Proc, Shared(p) PROVE p = "flow"
  <2>1. ASSUME NEW to, NEW d, Continue(p, to, d) \/ Save(p, to, d) \/ Persist(p, to, d)
        PROVE  p = "flow"
    BY <1>2, <2>1 DEF Continue, Save, Persist
  <2> QED BY <1>6, <2>1
      DEF Shared, SyncEntry, Recover, RecoverInterrupted, SettleAndPrune,
          CompleteCurrent, CompletePending, Normalize
<1>7. ~StatusStep
  BY <1>6 DEF StatusStep, Proc
<1>8. ~RollbackStep
  <2>1. ASSUME NEW to, NEW d, RollbackTo(to, d) \/ RollbackSave(to, d) PROVE FALSE
    BY <1>2, <2>1 DEF RollbackTo, RollbackSave, Continue, Save, Proc
  <2>2. ~TriggerRollback
    BY <1>2 DEF TriggerRollback, Save, Proc
  <2>3. ~SyncEntry("rollback")
    BY <1>6 DEF Shared, Proc
  <2> QED BY <2>1, <2>2, <2>3
          DEF RollbackStep, RollbackRefused, RollbackPackageGone, RollbackUnverified,
              ObserveRolledBack, ObserveRollbackDenied, ObserveRollbackFailed
<1>9. ASSUME NEW p \in Installer, Privileged(p) PROVE p = "flow"
  <2>1. \E to : Continue(p, to, mem[p])
    BY <1>9 DEF Privileged, PrivilegedInstall, PrivilegedFailure,
                AuthenticationDenied, LaunchFails, Answer
  <2> QED BY <1>2, <2>1 DEF Continue, Installer, Proc
<1>10. ASSUME NEW p \in Proc, Crash(p) PROVE FALSE
  BY <1>2, <1>10 DEF Crash, Continue
<1>11. FlowStep \/ Privileged("flow")
  BY <1>4, <1>5, <1>7, <1>8, <1>9, <1>10 DEF Next
<1> QED BY <1>3, <1>11

-----------------------------------------------------------------------------
(* Every step, and the theorems.                                           *)

\* A process that is started has loaded the saved document.
LEMMA StartedFaithful ==
  ASSUME Inv, Faithful, RecordRolledBack, RecordInstalled, NEW p \in Proc, Started(p), pc[p] = "idle",
         UNCHANGED <<upstream, sys, orphans>>
  PROVE  Faithful'
<1>1. /\ pc'[p] = "sync" /\ \A q \in Proc \ {p} : pc[q] = "idle" /\ pc'[q] = "idle"
      /\ mem'[p] = disk /\ UNCHANGED disk
  BY DEF Inv, PointsOK, DocsOK, Started, Goto, AllIdleBut
<1>2. UNCHANGED <<rolledBack, wasInstalled>>
  BY NothingInstalled
<1>3. Grounded(p, "sync", disk, upstream, sys, rolledBack)
  BY DEF Grounded, BuildPoints
<1>5. ASSUME NEW q \in Proc, pc'[q] # "idle" PROVE q = p
  BY <1>1, <1>5
<1>6. pc'["flow"] # "authorize" /\ pc'["rollback"] \in {"idle", "sync"}
  BY <1>1 DEF Proc
<1>7. ~RollingBack
  BY <1>1 DEF RollingBack, Proc
<1> QED BY <1>1, <1>2, <1>3, <1>5, <1>6, <1>7 DEF Faithful, Flow, RollingBack

\* A newer DMG is served: nothing that was said before is refuted.
LEMMA PublishFaithful ==
  ASSUME Inv, Faithful, RecordRolledBack, RecordInstalled,
         upstream' >= upstream, Publish
  PROVE  Faithful'
<1>1. /\ UNCHANGED <<disk, mem, pc, orphans, sys>> /\ upstream' \in Replaces[upstream]
  BY DEF Publish, docs
<1>2. UNCHANGED <<rolledBack, wasInstalled>>
  BY <1>1, NothingInstalled
<1>3. upstream \in Dmg /\ upstream' \in Dmg /\ upstream' >= upstream
  BY <1>1, EnvironmentAssumption DEF Inv, WorldOK, CountsOK, Dmg
<1>4. ASSUME NEW d \in Document
      PROVE  /\ Traced(d, upstream, wasInstalled) => Traced(d, upstream', wasInstalled)
             /\ \A p \in Proc, to \in FlowPoints \cup StatusPoints \cup RollbackPoints :
                  Grounded(p, to, d, upstream, sys, rolledBack)
                    => Grounded(p, to, d, upstream', sys, rolledBack)
  <2>1. d.dmg \in Nat /\ d.dmgVerified \in Nat /\ upstream \in Nat /\ upstream' \in Nat
    BY <1>3, Numbers DEF Dmg
  <2>2. d.dmg <= upstream => d.dmg <= upstream'
    BY <1>3, <2>1
  <2>3. d.dmgVerified <= upstream => d.dmgVerified <= upstream'
    BY <1>3, <2>1
  <2> QED BY <2>2, <2>3 DEF Traced, Grounded
<1>5. disk \in Document /\ (\A p \in Proc : mem[p] \in Document)
      /\ pc \in [Proc -> FlowPoints \cup StatusPoints \cup RollbackPoints]
  BY Typing DEF Inv, PointsOK
<1>6. Traced(disk, upstream', wasInstalled)
  BY <1>4, <1>5 DEF Faithful
<1>7. ASSUME NEW p \in Proc, pc[p] # "idle"
      PROVE  /\ Traced(mem[p], upstream', wasInstalled)
             /\ Grounded(p, pc[p], mem[p], upstream', sys, rolledBack)
  BY <1>4, <1>5, <1>7 DEF Faithful
<1> QED BY <1>1, <1>2, <1>6, <1>7 DEF Faithful, Flow, RollingBack

\* While there is no mishap but a rollback, and each DMG has versions of its own
\* and is blocked only with the older ones, Faithful is inductive.
LEMMA NextFaithful ==
  ASSUME OwnVersions, BlocksOlder, Inv, Orderly, Faithful, HNext,
         mishaps' \subseteq {"rollback"}
  PROVE  Faithful'
<1>1. Next /\ RecordRolledBack /\ RecordInstalled
  BY DEF HNext
<1>2. /\ OneAtATime' /\ orphans' = {} /\ ~InstallByHand /\ upstream' >= upstream
      /\ OwnVersions /\ BlocksOlder
  BY NoMishap, NoOverlap
<1>3. ASSUME NEW p \in Proc, \E to, d : Edited(p, to, d) PROVE Faithful'
  BY <1>1, <1>3, EditedKeeps
<1>4. "flow" \in Proc /\ "status" \in Proc /\ "rollback" \in Proc /\ "status" \in Updater
  BY DEF Proc, Updater
<1>5. ASSUME NEW k \in Kinds, StartFlow(k) PROVE Faithful'
  <2>1. Started("flow") /\ pc["flow"] = "idle" /\ UNCHANGED <<upstream, sys, orphans>>
    <3>1. AllIdleBut("flow")
      BY <1>2, <1>4, <1>5, StartsAlone DEF StartFlow
    <3> QED BY <1>5, <3>1 DEF StartFlow, Started, Continue, At, world
  <2> QED BY <1>1, <1>4, <2>1, StartedFaithful
<1>6. ASSUME NEW p \in Commands \cap Proc, StartCommand(p) PROVE Faithful'
  <2>1. Started(p) /\ pc[p] = "idle" /\ UNCHANGED <<upstream, sys, orphans>>
    <3>1. AllIdleBut(p)
      BY <1>2, <1>6, StartsAlone DEF StartCommand
    <3> QED BY <1>6, <3>1 DEF StartCommand, Started, Continue, At
  <2> QED BY <1>1, <2>1, StartedFaithful
<1>7. CASE FlowStep
  BY <1>2, <1>3, <1>4, <1>7, FlowEdited
<1>8. CASE StatusStep
  BY <1>3, <1>4, <1>8, SharedEdited DEF StatusStep
<1>9. CASE RollbackStep
  BY <1>3, <1>4, <1>9, RollbackEdited
<1>10. ASSUME NEW p \in Installer, Privileged(p) PROVE Faithful'
  <2>1. p \in Proc /\ (p = "flow" \/ p = "rollback")
    BY DEF Installer, Proc
  <2>2. CASE PrivilegedInstall(p)
    BY <1>1, <2>1, <2>2, InstallFaithful, RollbackInstallFaithful
  <2>3. CASE PrivilegedFailure(p) \/ AuthenticationDenied(p) \/ LaunchFails(p)
    BY <1>3, <2>1, <2>3, UnansweredEdited
  <2> QED BY <1>10, <2>2, <2>3 DEF Privileged
<1>11. ASSUME NEW p \in Proc, Crash(p) PROVE Faithful'
  <2>1. pc[p] # "idle"
    BY <1>11 DEF Crash, At
  <2>3. p \in Updater
    BY <1>11, <2>1, NoMishap DEF Proc, Updater
  <2>4. Continue(p, "idle", mem[p]) /\ UNCHANGED <<upstream, sys, orphans>>
    BY <1>2, <1>11 DEF Crash, Faithful
  <2>5. ~RollingBack /\ Alike(mem[p], mem[p])
    BY <2>1, <2>3, NoRollingBack DEF Alike
  <2>6. Edited(p, "idle", mem[p])
    BY <2>1, <2>4, <2>5, EndFits, Proceeds
  <2> QED BY <1>3, <2>6
<1>12. CASE Publish
  BY <1>1, <1>2, <1>12, PublishFaithful
<1>13. CASE OpenApp \/ CloseApp
  <2>1. UNCHANGED <<disk, mem, pc, orphans, sys, upstream>>
    BY <1>13 DEF OpenApp, CloseApp, docs
  <2>2. UNCHANGED <<rolledBack, wasInstalled>>
    BY <1>1, <2>1, NothingInstalled
  <2> QED BY <2>1, <2>2 DEF Faithful, Flow, RollingBack
<1>14. ~InstallByHand /\ ~OrphanEnds
  BY <1>2 DEF OrphanEnds, Faithful
<1> QED BY <1>1, <1>5, <1>6, <1>7, <1>8, <1>9, <1>10, <1>11, <1>12, <1>13, <1>14
        DEF Next, Environment

\* In the first state nothing is retained and nothing was rolled back.
LEMMA HInitFaithful == HInit => Faithful
<1> SUFFICES ASSUME HInit PROVE Faithful
  OBVIOUS
<1>1. Init /\ rolledBack = None /\ wasInstalled = {}
  BY DEF HInit
<1>2. \A p \in Proc : pc[p] = "idle"
  BY <1>1 DEF Init
<1>3. upstream \in Nat
  BY <1>1 DEF Init, Dmg
<1>4. Traced(NewDocument, upstream, {}) /\ Matches(NewDocument, sys, None)
  BY <1>3, NoneGenuine DEF NewDocument, Traced, Matches, Retains, Unblocked, None
<1>5. Genuine(sys) /\ sys.build = 0
  <2>1. CASE sys = NoPackage
    BY <2>1, NoneGenuine DEF NoPackage
  <2>2. ASSUME NEW a \in Dmg, sys = ManualPackage(a) PROVE Genuine(sys) /\ sys.build = 0
    BY <2>2 DEF ManualPackage, Genuine, Dmg, None
  <2> QED BY <1>1, <2>1, <2>2 DEF Init
<1>6. disk = NewDocument /\ orphans = {}
  BY <1>1 DEF Init
<1>7. "flow" \in Proc /\ "rollback" \in Proc
  BY DEF Proc
<1> QED BY <1>1, <1>2, <1>4, <1>5, <1>6, <1>7, NoneTyped DEF Faithful

\* Until there is another mishap than a rollback.
Sure == mishaps \subseteq {"rollback"} => Orderly /\ Faithful

\* It is an invariant.
LEMMA FaithfulHolds ==
  ASSUME OwnVersions, BlocksOlder PROVE HSpec => [](Inv /\ Sure)
<1>1. Inv /\ Sure /\ [HNext]_hvars => Sure'
  <2>1. ASSUME Inv, Sure, [HNext]_hvars, mishaps' \subseteq {"rollback"}
        PROVE  Orderly' /\ Faithful'
    <3>1. "overlap" \notin mishaps' /\ Orderly /\ Faithful
      BY <2>1 DEF HNext, RecordMishaps, hvars, history, Sure
    <3>2. Orderly'
      BY <2>1, <3>1, HNextKeeps
    <3>3. CASE HNext
      BY <2>1, <3>1, <3>2, <3>3, NextFaithful
    <3>4. CASE UNCHANGED hvars
      <4>1. UNCHANGED <<disk, mem, pc, orphans, sys, upstream, rolledBack, wasInstalled>>
        BY <3>4 DEF hvars, vars, docs, world, history
      <4>2. Faithful'
        BY <3>1, <4>1 DEF Faithful, Flow, RollingBack
      <4> QED BY <3>2, <4>2
    <3> QED BY <2>1, <3>3, <3>4
  <2> QED BY <2>1 DEF Sure
<1>2. HInit => Sure
  BY HInitHolds, HInitFaithful DEF Sure
<1> QED BY <1>1, <1>2, HistorySpec, PTL DEF HSpec

(* In every behaviour, until another mishap than a rollback: if each DMG   *)
(* has versions of its own and is blocked only with the older ones, a      *)
(* package that a rollback would install is one that has been installed    *)
(* before: no build that failed, was dismissed or was superseded is ever   *)
(* retained.                                                               *)
THEOREM RetainedWasInstalled ==
  ASSUME OwnVersions, BlocksOlder PROVE HSpec => []KnownGoodWasInstalled
<1>1. Sure => KnownGoodWasInstalled
  BY DEF Sure, Faithful, Traced, Retains, KnownGoodWasInstalled, Bound
<1> QED BY <1>1, FaithfulHolds, PTL

(* and the version recorded as known good is that package's version.       *)
THEOREM RetainedVersion ==
  ASSUME OwnVersions, BlocksOlder PROVE HSpec => []KnownGoodIsThatVersion
<1>1. Sure => KnownGoodIsThatVersion
  BY DEF Sure, Faithful, Traced, Retains, KnownGoodIsThatVersion
<1> QED BY <1>1, FaithfulHolds, PTL

\* A step that moves the flow from the match to the build finds an update.
LEMMA OnlyDetects ==
  ASSUME Inv, Next, Moves("flow", "match", "wipe") PROVE DetectUpdate
<1>1. /\ pc["flow"] = "match" /\ pc'["flow"] = "wipe"
  BY DEF Moves
<1>2. FlowStep \/ Privileged("flow")
  BY <1>1, OnlyFlow
<1>3. ~Privileged("flow")
  BY <1>1 DEF Privileged, PrivilegedInstall, PrivilegedFailure, AuthenticationDenied,
              LaunchFails, Answer, At
<1>4. ~Shared("flow") /\ ~Resync /\ ~Build /\ ~Offer /\ ~Observe
  BY <1>1 DEF Shared, SyncEntry, Recover, CompleteCurrent, CompletePending, Normalize,
       Resync, Build, WipeWorkspace, PrepareWorkspace, PatchApp, BuildPackage, FinishBuild,
       CheckBuiltVersion, Offer, NothingToOffer, PackageUnusable, ReconcileReady,
       ReconcileStopWaiting, ReconcileAppOpen, ReconcileAppClosed, KeepsWaiting,
       InstallReadyAppOpen, InstallReadyAppClosed, Offering,
       Observe, ObserveInstalled, ObserveDenied, ObserveFailed, At
<1>5. /\ ~SkipPending /\ ~SkipFresh /\ ~PrepareUpstreamCheck /\ ~FetchMetadata
      /\ ~DownloadTrusted /\ ~DownloadUntrusted /\ ~FailCheck /\ ~EndCheck
  BY <1>1 DEF SkipPending, SkipFresh, PrepareUpstreamCheck, FetchMetadata,
              DownloadTrusted, DownloadUntrusted, FailCheck, EndCheck, At
<1>6. ASSUME NEW to, NEW d, FlowTo(to, d) \/ FlowSave(to, d) PROVE to = "wipe"
  BY <1>1, <1>6, OnlyFlow
<1>7. ~MatchInstalled /\ ~MatchBlocked /\ ~MatchKnown /\ ~StepFails
  BY <1>6 DEF MatchInstalled, MatchBlocked, MatchKnown, StepFails
<1> QED BY <1>2, <1>3, <1>4, <1>5, <1>7 DEF FlowStep, Check

(* In every behaviour, until another mishap than a rollback: if each DMG   *)
(* has versions of its own and is blocked only with the older ones, a DMG  *)
(* whose package was rolled back is not built again until another package  *)
(* has been installed: not by the check that follows, nor after any number *)
(* of other updates that were found, failed or were blocked in between.    *)
THEOREM RollbacksHonoured ==
  ASSUME OwnVersions, BlocksOlder PROVE HSpec => RollbackHonoured
<1>1. Inv /\ Sure /\ [HNext]_hvars
        => [(/\ mishaps \subseteq {"rollback"}
             /\ Moves("flow", "match", "wipe")
             /\ At("rollback", "idle"))
              => Flow.dmgVerified # rolledBack]_hvars
  <2> SUFFICES ASSUME Inv, Orderly, Faithful, HNext, Moves("flow", "match", "wipe")
               PROVE  Flow.dmgVerified # rolledBack
    BY DEF Sure
  <2>1. DetectUpdate
    BY OnlyDetects DEF HNext
  <2> QED BY <2>1, DetectEdited
<1> QED BY <1>1, FaithfulHolds, PTL DEF HSpec, RollbackHonoured
=============================================================================
