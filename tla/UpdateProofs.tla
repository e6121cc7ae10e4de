---------------------------- MODULE UpdateProofs ----------------------------
(***************************************************************************)
(* Proofs about UpdateFlow, for every value of its constants: the type     *)
(* invariant, and that only packages built from trusted DMGs are installed *)
(* or about to be.                                                         *)
(*                                                                         *)
(* Inv, below, is inductive: every document, in memory or on disk, is      *)
(* Sound (typed, and with trusted verifications), and Chained says what    *)
(* the flow knows of its document at the points where that matters.  The   *)
(* proof has one lemma per edit of a document, one for the moves of a      *)
(* process, and one step per action.                                       *)
(***************************************************************************)
EXTENDS UpdateFlow, TLAPS

Sound == {d \in Document : SoundDocument(d)}

Points(p) ==
  IF p = "flow" THEN FlowPoints
  ELSE IF p = "status" THEN StatusPoints ELSE RollbackPoints

\* What the flow knows at the point "to", the document being d.
Chained(to, d) ==
  /\ to = "match" => d.dmgVerified \in Trusted
  /\ to \in BuildPoints => d.dmg \in Trusted
  /\ to = "authorize" => Update(d.packageVerified)

DocsOK == disk \in Sound /\ mem \in [Proc -> Sound]

PointsOK ==
  /\ pc \in [Proc -> FlowPoints \cup StatusPoints \cup RollbackPoints]
  /\ \A p \in Proc : pc[p] \in Points(p)

ContextOK ==
  kind \in AllKinds \cup {"none"} /\ retry \in BOOLEAN /\ previous \in Status

ChainOK == Chained(pc["flow"], mem["flow"])

TrustedRequest(r) ==
  Trustworthy(r.expected) /\ (~r.rollback => Update(r.expected))

OrphansOK == orphans \subseteq Request /\ \A r \in orphans : TrustedRequest(r)

FilesOK == files \in [Version -> Package] /\ \A w \in Version : Trustworthy(files[w])

SysOK == sys \in Package /\ Trustworthy(sys)

CountsOK ==
  /\ upstream \in Dmg
  /\ app \in BOOLEAN
  /\ builds \in 0..MaxBuilds
  /\ commands \in 0..MaxCommands
  /\ crashes \in 0..MaxCrashes

WorldOK == OrphansOK /\ FilesOK /\ SysOK /\ CountsOK

Inv == DocsOK /\ PointsOK /\ ContextOK /\ ChainOK /\ WorldOK

-----------------------------------------------------------------------------
(* The edits of a document keep it sound.                                  *)

\* "none" and "no package" are typed and trusted.
LEMMA NoneTyped ==
  /\ None \in DmgOrNone
  /\ None \in VersionOrNone
  /\ NoPackage \in Package
  /\ Trustworthy(NoPackage)
BY CountsAssumption
DEF None, DmgOrNone, VersionOrNone, NoPackage, Package, Trustworthy

\* The versions and DMGs the environment hands out are typed.
LEMMA ConstantsTyped ==
  /\ Trusted \subseteq Dmg
  /\ Dmg \subseteq DmgOrNone
  /\ Version \subseteq VersionOrNone
  /\ \A dmg \in Dmg : /\ ManifestVersion[dmg] \in VersionOrNone
                      /\ BundleVersion[dmg] \in VersionOrNone
BY CountsAssumption, ManifestAssumption
DEF Dmg, DmgOrNone, Version, VersionOrNone

\* The document of a first start is sound.
LEMMA NewDocumentSound == NewDocument \in Sound
BY NoneTyped DEF Sound, SoundDocument, NewDocument, Document, Status

\* Setting the status, whichever way, keeps a document sound.
LEMMA StatusSound ==
  ASSUME NEW d \in Sound, NEW s \in Status
  PROVE  /\ WithStatus(d, s) \in Sound
         /\ [d EXCEPT !.status = s] \in Sound
BY DEF Sound, SoundDocument, WithStatus, Document

\* Marking an update failed keeps a document sound.
LEMMA FailedSound == ASSUME NEW d \in Sound PROVE MarkFailed(d) \in Sound
BY StatusSound DEF MarkFailed, Status

\* Recording the installed version keeps a document sound.
LEMMA InstalledVersionSound ==
  ASSUME NEW d \in Sound, NEW v \in VersionOrNone
  PROVE  /\ [d EXCEPT !.installed = v] \in Sound
         /\ SyncRuntime(d, v) \in Sound
BY DEF Sound, SoundDocument, SyncRuntime, Document

\* Normalising the workspace keeps a document sound.
LEMMA NormalizeSound ==
  ASSUME NEW d \in Sound PROVE NormalizeWorkspace(d) \in Sound
BY NoneTyped DEF Sound, SoundDocument, NormalizeWorkspace, Document

\* Lifting the rollback block, and concluding a candidate, keep it sound.
LEMMA ConcludedSound ==
  ASSUME NEW d \in Sound
  PROVE  /\ ClearRollbackBlock(d) \in Sound
         /\ [d EXCEPT !.candidate = None, !.authEvents = {}] \in Sound
<1>1. ClearRollbackBlock(d) \in Sound
  BY NoneTyped DEF Sound, SoundDocument, ClearRollbackBlock, Document
<1>2. [d EXCEPT !.candidate = None, !.authEvents = {}] \in Sound
  BY NoneTyped DEF Sound, SoundDocument, Document
<1> QED BY <1>1, <1>2

\* Settling an update that is installed or superseded keeps it sound.
LEMMA SettleSound == ASSUME NEW d \in Sound PROVE Settle(d) \in Sound
<1> DEFINE u == ClearRollbackBlock(WithStatus(d, "Installed"))
           s == [u EXCEPT !.candidate = None, !.authEvents = {}]
<1>1. s \in Sound
  BY StatusSound, ConcludedSound DEF Status
<1> HIDE DEF s
<1>2. [s EXCEPT !.package = None, !.packageVerified = NoPackage] \in Sound
  BY <1>1, NoneTyped DEF Sound, SoundDocument, Document
<1> QED
  BY <1>1, <1>2, NormalizeSound DEF Settle, s

\* Clearing the candidate keeps a document sound.
LEMMA ClearCandidateSound ==
  ASSUME NEW d \in Sound, NEW dmg \in DmgOrNone
  PROVE  ClearCandidate(d, dmg) \in Sound
<1> DEFINE i == WithStatus(d, "Idle")
           c == [i EXCEPT !.candidate = None, !.dmg = dmg,
                          !.package = None, !.authEvents = {}]
<1>1. i \in Sound
  BY StatusSound DEF Status
<1> HIDE DEF i
<1>2. c \in Sound
  BY <1>1, NoneTyped DEF Sound, SoundDocument, Document
<1> QED
  BY <1>2, NormalizeSound DEF ClearCandidate, i

\* Retaining the installed package for rollback keeps a document sound, and
\* does not touch the verified DMG.
LEMMA RecordKnownGoodSound ==
  ASSUME NEW d \in Sound, NEW f
  PROVE  /\ RecordKnownGood(f, d) \in Sound
         /\ RecordKnownGood(f, d).dmgVerified = d.dmgVerified
BY NoneTyped DEF Sound, SoundDocument, RecordKnownGood, Document

\* Recording an install that succeeded keeps a document sound.
LEMMA AfterInstallSound ==
  ASSUME NEW d \in Sound, NEW v \in VersionOrNone
  PROVE  AfterInstall(d, v) \in Sound
<1> DEFINE u == ClearRollbackBlock(WithStatus(d, "Installed"))
           s == [u EXCEPT !.installed = v, !.candidate = None, !.authEvents = {}]
<1>1. u \in Sound
  BY StatusSound, ConcludedSound DEF Status
<1> HIDE DEF u
<1>2. s \in Sound
  BY <1>1, NoneTyped DEF Sound, SoundDocument, Document
<1> QED
  BY <1>2, NormalizeSound DEF AfterInstall, u

\* Deferring an install keeps a document sound.
LEMMA DeferInstallSound == ASSUME NEW d \in Sound PROVE DeferInstall(d) \in Sound
<1> DEFINE r == WithStatus(d, "ReadyToInstall")
<1>1. r \in Sound
  BY StatusSound DEF Status
<1>2. {d.candidate} \ {None} \subseteq Version
  BY CountsAssumption DEF Sound, Document, VersionOrNone, None, Version
<1> HIDE DEF r
<1> QED
  BY <1>1, <1>2 DEF Sound, SoundDocument, Document, DeferInstall, r

\* Forgetting a dismissed dialog keeps a document sound, and its package.
LEMMA ClearAuthEventSound ==
  ASSUME NEW d \in Sound
  PROVE  /\ ClearAuthEvent(d) \in Sound
         /\ ClearAuthEvent(d).packageVerified = d.packageVerified
BY DEF Sound, SoundDocument, ClearAuthEvent, Document

\* Waiting for ChatGPT to exit keeps a document sound.
LEMMA WaitForAppExitSound ==
  ASSUME NEW d \in Sound, NEW auto \in BOOLEAN
  PROVE  WaitForAppExit(d, auto) \in Sound
BY DEF Sound, SoundDocument, WaitForAppExit, Document, Status

\* Recording a rollback that succeeded keeps a document sound.
LEMMA AfterRollbackSound ==
  ASSUME NEW d \in Sound, NEW v \in VersionOrNone
  PROVE  AfterRollback(d, v) \in Sound
<1> DEFINE r == [d EXCEPT !.status = "Installed",
                          !.installed = v,
                          !.candidate = None,
                          !.package = d.rollback,
                          !.packageVerified = d.rollbackVerified,
                          !.knownGood = v,
                          !.blockedVersion =
                             IF d.installed = None THEN d.candidate ELSE d.installed,
                          !.blockedDmg = d.dmg,
                          !.authEvents = {}]
<1>1. r \in Sound
  BY NoneTyped DEF Sound, SoundDocument, Document, Status
<1> HIDE DEF r
<1> QED
  BY <1>1, NormalizeSound DEF AfterRollback, r

-----------------------------------------------------------------------------
(* What a move of a process, and its change of the world, leave in place.  *)

\* A process that moves to one of its points with a sound document, with
\* what that point requires, keeps the documents and the points in order.
LEMMA MoveKeeps ==
  ASSUME Inv,
         NEW p \in Proc, NEW to \in Points(p), NEW d \in Sound,
         p = "flow" => Chained(to, d),
         Goto(p, to, d), disk' \in {disk, d}
  PROVE  DocsOK' /\ PointsOK' /\ ChainOK'
<1>1. DocsOK'
  BY NewDocumentSound DEF Inv, DocsOK, Goto
<1>2. PointsOK'
  BY DEF Inv, PointsOK, Goto, Points, Proc
<1>3. ChainOK'
  <2>1. CASE p = "flow" /\ to = "idle"
    <3>1. pc'["flow"] = "idle"
      BY <2>1 DEF Inv, PointsOK, Goto, Proc
    <3> QED BY <3>1 DEF ChainOK, Chained, BuildPoints
  <2>2. CASE p = "flow" /\ to # "idle"
    BY <2>2 DEF Inv, PointsOK, DocsOK, ChainOK, Goto, Proc
  <2>3. CASE p # "flow"
    BY <2>3 DEF Inv, PointsOK, DocsOK, ChainOK, Goto, Proc
  <2> QED BY <2>1, <2>2, <2>3
<1> QED BY <1>1, <1>2, <1>3

\* Context keeps the flow's and the rollback's own variables typed.
LEMMA ContextKeeps ==
  ASSUME Inv, NEW p \in Proc, NEW to, Context(p, to)
  PROVE  ContextOK'
BY DEF Inv, ContextOK, Context, FlowContext, Status

\* Nothing happens to the world.
LEMMA WorldKeeps == ASSUME Inv, UNCHANGED world PROVE WorldOK'
BY DEF Inv, WorldOK, OrphansOK, FilesOK, SysOK, CountsOK, world

\* Pruning only removes packages.
LEMMA PruneKeeps ==
  ASSUME Inv, NEW d, files' = PruneWorkspaces(files, d),
         UNCHANGED <<orphans, sys, upstream, app, builds, commands, crashes>>
  PROVE  WorldOK'
<1>1. FilesOK'
  BY NoneTyped DEF Inv, WorldOK, FilesOK, PruneWorkspaces
<1> QED
  BY <1>1 DEF Inv, WorldOK, OrphansOK, SysOK, CountsOK

\* A package built outside the updater is typed, and claims no build.
LEMMA ManualTrusted ==
  ASSUME NEW dmg \in Dmg
  PROVE  ManualPackage(dmg) \in Package /\ Trustworthy(ManualPackage(dmg))
BY ConstantsTyped, NoneTyped, CountsAssumption
DEF ManualPackage, Package, Trustworthy, None

-----------------------------------------------------------------------------
(* The first state.                                                        *)

\* Inv holds in the first state.
LEMMA InitInv == Init => Inv
<1> SUFFICES ASSUME Init PROVE Inv
  OBVIOUS
<1>1. DocsOK
  BY NewDocumentSound DEF Init, DocsOK
<1>2. PointsOK /\ ContextOK /\ ChainOK
  BY DEF Init, PointsOK, ContextOK, ChainOK, Chained, Points, Proc, FlowPoints,
         StatusPoints, RollbackPoints, BuildPoints, AllKinds, Status
<1>3. FilesOK /\ SysOK
  BY NoneTyped, ManualTrusted DEF Init, FilesOK, SysOK
<1>4. OrphansOK /\ CountsOK
  BY CountsAssumption, EnvironmentAssumption DEF Init, OrphansOK, CountsOK
<1> QED BY <1>1, <1>2, <1>3, <1>4 DEF Inv, WorldOK

-----------------------------------------------------------------------------
(* Starting, and the steps the processes share.                            *)

\* The installed version a process reads, and the document it works on.
LEMMA Reads ==
  ASSUME Inv
  PROVE  /\ sys.ver \in VersionOrNone
         /\ disk \in Sound
         /\ \A p \in Proc : mem[p] \in Sound
BY DEF Inv, WorldOK, SysOK, Package, DocsOK

\* A flow takes the lock and loads the document on disk.
LEMMA StartFlowKeeps == ASSUME Inv, NEW k \in Kinds, StartFlow(k) PROVE Inv'
<1>1. DocsOK' /\ PointsOK' /\ ChainOK'
  <2>1. "sync" \in Points("flow") /\ Chained("sync", disk)
    BY DEF Points, FlowPoints, Chained, BuildPoints
  <2> QED BY <2>1, MoveKeeps, Reads DEF StartFlow, Continue, Proc
<1>2. ContextOK'
  BY EnvironmentAssumption DEF Inv, ContextOK, StartFlow
<1>3. WorldOK'
  BY WorldKeeps DEF StartFlow
<1> QED BY <1>1, <1>2, <1>3 DEF Inv

\* A command starts, without the lock, from the document on disk.
LEMMA StartCommandKeeps ==
  ASSUME Inv, NEW p \in Commands \cap Proc, StartCommand(p) PROVE Inv'
<1>0. p \in {"status", "rollback"}
  BY EnvironmentAssumption DEF Proc
<1>1. DocsOK' /\ PointsOK' /\ ChainOK'
  <2>1. "sync" \in Points(p)
    BY <1>0 DEF Points, StatusPoints, RollbackPoints
  <2> QED BY <1>0, <2>1, MoveKeeps, Reads DEF StartCommand, Continue, Proc
<1>2. ContextOK'
  BY DEF Inv, ContextOK, StartCommand
<1>3. WorldOK'
  BY EnvironmentAssumption
  DEF Inv, WorldOK, OrphansOK, FilesOK, SysOK, CountsOK, StartCommand
<1> QED BY <1>1, <1>2, <1>3 DEF Inv

\* A process refreshes the installed version it loaded.
LEMMA SyncEntryKeeps ==
  ASSUME Inv, NEW p \in Proc, SyncEntry(p) PROVE Inv'
<1> DEFINE d == IF p = "flow" THEN SyncRuntime(mem[p], sys.ver)
                              ELSE [mem[p] EXCEPT !.installed = sys.ver]
<1>1. d \in Sound
  BY Reads, InstalledVersionSound
<1>2. AfterSync(p) \in Points(p) /\ Chained(AfterSync(p), d)
  BY DEF AfterSync, Points, Proc, FlowPoints, StatusPoints, RollbackPoints,
         Chained, BuildPoints
<1>3. Goto(p, AfterSync(p), d) /\ disk' \in {disk, d}
  BY DEF SyncEntry, Persist
<1>4. ContextOK'
  BY ContextKeeps DEF SyncEntry
<1>5. WorldOK'
  BY WorldKeeps DEF SyncEntry
<1> HIDE DEF d
<1> QED BY <1>1, <1>2, <1>3, <1>4, <1>5, MoveKeeps DEF Inv

\* RecoverInterrupted, at points that require nothing of the flow.
LEMMA RecoverInterruptedKeeps ==
  ASSUME Inv, NEW p \in Proc, NEW d \in Sound,
         NEW to \in Points(p), NEW toIfFailed \in Points(p),
         \A e \in Sound : Chained(to, e) /\ Chained(toIfFailed, e),
         RecoverInterrupted(p, d, to, toIfFailed),
         UNCHANGED <<orphans, sys, upstream, app, builds, commands, crashes>>
  PROVE  Inv'
<1> USE DEF RecoverInterrupted
<1>1. CASE d.status # "Installing"
  <2>1. Continue(p, to, d) /\ Context(p, to) /\ UNCHANGED files
    BY <1>1
  <2>2. DocsOK' /\ PointsOK' /\ ChainOK'
    BY <2>1, MoveKeeps DEF Continue
  <2> QED BY <2>1, <2>2, ContextKeeps, WorldKeeps DEF Inv, world
<1>2. CASE d.status = "Installing" /\ Satisfies(d.installed, d.candidate)
  <2>1. SettleAndPrune(p, to, d) /\ Context(p, to)
    BY <1>2
  <2>2. Settle(d) \in Sound
    BY SettleSound
  <2>3. DocsOK' /\ PointsOK' /\ ChainOK'
    BY <2>1, <2>2, MoveKeeps DEF SettleAndPrune, Save
  <2>4. WorldOK'
    BY <2>1, PruneKeeps DEF SettleAndPrune
  <2> QED BY <2>1, <2>3, <2>4, ContextKeeps DEF Inv
<1>3. CASE /\ d.status = "Installing"
           /\ ~Satisfies(d.installed, d.candidate)
           /\ PackageMissing(d)
  <2>1. Save(p, toIfFailed, MarkFailed(d)) /\ Context(p, toIfFailed) /\ UNCHANGED files
    BY <1>3
  <2>2. DocsOK' /\ PointsOK' /\ ChainOK'
    BY <2>1, FailedSound, MoveKeeps DEF Save
  <2> QED BY <2>1, <2>2, ContextKeeps, WorldKeeps DEF Inv, world
<1>4. CASE /\ d.status = "Installing"
           /\ ~Satisfies(d.installed, d.candidate)
           /\ ~PackageMissing(d)
  <2> DEFINE e == NormalizeWorkspace(WithStatus(d, "ReadyToInstall"))
  <2>1. Save(p, to, e) /\ Context(p, to) /\ UNCHANGED files
    BY <1>4
  <2>2. e \in Sound
    BY StatusSound, NormalizeSound DEF Status
  <2> HIDE DEF e
  <2>3. DocsOK' /\ PointsOK' /\ ChainOK'
    BY <2>1, <2>2, MoveKeeps DEF Save
  <2> QED BY <2>1, <2>3, ContextKeeps, WorldKeeps DEF Inv, world
<1> QED BY <1>1, <1>2, <1>3, <1>4

\* The move that takes up an interrupted install.
LEMMA RecoverKeeps == ASSUME Inv, NEW p \in Proc, Recover(p) PROVE Inv'
<1> DEFINE failed == IF p = "flow" /\ kind = "install_ready" THEN "idle"
                     ELSE AfterRecover(p)
<1>1. p \in {"flow", "status"}
  BY DEF Inv, PointsOK, Points, Recover, At, Proc, RollbackPoints
<1>2. /\ AfterRecover(p) \in Points(p)
      /\ failed \in Points(p)
      /\ \A e \in Sound : Chained(AfterRecover(p), e) /\ Chained(failed, e)
  BY <1>1 DEF AfterRecover, Points, FlowPoints, StatusPoints, Chained, BuildPoints
<1> HIDE DEF failed
<1>3. RecoverInterrupted(p, mem[p], AfterRecover(p), failed)
  BY DEF Recover, failed
<1> QED BY <1>2, <1>3, Reads, RecoverInterruptedKeeps DEF Recover

\* The start of a reconciliation, in a check-now command or the daemon.
LEMMA ResyncKeeps == ASSUME Inv, Resync PROVE Inv'
<1>1. SyncRuntime(mem["flow"], sys.ver) \in Sound
  BY Reads, InstalledVersionSound DEF Proc
<1>2. "pending" \in Points("flow") /\ \A e \in Sound : Chained("pending", e)
  BY DEF Points, FlowPoints, Chained, BuildPoints
<1> QED BY <1>1, <1>2, RecoverInterruptedKeeps DEF Resync, Proc

\* The move that clears a candidate that is installed, or goes on.
LEMMA CompleteCurrentKeeps ==
  ASSUME Inv, NEW p \in Proc, CompleteCurrent(p) PROVE Inv'
<1> DEFINE to == IF p = "flow" /\ kind = "install_ready" THEN "idle"
                 ELSE AfterCurrent(p)
           e == ClearCandidate(mem[p], mem[p].dmg)
<1>1. p \in {"flow", "status"}
  BY DEF Inv, PointsOK, Points, CompleteCurrent, At, Proc, RollbackPoints
<1>2. /\ to \in Points(p) /\ AfterCurrent(p) \in Points(p)
      /\ \A d \in Sound : Chained(to, d) /\ Chained(AfterCurrent(p), d)
  BY <1>1 DEF AfterCurrent, Points, FlowPoints, StatusPoints, Chained, BuildPoints
<1>3. mem[p] \in Sound /\ e \in Sound
  BY Reads, ClearCandidateSound DEF Sound, Document
<1> HIDE DEF to, e
<1>4. WorldOK'
  BY WorldKeeps DEF CompleteCurrent
<1>5. CASE Save(p, to, e) /\ Context(p, to)
  BY <1>2, <1>3, <1>4, <1>5, MoveKeeps, ContextKeeps DEF Save, Inv
<1>6. CASE Continue(p, AfterCurrent(p), mem[p]) /\ Context(p, AfterCurrent(p))
  BY <1>2, <1>3, <1>4, <1>6, MoveKeeps, ContextKeeps DEF Continue, Inv
<1> QED BY <1>5, <1>6 DEF CompleteCurrent, to, e

\* The move that completes an update that is installed, or goes on.
LEMMA CompletePendingKeeps ==
  ASSUME Inv, NEW p \in Proc, CompletePending(p) PROVE Inv'
<1> DEFINE next == IF p = "status" THEN "recover" ELSE "offer"
           end == IF p = "status" THEN "recover" ELSE "idle"
<1>1. p \in {"flow", "status"}
  BY DEF Inv, PointsOK, Points, CompletePending, At, Proc, RollbackPoints
<1>2. /\ next \in Points(p) /\ end \in Points(p)
      /\ \A d \in Sound : Chained(next, d) /\ Chained(end, d)
  BY <1>1 DEF Points, FlowPoints, StatusPoints, Chained, BuildPoints
<1>3. mem[p] \in Sound /\ Settle(mem[p]) \in Sound
  BY Reads, SettleSound
<1> HIDE DEF next, end
<1>4. CASE SettleAndPrune(p, end, mem[p]) /\ Context(p, end)
  <2>1. WorldOK'
    BY <1>4, PruneKeeps DEF SettleAndPrune, CompletePending
  <2> QED
    BY <1>2, <1>3, <1>4, <2>1, MoveKeeps, ContextKeeps DEF SettleAndPrune, Save, Inv
<1>5. CASE /\ Continue(p, next, mem[p]) /\ Context(p, next)
           /\ UNCHANGED files
  <2>1. WorldOK'
    BY <1>5, WorldKeeps DEF CompletePending, world
  <2> QED
    BY <1>2, <1>3, <1>5, <2>1, MoveKeeps, ContextKeeps DEF Continue, Inv
<1> QED BY <1>4, <1>5 DEF CompletePending, next, end

\* The move that normalises the workspace.
LEMMA NormalizeKeeps == ASSUME Inv, NEW p \in Proc, Normalize(p) PROVE Inv'
<1>1. p \in {"flow", "status"}
  BY DEF Inv, PointsOK, Points, Normalize, At, Proc, RollbackPoints
<1>2. /\ AfterNormalize(p) \in Points(p)
      /\ \A d \in Sound : Chained(AfterNormalize(p), d)
  BY <1>1 DEF AfterNormalize, Points, FlowPoints, StatusPoints, Chained, BuildPoints
<1>3. NormalizeWorkspace(mem[p]) \in Sound
  BY Reads, NormalizeSound
<1>4. WorldOK' /\ ContextOK'
  BY WorldKeeps, ContextKeeps DEF Normalize
<1> QED
  BY <1>2, <1>3, <1>4, MoveKeeps DEF Normalize, Persist, Inv

-----------------------------------------------------------------------------
(* The moves of the flow alone.                                            *)

\* A move of the flow that leaves the world alone.
LEMMA FlowMoveKeeps ==
  ASSUME Inv, NEW to \in FlowPoints, NEW d \in Sound, Chained(to, d),
         FlowTo(to, d) \/ FlowSave(to, d)
  PROVE  /\ DocsOK' /\ PointsOK' /\ ChainOK' /\ ContextOK'
         /\ UNCHANGED world => Inv'
<1>1. DocsOK' /\ PointsOK' /\ ChainOK'
  BY MoveKeeps DEF FlowTo, FlowSave, Continue, Save, Points, Proc
<1>2. ContextOK'
  BY ContextKeeps DEF FlowTo, FlowSave, Context, Proc
<1> QED BY <1>1, <1>2, WorldKeeps DEF Inv

\* Points that require nothing of the flow.
LEMMA FreePoints ==
  ASSUME NEW to \in {"idle", "head", "download", "checkversion", "prune", "fail"},
         NEW d
  PROVE  to \in FlowPoints /\ Chained(to, d)
BY DEF FlowPoints, Chained, BuildPoints

\* The moves of the check cycle up to the match.
LEMMA CheckKeeps ==
  ASSUME Inv,
         SkipPending \/ SkipFresh \/ PrepareUpstreamCheck \/ FetchMetadata
           \/ DownloadTrusted \/ DownloadUntrusted
  PROVE  Inv'
<1>1. Flow \in Sound
  BY Reads DEF Flow, Proc
<1>2. upstream \in DmgOrNone
  BY ConstantsTyped DEF Inv, WorldOK, CountsOK
<1>3. CASE SkipPending \/ SkipFresh
  BY <1>1, <1>3, FlowMoveKeeps, FreePoints DEF SkipPending, SkipFresh
<1>4. CASE PrepareUpstreamCheck
  <2> DEFINE d == IF ShouldRetry(Flow) THEN Flow
                  ELSE [Flow EXCEPT !.status = "CheckingUpstream"]
  <2>1. d \in Sound
    BY <1>1, StatusSound DEF Status
  <2>2. "head" \in Points("flow") /\ Chained("head", d)
    BY FreePoints DEF Points
  <2>3. Save("flow", "head", d)
    BY <1>4 DEF PrepareUpstreamCheck
  <2> HIDE DEF d
  <2>4. DocsOK' /\ PointsOK' /\ ChainOK'
    BY <2>1, <2>2, <2>3, MoveKeeps DEF Save, Proc
  <2>5. ContextOK'
    BY <1>4 DEF Inv, ContextOK, PrepareUpstreamCheck, ShouldRetry
  <2> QED BY <1>4, <2>4, <2>5, WorldKeeps DEF PrepareUpstreamCheck, Inv
<1>5. CASE FetchMetadata
  <2> DEFINE seen == [Flow EXCEPT !.headers = upstream]
  <2>1. seen \in Sound
    BY <1>1, <1>2 DEF Sound, SoundDocument, Document
  <2> HIDE DEF seen
  <2>2. WithStatus(seen, "Idle") \in Sound /\ WithStatus(seen, "DownloadingDmg") \in Sound
    BY <2>1, StatusSound DEF Status
  <2> QED BY <1>5, <2>2, FlowMoveKeeps, FreePoints DEF FetchMetadata, seen
<1>6. CASE DownloadTrusted
  <2> DEFINE d == [Flow EXCEPT !.dmgVerified = upstream]
  <2>1. d \in Sound /\ d.dmgVerified = upstream
    BY <1>1, <1>2, <1>6 DEF Sound, SoundDocument, Document, DownloadTrusted
  <2> HIDE DEF d
  <2>2. "match" \in FlowPoints /\ Chained("match", d)
    BY <1>6, <2>1 DEF FlowPoints, Chained, BuildPoints, DownloadTrusted
  <2> QED BY <1>6, <2>1, <2>2, FlowMoveKeeps DEF DownloadTrusted, d
<1>7. CASE DownloadUntrusted
  <2>1. [Flow EXCEPT !.dmgVerified = None] \in Sound
    BY <1>1, NoneTyped DEF Sound, SoundDocument, Document
  <2> QED BY <1>7, <2>1, FlowMoveKeeps, FreePoints DEF DownloadUntrusted
<1> QED BY <1>3, <1>4, <1>5, <1>6, <1>7

\* What becomes of the verified DMG.
LEMMA MatchKeeps ==
  ASSUME Inv, MatchInstalled \/ MatchBlocked \/ MatchKnown \/ DetectUpdate
  PROVE  Inv'
<1>1. Flow \in Sound
  BY Reads DEF Flow, Proc
<1>2. Flow.dmgVerified \in Trusted
  BY DEF Inv, ChainOK, Chained, Flow, At, MatchInstalled, MatchBlocked, MatchKnown,
         DetectUpdate
<1>3. Flow.dmgVerified \in DmgOrNone /\ ManifestVersion[Flow.dmgVerified] \in VersionOrNone
  BY <1>2, ConstantsTyped
<1>4. CASE MatchInstalled
  BY <1>1, <1>3, <1>4, ClearCandidateSound, FlowMoveKeeps, FreePoints DEF MatchInstalled
<1>5. CASE MatchBlocked
  <2>1. [Flow EXCEPT !.candidate = None, !.dmg = Flow.dmgVerified,
                     !.status = "Idle"] \in Sound
    BY <1>1, <1>3, NoneTyped DEF Sound, SoundDocument, Document, Status
  <2> QED BY <1>5, <2>1, FlowMoveKeeps, FreePoints DEF MatchBlocked
<1>6. CASE MatchKnown
  <2>1. [Flow EXCEPT !.status = "Idle"] \in Sound
    BY <1>1, StatusSound DEF Status
  <2> QED BY <1>6, <2>1, FlowMoveKeeps, FreePoints DEF MatchKnown
<1>7. CASE DetectUpdate
  <2> DEFINE k == RecordKnownGood(files, Flow)
             d == [k EXCEPT !.status = "UpdateDetected",
                            !.candidate = ManifestVersion[Flow.dmgVerified],
                            !.dmg = Flow.dmgVerified,
                            !.authEvents = {}]
  <2>1. k \in Sound
    BY <1>1, RecordKnownGoodSound
  <2> HIDE DEF k
  <2>2. d \in Sound /\ d.dmg = Flow.dmgVerified
    BY <2>1, <1>3 DEF Sound, SoundDocument, Document, Status
  <2>3. FlowSave("wipe", d) /\ UNCHANGED world
    BY <1>7 DEF DetectUpdate, k
  <2> HIDE DEF d
  <2>4. "wipe" \in FlowPoints /\ Chained("wipe", d)
    BY <1>2, <2>2 DEF FlowPoints, Chained, BuildPoints
  <2> QED BY <2>2, <2>3, <2>4, FlowMoveKeeps
<1> QED BY <1>4, <1>5, <1>6, <1>7

\* The local build works on a trusted DMG throughout.
LEMMA BuildKeeps == ASSUME Inv, Build PROVE Inv'
<1>1. Flow \in Sound
  BY Reads DEF Flow, Proc
<1>2. pc["flow"] \in BuildPoints => Flow.dmg \in Trusted
  BY DEF Inv, ChainOK, Chained, Flow
<1>3. CASE WipeWorkspace
  <2>1. "prepare" \in FlowPoints /\ Chained("prepare", Flow)
    BY <1>2, <1>3 DEF FlowPoints, Chained, BuildPoints, WipeWorkspace, At
  <2>2. WorldOK'
    <3>1. FilesOK'
      BY <1>3, NoneTyped DEF Inv, WorldOK, FilesOK, WipeWorkspace
    <3> QED BY <1>3, <3>1 DEF Inv, WorldOK, OrphansOK, SysOK, CountsOK, WipeWorkspace
  <2> QED BY <1>1, <1>3, <2>1, <2>2, FlowMoveKeeps DEF WipeWorkspace, Inv
<1>4. CASE PrepareWorkspace
  <2> DEFINE d == [Flow EXCEPT !.status = "PreparingWorkspace",
                               !.packageVerified = NoPackage,
                               !.workspace = Flow.candidate]
  <2>1. d \in Sound /\ d.dmg = Flow.dmg
    BY <1>1, NoneTyped DEF Sound, SoundDocument, Document, Status
  <2>2. FlowSave("patch", d) /\ UNCHANGED world /\ pc["flow"] = "prepare"
    BY <1>4 DEF PrepareWorkspace, At
  <2> HIDE DEF d
  <2>3. "patch" \in FlowPoints /\ Chained("patch", d)
    BY <1>2, <2>1, <2>2 DEF FlowPoints, Chained, BuildPoints
  <2> QED BY <2>1, <2>2, <2>3, FlowMoveKeeps
<1>5. CASE PatchApp
  <2> DEFINE d == [Flow EXCEPT !.status = "PatchingApp"]
  <2>1. d \in Sound /\ d.dmg = Flow.dmg
    BY <1>1 DEF Sound, SoundDocument, Document, Status
  <2>2. FlowSave("package", d) /\ UNCHANGED world /\ pc["flow"] = "patch"
    BY <1>5 DEF PatchApp, At
  <2> HIDE DEF d
  <2>3. "package" \in FlowPoints /\ Chained("package", d)
    BY <1>2, <2>1, <2>2 DEF FlowPoints, Chained, BuildPoints
  <2> QED BY <2>1, <2>2, <2>3, FlowMoveKeeps
<1>6. CASE BuildPackage
  <2> DEFINE d == [Flow EXCEPT !.status = "BuildingPackage",
                               !.candidate = BundleVersion[Flow.dmg]]
  <2>1. FlowSave("finish", d) /\ UNCHANGED world /\ pc["flow"] = "package"
    BY <1>6 DEF BuildPackage, At
  <2>2. BundleVersion[Flow.dmg] \in VersionOrNone
    BY <1>2, <2>1, ConstantsTyped DEF BuildPoints
  <2>3. d \in Sound /\ d.dmg = Flow.dmg
    BY <1>1, <2>2 DEF Sound, SoundDocument, Document, Status
  <2> HIDE DEF d
  <2>4. "finish" \in FlowPoints /\ Chained("finish", d)
    BY <1>2, <2>1, <2>3 DEF FlowPoints, Chained, BuildPoints
  <2> QED BY <2>1, <2>3, <2>4, FlowMoveKeeps
<1>7. CASE FinishBuild
  <2> DEFINE built == [dmg |-> Flow.dmg, ver |-> Flow.candidate,
                       build |-> builds + 1, at |-> Flow.workspace]
             d == [Flow EXCEPT !.status = "ReadyToInstall",
                               !.package = Flow.workspace,
                               !.packageVerified = built]
  <2>1. FlowSave("checkversion", d) /\ files' = [files EXCEPT ![Flow.workspace] = built]
    BY <1>7 DEF FinishBuild
  <2>2. builds + 1 \in 0..MaxBuilds
    BY <1>7, CountsAssumption DEF FinishBuild, Inv, WorldOK, CountsOK
  <2>3. built \in Package
    BY <1>1, <2>2 DEF Sound, Document, Package
  <2>4. Trustworthy(built)
    BY <1>2, <1>7 DEF FinishBuild, At, BuildPoints, Trustworthy
  <2> HIDE DEF built
  <2>5. d \in Sound
    BY <1>1, <2>3, <2>4 DEF Sound, SoundDocument, Document, Status
  <2>6. WorldOK'
    <3>1. FilesOK'
      BY <2>1, <2>3, <2>4 DEF Inv, WorldOK, FilesOK
    <3> QED BY <1>7, <2>2, <3>1
            DEF Inv, WorldOK, OrphansOK, SysOK, CountsOK, FinishBuild
  <2> HIDE DEF d
  <2> QED BY <2>1, <2>5, <2>6, FlowMoveKeeps, FreePoints DEF Inv
<1>8. CASE CheckBuiltVersion
  BY <1>1, <1>8, FailedSound, FlowMoveKeeps, FreePoints DEF CheckBuiltVersion
<1> QED BY <1>3, <1>4, <1>5, <1>6, <1>7, <1>8 DEF Build

\* A failure, and the two ends of a check.
LEMMA EndsKeep == ASSUME Inv, StepFails \/ FailCheck \/ EndCheck PROVE Inv'
<1>1. Flow \in Sound
  BY Reads DEF Flow, Proc
<1>2. CASE StepFails
  BY <1>1, <1>2, FlowMoveKeeps, FreePoints DEF StepFails
<1>3. CASE FailCheck
  <2>1. WorldOK'
    BY <1>3, PruneKeeps DEF FailCheck
  <2> QED BY <1>1, <1>3, <2>1, FailedSound, FlowMoveKeeps, FreePoints DEF FailCheck, Inv
<1>4. CASE EndCheck
  <2>1. WorldOK'
    BY <1>4, PruneKeeps DEF EndCheck
  <2>2. CASE FlowTo("idle", Flow)
    BY <1>1, <2>1, <2>2, FlowMoveKeeps, FreePoints DEF Inv
  <2>3. CASE /\ Continue("flow", "resync", Flow)
             /\ kind' = "reconcile"
             /\ UNCHANGED <<retry, previous>>
    <3>1. "resync" \in Points("flow") /\ Chained("resync", Flow)
      BY DEF Points, FlowPoints, Chained, BuildPoints
    <3>2. ContextOK'
      BY <2>3 DEF Inv, ContextOK, AllKinds
    <3> QED BY <1>1, <2>1, <2>3, <3>1, <3>2, MoveKeeps DEF Continue, Inv, Proc
  <2> QED BY <1>4, <2>2, <2>3 DEF EndCheck
<1> QED BY <1>2, <1>3, <1>4

\* A package that is usable is an update of a trusted DMG, with the version
\* the manifest gives it: this is what lets the flow ask for its install.
LEMMA UsableIsUpdate ==
  ASSUME Inv, PackageUsable PROVE Update(Flow.packageVerified)
<1>1. Flow.dmgVerified \in Trusted
  BY Reads DEF PackageUsable, ReadyHasVerifiedDmg, Flow, Proc, Sound, SoundDocument
<1> QED
  BY <1>1 DEF PackageUsable, ReadyHasVerifiedDmg, ReadyPackageBound, Update

\* Starting the privileged install of a usable package.
LEMMA TriggerInstallKeeps ==
  ASSUME Inv, PackageUsable, NEW d \in Sound,
         d.packageVerified = Flow.packageVerified,
         TriggerInstall(d), UNCHANGED world
  PROVE  Inv'
<1> DEFINE e == WithStatus(d, "Installing")
<1>1. e \in Sound
  BY StatusSound DEF Status
<1>2. e.packageVerified = Flow.packageVerified
  BY DEF WithStatus, Sound, Document
<1> HIDE DEF e
<1>3. "authorize" \in FlowPoints /\ Chained("authorize", e)
  BY <1>2, UsableIsUpdate DEF FlowPoints, Chained, BuildPoints
<1> QED BY <1>1, <1>3, FlowMoveKeeps DEF TriggerInstall, e

\* Going back to ready, and asking for ChatGPT to be closed.
LEMMA HandBackKeeps ==
  ASSUME Inv, BackToReady \/ (\E auto \in BOOLEAN : AskToClose(auto)),
         UNCHANGED world
  PROVE  Inv'
<1>1. Flow \in Sound
  BY Reads DEF Flow, Proc
<1>2. CASE BackToReady
  <2>1. WithStatus(Flow, "ReadyToInstall") \in Sound
    BY <1>1, StatusSound DEF Status
  <2> QED BY <1>2, <2>1, FlowMoveKeeps, FreePoints DEF BackToReady
<1>3. ASSUME NEW auto \in BOOLEAN, AskToClose(auto) PROVE Inv'
  <2>1. WaitForAppExit(ClearAuthEvent(Flow), auto) \in Sound
    BY <1>1, ClearAuthEventSound, WaitForAppExitSound
  <2> QED BY <1>3, <2>1, FlowMoveKeeps, FreePoints DEF AskToClose
<1> QED BY <1>2, <1>3

\* Offering the pending package.
LEMMA OfferKeeps == ASSUME Inv, Offer PROVE Inv'
<1>1. Flow \in Sound
  BY Reads DEF Flow, Proc
<1>2. ClearAuthEvent(Flow) \in Sound
      /\ ClearAuthEvent(Flow).packageVerified = Flow.packageVerified
  BY <1>1, ClearAuthEventSound
<1>3. CASE NothingToOffer
  BY <1>1, <1>3, FlowMoveKeeps, FreePoints DEF NothingToOffer
<1>4. CASE PackageUnusable
  BY <1>1, <1>4, FailedSound, FlowMoveKeeps, FreePoints DEF PackageUnusable
<1>5. CASE ReconcileReady
  BY <1>5, HandBackKeeps DEF ReconcileReady
<1>6. CASE ReconcileStopWaiting
  BY <1>6, HandBackKeeps DEF ReconcileStopWaiting
<1>7. CASE ReconcileAppOpen
  <2>1. CASE BackToReady
    BY <1>7, <2>1, HandBackKeeps DEF ReconcileAppOpen
  <2>2. CASE Persist("flow", "idle", ClearAuthEvent(Flow)) /\ FlowContext("idle")
    <3>1. "idle" \in Points("flow") /\ Chained("idle", ClearAuthEvent(Flow))
      BY FreePoints DEF Points
    <3>2. DocsOK' /\ PointsOK' /\ ChainOK'
      BY <1>2, <2>2, <3>1, MoveKeeps DEF Persist, Flow, Proc
    <3>3. ContextOK'
      BY <2>2, ContextKeeps DEF Context, Proc
    <3> QED BY <1>7, <3>2, <3>3, WorldKeeps DEF ReconcileAppOpen, Inv
  <2> QED BY <1>7, <2>1, <2>2 DEF ReconcileAppOpen
<1>8. CASE ReconcileAppClosed
  <2>1. CASE FlowTo("idle", Flow)
    BY <1>1, <1>8, <2>1, FlowMoveKeeps, FreePoints DEF ReconcileAppClosed
  <2>2. CASE BackToReady
    BY <1>8, <2>2, HandBackKeeps DEF ReconcileAppClosed
  <2>3. CASE TriggerInstall(Flow)
    BY <1>1, <1>8, <2>3, TriggerInstallKeeps DEF ReconcileAppClosed, KeepsWaiting
  <2> QED BY <1>8, <2>1, <2>2, <2>3 DEF ReconcileAppClosed
<1>9. CASE InstallReadyAppOpen
  BY <1>9, HandBackKeeps DEF InstallReadyAppOpen
<1>10. CASE InstallReadyAppClosed
  <2>1. CASE FlowSave("idle", WithStatus(ClearAuthEvent(Flow), "ReadyToInstall"))
    <3>1. WithStatus(ClearAuthEvent(Flow), "ReadyToInstall") \in Sound
      BY <1>2, StatusSound DEF Status
    <3> QED BY <1>10, <2>1, <3>1, FlowMoveKeeps, FreePoints DEF InstallReadyAppClosed
  <2>2. CASE TriggerInstall(ClearAuthEvent(Flow))
    BY <1>2, <1>10, <2>2, TriggerInstallKeeps DEF InstallReadyAppClosed
  <2> QED BY <1>10, <2>1, <2>2 DEF InstallReadyAppClosed
<1> QED BY <1>3, <1>4, <1>5, <1>6, <1>7, <1>8, <1>9, <1>10 DEF Offer

\* The flow reads the exit status of the privileged install.
LEMMA ObserveKeeps == ASSUME Inv, Observe PROVE Inv'
<1>1. Flow \in Sound
  BY Reads DEF Flow, Proc
<1>2. CASE ObserveInstalled
  <2> DEFINE d == AfterInstall(Flow, sys.ver)
  <2>1. d \in Sound
    BY <1>1, Reads, AfterInstallSound
  <2>2. FlowSave("idle", d) /\ files' = PruneWorkspaces(files, d)
    BY <1>2 DEF ObserveInstalled
  <2> HIDE DEF d
  <2>3. WorldOK'
    BY <1>2, <2>2, PruneKeeps DEF ObserveInstalled
  <2> QED BY <2>1, <2>2, <2>3, FlowMoveKeeps, FreePoints DEF Inv
<1>3. CASE ObserveDenied
  BY <1>1, <1>3, DeferInstallSound, FlowMoveKeeps, FreePoints DEF ObserveDenied
<1>4. CASE ObserveFailed
  BY <1>1, <1>4, FailedSound, FlowMoveKeeps, FreePoints DEF ObserveFailed
<1> QED BY <1>2, <1>3, <1>4 DEF Observe

-----------------------------------------------------------------------------
(* The rollback command.                                                   *)

\* A move of the rollback command, other than to ask for authorisation.
LEMMA RollbackMoveKeeps ==
  ASSUME Inv, NEW to \in RollbackPoints, NEW d \in Sound,
         RollbackTo(to, d) \/ RollbackSave(to, d)
  PROVE  /\ DocsOK' /\ PointsOK' /\ ChainOK' /\ ContextOK'
         /\ UNCHANGED world => Inv'
<1>1. DocsOK' /\ PointsOK' /\ ChainOK'
  BY MoveKeeps DEF RollbackTo, RollbackSave, Continue, Save, Points, Proc
<1>2. ContextOK'
  BY ContextKeeps DEF RollbackTo, RollbackSave, Proc
<1> QED BY <1>1, <1>2, WorldKeeps DEF Inv

\* The decisions of the rollback command.
LEMMA RollbackDecidesKeeps ==
  ASSUME Inv,
         RollbackRefused \/ RollbackPackageGone \/ RollbackUnverified
           \/ TriggerRollback
  PROVE  Inv'
<1>1. RollbackDoc \in Sound
  BY Reads DEF RollbackDoc, Proc
<1>2. "idle" \in RollbackPoints /\ "authorize" \in Points("rollback")
  BY DEF RollbackPoints, Points
<1>3. CASE RollbackRefused \/ RollbackUnverified
  BY <1>1, <1>2, <1>3, RollbackMoveKeeps DEF RollbackRefused, RollbackUnverified
<1>4. CASE RollbackPackageGone
  <2>1. [RollbackDoc EXCEPT !.knownGood = None, !.rollback = None,
                            !.rollbackVerified = NoPackage] \in Sound
    BY <1>1, NoneTyped DEF Sound, SoundDocument, Document
  <2> QED BY <1>2, <1>4, <2>1, RollbackMoveKeeps DEF RollbackPackageGone
<1>5. CASE TriggerRollback
  <2> DEFINE d == [RollbackDoc EXCEPT !.status = "Installing"]
  <2>1. d \in Sound
    BY <1>1, StatusSound DEF Status
  <2>2. Save("rollback", "authorize", d) /\ UNCHANGED world
    BY <1>5 DEF TriggerRollback
  <2> HIDE DEF d
  <2>3. DocsOK' /\ PointsOK' /\ ChainOK'
    BY <1>2, <2>1, <2>2, MoveKeeps DEF Save, Proc
  <2>4. ContextOK'
    BY <1>1, <1>5 DEF Inv, ContextOK, TriggerRollback, Sound, Document
  <2> QED BY <2>2, <2>3, <2>4, WorldKeeps DEF Inv
<1> QED BY <1>3, <1>4, <1>5

\* The rollback command reads the exit status of its privileged install.
LEMMA RollbackObservesKeeps ==
  ASSUME Inv,
         ObserveRolledBack \/ ObserveRollbackDenied \/ ObserveRollbackFailed
  PROVE  Inv'
<1>1. RollbackDoc \in Sound /\ previous \in Status
  BY Reads DEF RollbackDoc, Proc, Inv, ContextOK
<1>2. "idle" \in RollbackPoints
  BY DEF RollbackPoints
<1>3. CASE ObserveRolledBack
  <2> DEFINE d == AfterRollback(RollbackDoc, sys.ver)
  <2>1. d \in Sound
    BY <1>1, Reads, AfterRollbackSound
  <2>2. RollbackSave("idle", d) /\ files' = PruneWorkspaces(files, d)
    BY <1>3 DEF ObserveRolledBack
  <2> HIDE DEF d
  <2>3. WorldOK'
    BY <1>3, <2>2, PruneKeeps DEF ObserveRolledBack
  <2> QED BY <1>2, <2>1, <2>2, <2>3, RollbackMoveKeeps DEF Inv
<1>4. CASE ObserveRollbackDenied
  BY <1>1, <1>2, <1>4, StatusSound, RollbackMoveKeeps DEF ObserveRollbackDenied
<1>5. CASE ObserveRollbackFailed
  BY <1>1, <1>2, <1>5, FailedSound, RollbackMoveKeeps DEF ObserveRollbackFailed
<1> QED BY <1>3, <1>4, <1>5

-----------------------------------------------------------------------------
(* The privileged install and the world.                                   *)

\* What a process that waits for authorisation asked for can be trusted.
LEMMA RequestTrusted ==
  ASSUME Inv, NEW p \in Installer, At(p, "authorize")
  PROVE  RequestOf(p) \in Request /\ TrustedRequest(RequestOf(p))
<1>1. mem[p] \in Sound
  BY Reads DEF Installer, Proc
<1>2. p = "flow" => Update(mem[p].packageVerified)
  BY DEF Inv, ChainOK, Chained, At
<1> QED
  BY <1>1, <1>2
  DEF RequestOf, Request, TrustedRequest, Trustworthy, Sound, SoundDocument,
      Document, Installer

\* The end of a privileged install, whichever it is.
LEMMA PrivilegedKeeps ==
  ASSUME Inv, NEW p \in Installer, Privileged(p) PROVE Inv'
<1>1. PICK to \in {"installed", "refused", "denied", "idle"} : Answer(p, to)
  BY DEF Privileged, PrivilegedInstall, PrivilegedFailure, AuthenticationDenied,
         LaunchFails
<1>2. p \in Proc /\ mem[p] \in Sound
  BY Reads DEF Installer, Proc
<1>3. to \in Points(p) /\ Chained(to, mem[p])
  BY DEF Points, FlowPoints, RollbackPoints, Chained, BuildPoints, Installer
<1>4. DocsOK' /\ PointsOK' /\ ChainOK'
  BY <1>1, <1>2, <1>3, MoveKeeps DEF Answer, Continue
<1>5. ContextOK'
  BY <1>1, <1>2, ContextKeeps DEF Answer
<1>6. WorldOK'
  <2>1. CASE UNCHANGED world
    BY <2>1, WorldKeeps
  <2>2. CASE PrivilegedInstall(p)
    <3>1. RequestOf(p) \in Request /\ TrustedRequest(RequestOf(p))
      BY <2>2, RequestTrusted DEF PrivilegedInstall, Answer
    <3>2. SysOK'
      BY <2>2, <3>1 DEF PrivilegedInstall, SysOK, Request, TrustedRequest
    <3> QED BY <2>2, <3>2
            DEF PrivilegedInstall, Inv, WorldOK, OrphansOK, FilesOK, CountsOK
  <2> QED BY <2>1, <2>2
          DEF Privileged, PrivilegedFailure, AuthenticationDenied, LaunchFails
<1> QED BY <1>4, <1>5, <1>6 DEF Inv

\* The documents and the processes do not change.
LEMMA DocsKeep ==
  ASSUME Inv, UNCHANGED docs
  PROVE  DocsOK' /\ PointsOK' /\ ContextOK' /\ ChainOK'
BY DEF docs, Inv, DocsOK, PointsOK, ContextOK, ChainOK

\* The steps of the environment: a surviving child only installs what was
\* asked for, and the user's own packages claim no build.
LEMMA EnvironmentKeeps == ASSUME Inv, Environment PROVE Inv'
<1>1. UNCHANGED docs
  BY DEF Environment, Publish, OpenApp, CloseApp, InstallByHand, OrphanEnds
<1>2. CASE Publish
  <2>1. upstream' \in Dmg
    BY <1>2, EnvironmentAssumption DEF Publish, Inv, WorldOK, CountsOK, Dmg
  <2> QED BY <1>1, <1>2, <2>1, DocsKeep
          DEF Publish, Inv, WorldOK, OrphansOK, FilesOK, SysOK, CountsOK
<1>3. CASE OpenApp \/ CloseApp
  BY <1>1, <1>3, DocsKeep
  DEF OpenApp, CloseApp, Inv, WorldOK, OrphansOK, FilesOK, SysOK, CountsOK
<1>4. CASE InstallByHand
  <2>1. SysOK'
    BY <1>4, NoneTyped, ManualTrusted DEF InstallByHand, Inv, WorldOK, FilesOK, SysOK
  <2>2. CountsOK'
    BY <1>4, EnvironmentAssumption DEF InstallByHand, Inv, WorldOK, CountsOK
  <2> QED BY <1>1, <1>4, <2>1, <2>2, DocsKeep
          DEF InstallByHand, Inv, WorldOK, OrphansOK, FilesOK
<1>5. CASE OrphanEnds
  <2>1. PICK r \in orphans :
          /\ orphans' = orphans \ {r}
          /\ sys' \in {sys, r.expected}
          /\ UNCHANGED <<docs, files, upstream, app, builds, commands, crashes>>
    BY <1>5 DEF OrphanEnds
  <2>2. r.expected \in Package /\ Trustworthy(r.expected)
    BY DEF Inv, WorldOK, OrphansOK, TrustedRequest, Request
  <2>3. SysOK' /\ OrphansOK'
    BY <2>1, <2>2 DEF Inv, WorldOK, SysOK, OrphansOK
  <2> QED BY <1>1, <2>1, <2>3, DocsKeep DEF Inv, WorldOK, FilesOK, CountsOK
<1> QED BY <1>2, <1>3, <1>4, <1>5 DEF Environment

\* A process dies: its document is lost, the install it asked for is not.
LEMMA CrashKeeps == ASSUME Inv, NEW p \in Proc, Crash(p) PROVE Inv'
<1>1. mem[p] \in Sound
  BY Reads
<1>2. "idle" \in Points(p) /\ Chained("idle", mem[p])
  BY DEF Points, FlowPoints, StatusPoints, RollbackPoints, Chained, BuildPoints
<1>3. DocsOK' /\ PointsOK' /\ ChainOK'
  BY <1>1, <1>2, MoveKeeps DEF Crash, Continue
<1>4. ContextOK'
  BY ContextKeeps DEF Crash
<1>5. OrphansOK'
  <2>1. CASE At(p, "authorize")
    <3>1. p \in Installer
      BY <2>1 DEF Inv, PointsOK, Points, At, StatusPoints, Proc, Installer
    <3> QED BY <2>1, <3>1, RequestTrusted DEF Crash, Inv, WorldOK, OrphansOK
  <2>2. CASE ~At(p, "authorize")
    BY <2>2 DEF Crash, Inv, WorldOK, OrphansOK
  <2> QED BY <2>1, <2>2
<1>6. CountsOK'
  BY EnvironmentAssumption DEF Crash, Inv, WorldOK, CountsOK
<1> QED
  BY <1>3, <1>4, <1>5, <1>6 DEF Crash, Inv, WorldOK, FilesOK, SysOK

-----------------------------------------------------------------------------
(* Every step, and what the invariant gives.                               *)

\* Inv is inductive: one case per action, or group of actions, of Next.
LEMMA NextKeeps == ASSUME Inv, [Next]_vars PROVE Inv'
<1>1. CASE UNCHANGED vars
  BY <1>1, DocsKeep, WorldKeeps DEF vars, Inv
<1>2. ASSUME NEW k \in Kinds, StartFlow(k) PROVE Inv'
  BY <1>2, StartFlowKeeps
<1>3. ASSUME NEW p \in Commands \cap Proc, StartCommand(p) PROVE Inv'
  BY <1>3, StartCommandKeeps
<1>4. ASSUME NEW p \in Proc, Shared(p) PROVE Inv'
  BY <1>4, SyncEntryKeeps, RecoverKeeps, CompleteCurrentKeeps, CompletePendingKeeps,
     NormalizeKeeps DEF Shared
<1>5. CASE FlowStep
  <2>1. CASE Check
    BY <2>1, CheckKeeps, MatchKeeps, EndsKeep DEF Check
  <2> QED
    BY <1>4, <1>5, <2>1, ResyncKeeps, BuildKeeps, OfferKeeps, ObserveKeeps
    DEF FlowStep, Proc
<1>6. CASE StatusStep
  BY <1>4, <1>6 DEF StatusStep, Proc
<1>7. CASE RollbackStep
  BY <1>7, SyncEntryKeeps, RollbackDecidesKeeps, RollbackObservesKeeps
  DEF RollbackStep, Proc
<1>8. ASSUME NEW p \in Installer, Privileged(p) PROVE Inv'
  BY <1>8, PrivilegedKeeps
<1>9. ASSUME NEW p \in Proc, Crash(p) PROVE Inv'
  BY <1>9, CrashKeeps
<1>10. CASE Environment
  BY <1>10, EnvironmentKeeps
<1> QED
  BY <1>1, <1>2, <1>3, <1>5, <1>6, <1>7, <1>8, <1>9, <1>10 DEF Next

\* Inv implies the type invariant.
LEMMA InvTyped == Inv => TypeOK
<1> SUFFICES ASSUME Inv PROVE TypeOK
  OBVIOUS
<1>1. disk \in Document /\ mem \in [Proc -> Document]
  BY DEF Inv, DocsOK, Sound
<1>2. /\ pc["flow"] \in FlowPoints
      /\ pc["status"] \in StatusPoints
      /\ pc["rollback"] \in RollbackPoints
  BY DEF Inv, PointsOK, Points, Proc
<1> QED
  BY <1>1, <1>2
  DEF TypeOK, Inv, PointsOK, ContextOK, WorldOK, OrphansOK, FilesOK, SysOK, CountsOK

\* Inv implies that trust is carried from document to document.
LEMMA InvChain == Inv => TrustChain
<1> SUFFICES ASSUME Inv PROVE TrustChain
  OBVIOUS
<1>1. SoundDocument(disk) /\ \A p \in Proc : SoundDocument(mem[p])
  BY Reads DEF Sound
<1>2. /\ At("flow", "match") => Flow.dmgVerified \in Trusted
      /\ pc["flow"] \in BuildPoints => Flow.dmg \in Trusted
      /\ At("flow", "authorize") => Update(Flow.packageVerified)
  BY DEF Inv, ChainOK, Chained, At, Flow
<1> QED
  BY <1>1, <1>2
  DEF TrustChain, Inv, WorldOK, OrphansOK, FilesOK, SysOK, TrustedRequest

\* Inv implies that only what can be trusted is installed, or about to be.
LEMMA InvTrusted == Inv => OnlyTrustedInstalled
<1> SUFFICES ASSUME Inv PROVE OnlyTrustedInstalled
  OBVIOUS
<1>1. ASSUME NEW r \in Requests PROVE TrustedRequest(r)
  <2>1. CASE r \in orphans
    BY <2>1 DEF Inv, WorldOK, OrphansOK
  <2>2. CASE r \notin orphans
    <3>1. PICK p \in Installer : At(p, "authorize") /\ r = RequestOf(p)
      BY <2>2 DEF Requests
    <3> QED BY <3>1, RequestTrusted
  <2> QED BY <2>1, <2>2
<1> QED
  BY <1>1 DEF OnlyTrustedInstalled, TrustedRequest, Inv, WorldOK, SysOK

\* Inv holds in every state of every behaviour, whatever the constants.
THEOREM Invariance == Spec => []Inv
BY InitInv, NextKeeps, PTL DEF Spec

\* Every variable keeps its type: no flow, command, crash or surviving child
\* leaves a document, a point or a package outside the model's range.
THEOREM TypeCorrect == Spec => []TypeOK
BY Invariance, InvTyped, PTL

\* What the trusted manifest decided about a downloaded DMG is carried by
\* every document, in memory or on disk, up to the package that is offered.
THEOREM TrustIsCarried == Spec => []TrustChain
BY Invariance, InvChain, PTL

\* Whatever interleaves, only packages whose DMG is in the trusted manifest
\* are installed or about to be, updates with the version it gives them.
THEOREM TrustedOnly == Spec => []OnlyTrustedInstalled
BY Invariance, InvTrusted, PTL
=============================================================================
