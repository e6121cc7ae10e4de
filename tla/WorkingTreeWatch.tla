--------------------------- MODULE WorkingTreeWatch ---------------------------
(***************************************************************************)
(* One working tree, followed by a watch on each of its directories while  *)
(* another program makes, removes and replaces directories.  A watch stays *)
(* on the directory it was put on, the name may lead elsewhere, and a new  *)
(* directory may get the inode number of the old one.  Three retries with  *)
(* timers of their own repair what failed: the root's metadata, kernel     *)
(* resources, and git's answers.  The budget (WatchBudget) is never spent  *)
(* here.  Delays are left out: a timer may fire at any time.               *)
(***************************************************************************)
EXTENDS Integers, FiniteSets, SequencesExt

CONSTANTS Below,        \* directories below the root
          Parent,       \* the directory that holds each of them
          ScanRetries,  \* 2: how often one scan reads a directory again
          RootAttempts, \* 2: rootMetadataRetryAttempts before the watch gives up
          MaxPending,   \* 256: MAX_PENDING_DIRECTORY_SYNCS
          Tries,        \* 3: asynchronous failures of one watch before it gives up
          MaxTrouble,   \* bound: changes of the tree and calls that fail
          Repeats       \* bound: whether git changes, or the root is replaced, after
                        \* another change

Root == "root"
Git == "git"            \* the directory of the index and the exclude file
Paths == Below \cup {Root}

ASSUME WatchAssumption ==
    /\ Root \notin Below /\ Git \notin Below
    /\ Parent \in [Below -> Paths]
    /\ {ScanRetries, RootAttempts, MaxPending, Tries, MaxTrouble} \subseteq Nat
    /\ Repeats \in BOOLEAN

VARIABLES disk,     \* the directories, what git ignores, what cannot be read
          kernel,   \* events not delivered yet
          s,        \* what startDirectoryOnlyWorkingTreeWatch keeps
          broke,    \* whether a watch has failed after it was made
          changes, faults
vars == <<disk, kernel, s, broke, changes, faults>>

\* A directory, and one watch: the number of the object, and its inode number.
Absent == [obj |-> 0, ino |-> 0]
NoWork == [kind |-> "none"]
Here(p) == disk.node[p]

\* The directories of a set and everything below them.
Ancestors[p \in Paths] == IF p = Root THEN {Root} ELSE {p} \cup Ancestors[Parent[p]]
Subtree(ps) == {q \in Paths : Ancestors[q] \cap ps # {}}
Ignored(w, p) == p # Root /\ Ancestors[p] \cap w.ignored # {}

\* directoryMetadataState: there, absent, or not to be told.
Known(p) == Ancestors[p] \cap disk.locked = {}
There(p) == Known(p) /\ Here(p) # Absent
Gone(p) == Known(p) /\ Here(p) = Absent
\* gitEntryExists and refreshDirectoryIdentity: what cannot be told counts as absent.
GitSeen == IF disk.locked = {} THEN disk.git ELSE Absent

-----------------------------------------------------------------------------
(* Closing. *)

\* finish: everything is closed and nothing goes on.
Finished(w) == [w EXCEPT
    !.disposed = TRUE, !.watch = [p \in Paths |-> Absent], !.refresh = Absent,
    !.queued = FALSE, !.queue = <<>>, !.work = NoWork, !.pending = {}, !.syncing = "no",
    !.full = FALSE, !.fullInval = FALSE, !.gitInval = FALSE, !.rootInvalid = FALSE,
    !.mappingInvalid = FALSE, !.topology = [timer |-> FALSE, git |-> FALSE, busy |-> FALSE, rerun |-> FALSE],
    !.rootRetry = [timer |-> FALSE, attempts |-> 0, git |-> FALSE, restart |-> FALSE],
    !.gitTimer = FALSE, !.targetsRetry = FALSE, !.ignoresRetry = FALSE, !.watchesRetry = FALSE,
    !.targets = FALSE, !.ignored = {}, !.blind = {}, !.tried = [p \in Paths |-> [ino |-> 0, n |-> 0]],
    !.resource = [timer |-> FALSE, busy |-> FALSE, failed |-> FALSE, clean |-> TRUE, scan |-> TRUE]]

\* closeDirectoryWatch and closeRefreshWatch: the coordinator will hear of it.
Close(w, ps) ==
    IF \A p \in ps : w.watch[p] = Absent THEN w
    ELSE [w EXCEPT !.watch = [p \in Paths |-> IF p \in ps THEN Absent ELSE @[p]],
                   !.queued = TRUE]
CloseRefresh(w) ==
    IF w.refresh = Absent THEN w ELSE [w EXCEPT !.refresh = Absent, !.queued = TRUE]

\* closeSubtrees keeps the root's own watch.
CloseSubtrees(w, ps) == Close(w, Subtree(ps) \ {Root})

-----------------------------------------------------------------------------
(* The timers. *)

ScheduleRefresh(w, git) ==
    IF w.disposed THEN w
    ELSE IF w.topology.busy
         THEN [w EXCEPT !.topology.git = @ \/ git, !.topology.rerun = TRUE]
         ELSE [w EXCEPT !.topology.git = @ \/ git, !.topology.timer = TRUE]

\* scheduleRootMetadataRetry: after RootAttempts the watch is given up, when it
\* may be stale or the root is not watched at all.
ScheduleRoot(w, git, restart) ==
    LET asked == [w EXCEPT !.rootRetry.git = @ \/ git, !.rootRetry.restart = @ \/ restart]
    IN IF w.disposed \/ w.rootRetry.timer THEN asked
       ELSE IF w.rootRetry.attempts < RootAttempts THEN [asked EXCEPT !.rootRetry.timer = TRUE]
       ELSE IF asked.rootRetry.restart \/ w.watch[Root] = Absent THEN Finished(w)
       ELSE asked
ResetRoot(w) ==
    [w EXCEPT !.rootRetry = [timer |-> FALSE, attempts |-> 0, git |-> FALSE, restart |-> FALSE]]

ScheduleGit(w) == IF w.disposed THEN w ELSE [w EXCEPT !.gitTimer = TRUE]

ScheduleResource(w) ==
    IF w.disposed \/ w.resource.busy THEN w ELSE [w EXCEPT !.resource.timer = TRUE]
\* noteWatchResourceFailure
NoteResource(w) ==
    ScheduleResource([w EXCEPT !.resource.failed = @ \/ w.resource.busy,
                               !.resource.clean = FALSE, !.resource.scan = FALSE])
Defers(w) ==
    (w.resource.timer /\ ~w.resource.busy) \/ (w.resource.busy /\ w.resource.failed)

\* scheduleDirectorySync and armDirectorySyncWork
ScheduleSync(w, p) ==
    LET noted == [w EXCEPT
          !.fullInval = @ \/ (p \in Paths /\ w.watch[p] # Absent),
          !.gitInval = @ \/ (p = Git /\ w.refresh # Absent)]
        added == IF w.full THEN noted
                 ELSE IF p \notin w.pending /\ Cardinality(w.pending) >= MaxPending
                 THEN [noted EXCEPT !.pending = {}, !.full = TRUE]
                 ELSE [noted EXCEPT !.pending = @ \cup {p}]
    IN IF w.disposed THEN w
       ELSE IF w.syncing = "no" THEN [added EXCEPT !.syncing = "armed"] ELSE added

\* updateRootMetadataRetry
UpdateRoot(w, git) ==
    IF w.disposed THEN w
    ELSE IF ~(w.work.unknown \/ w.work.retry) THEN ResetRoot(w)
    ELSE IF w.resource.busy THEN w ELSE ScheduleRoot(w, git, TRUE)

-----------------------------------------------------------------------------
(* Watching.  "how" is what fs.watch does: ok, resource or other. *)

\* addDirectoryWatch, with the metadata that was just read
AddWatch(w, p, how) ==
    LET Answer(v, status) == [w |-> v, status |-> status]
        forgotten == IF p = Root THEN [w EXCEPT !.mappingInvalid = TRUE] ELSE w
    IN IF w.disposed \/ Ignored(w, p) THEN Answer(w, "skipped")
       ELSE IF ~There(p) THEN Answer(w, "error")
       ELSE IF w.watch[p] # Absent
       THEN IF w.watch[p].ino = Here(p).ino THEN Answer(w, "existing")
            ELSE Answer(Close(CloseSubtrees(forgotten, {p}), {p}), "after-release")
       ELSE IF p # Root /\ Defers(w) THEN Answer(w, "pending")
       ELSE IF p # Root /\ w.queued THEN Answer(w, "after-release")
       ELSE CASE how = "ok" -> Answer([w EXCEPT !.watch[p] = Here(p)], "added")
              [] how = "resource" ->
                   Answer(IF p = Root THEN w ELSE NoteResource(w), "error")
              [] how = "other" -> Answer(w, IF p = Root THEN "error" ELSE "required")

\* ensureRefreshWatches: [w |-> ..., changed |-> whether a watch was closed or made]
EnsureRefresh(w, how) ==
    LET wanted == w.targets /\ ~(w.refresh # Absent /\ w.refresh.ino = GitSeen.ino)
        closed == IF wanted THEN CloseRefresh(w) ELSE w
        tries == /\ wanted /\ GitSeen # Absent /\ ~w.gitTimer
                 /\ ~closed.queued /\ ~Defers(w)
        again == wanted /\ (GitSeen = Absent \/ w.gitTimer \/ closed.queued
                             \/ (tries /\ how = "other"))
        made == IF tries /\ how = "ok" THEN [closed EXCEPT !.refresh = disk.git]
                ELSE IF tries /\ how = "resource" THEN NoteResource(closed) ELSE closed
        noted == [made EXCEPT !.watchesRetry = again]
    IN IF w.watch[Root] = Absent
       THEN [w |-> [w EXCEPT !.watchesRetry = FALSE], changed |-> FALSE]
       ELSE [w |-> IF again \/ w.targetsRetry THEN ScheduleGit(noted)
                   ELSE IF w.ignoresRetry THEN noted ELSE [noted EXCEPT !.gitTimer = FALSE],
             changed |-> wanted /\ (w.refresh # Absent \/ (tries /\ how = "ok"))]

\* The answers of git are waited for.  Where the root cannot be read git fails,
\* and as .git cannot be seen either that is taken for an answer: there is none.
\* "blind" keeps for the properties which answers were of that kind.
Asked(w, answered, what) ==
    [w EXCEPT !.blind = IF answered /\ disk.locked # {} THEN @ \cup {what} ELSE @ \ {what}]

\* loadRefreshTargets, its first part
LoadTargets(w, answered) ==
    LET found == IF answered THEN GitSeen # Absent ELSE w.targets
        noted == [Asked(w, answered, "targets") EXCEPT !.targetsRetry = ~answered,
                                                       !.targets = found]
    IN IF found THEN noted ELSE CloseRefresh(noted)

\* reloadGitIgnoresAndPrune: without an answer nothing is ignored.
LoadIgnores(w, answered) ==
    LET loaded == [Asked(w, answered, "ignores") EXCEPT
                     !.ignored = IF answered /\ GitSeen # Absent THEN disk.ignored ELSE {},
                     !.ignoresRetry = ~answered]
        pruned == Close(loaded, {p \in Below : Ignored(loaded, p)})
    IN IF ~answered THEN ScheduleGit(pruned)
       ELSE IF w.targetsRetry \/ w.watchesRetry THEN pruned
       ELSE [pruned EXCEPT !.gitTimer = FALSE]


\* Mutant: the watches of git's files are kept when the root was another one.
ConsumeMappingMutant(w) ==
    IF ~w.mappingInvalid THEN w
    ELSE [w EXCEPT !.mappingInvalid = FALSE, !.targets = FALSE,
            !.gitTimer = FALSE, !.ignored = {}, !.targetsRetry = TRUE, !.watchesRetry = FALSE]

\* consumeRefreshTargetMappingInvalidation
ConsumeMapping(w) ==
    IF ~w.mappingInvalid THEN w
    ELSE [CloseRefresh(w) EXCEPT !.mappingInvalid = FALSE, !.targets = FALSE,
            !.gitTimer = FALSE, !.ignored = {}, !.targetsRetry = TRUE, !.watchesRetry = FALSE]

-----------------------------------------------------------------------------
(* The disk, changed by others, and the events that the kernel sends to the *)
(* watches that are on the directories concerned.                           *)

Init ==
    /\ disk \in [node : {[p \in Paths |-> IF p \in there THEN [obj |-> 1, ino |-> 1] ELSE Absent] :
                          there \in {S \in SUBSET Paths : Root \in S /\
                                       \A p \in S \ {Root} : Parent[p] \in S}},
                 git : {[obj |-> 1, ino |-> 1]}, ignored : {{}}, locked : {{}}]
    /\ kernel = <<>> /\ broke = FALSE /\ changes = 0 /\ faults = 0
    /\ s = [disposed |-> FALSE, started |-> FALSE, listening |-> FALSE,
            watch |-> [p \in Paths |-> Absent], refresh |-> Absent,
            tried |-> [p \in Paths |-> [ino |-> 0, n |-> 0]],
            queued |-> FALSE, queue |-> <<>>, work |-> NoWork,
            pending |-> {}, syncing |-> "no", full |-> FALSE, fullInval |-> FALSE,
            gitInval |-> FALSE, rootInvalid |-> FALSE, mappingInvalid |-> FALSE,
            topology |-> [timer |-> FALSE, git |-> FALSE, busy |-> FALSE, rerun |-> FALSE],
            rootRetry |-> [timer |-> FALSE, attempts |-> 0, git |-> FALSE, restart |-> FALSE],
            gitTimer |-> FALSE, targetsRetry |-> FALSE, ignoresRetry |-> FALSE,
            watchesRetry |-> FALSE, targets |-> FALSE, ignored |-> {}, blind |-> {},
            resource |-> [timer |-> FALSE, busy |-> FALSE, failed |-> FALSE,
                          clean |-> TRUE, scan |-> TRUE]]

Heard(p) == s.watch[p] # Absent /\ s.watch[p].obj = Here(p).obj
GitHeard == s.refresh # Absent /\ s.refresh.obj = disk.git.obj
Event(on, watch, name) == [on |-> on, obj |-> watch.obj, name |-> name]
Told(on, watch, alive, name) == IF alive THEN <<Event(on, watch, name)>> ELSE <<>>

Changed == changes + faults < MaxTrouble /\ changes' = changes + 1 /\ UNCHANGED <<s, broke, faults>>
Free == Repeats \/ changes = 0
Fresh(old, reuse) ==
    [obj |-> changes + 2, ino |-> IF reuse /\ old # Absent THEN old.ino ELSE changes + 2]

\* A directory is replaced, made or removed, with what is below it.
Replace(p, below, reuse) ==
    /\ Changed /\ (p = Root => Free)
    /\ p # Root => Here(Parent[p]) # Absent
    /\ p \notin below /\ \A q \in below : Parent[q] \in below \cup {p}
    /\ disk' = [disk EXCEPT !.node = [q \in Paths |->
                 IF q \in below \cup {p} THEN Fresh(@[q], reuse)
                 ELSE IF q \in Subtree({p}) THEN Absent ELSE @[q]],
               !.git = IF p = Root THEN Fresh(@, reuse) ELSE @]
    /\ kernel' = kernel \o (IF p = Root THEN Told(Root, s.watch[Root], Heard(Root), "self")
                            ELSE Told(Parent[p], s.watch[Parent[p]], Heard(Parent[p]), p))

Delete(p) ==
    /\ Changed /\ Here(p) # Absent
    /\ disk' = [disk EXCEPT !.node = [q \in Paths |-> IF q \in Subtree({p}) THEN Absent ELSE @[q]],
                            !.git = IF p = Root THEN Absent ELSE @]
    /\ kernel' = kernel \o (IF p = Root THEN Told(Root, s.watch[Root], Heard(Root), "self")
                            ELSE Told(Parent[p], s.watch[Parent[p]], Heard(Parent[p]), p))

\* .git is replaced, made or removed.
ReplaceGit(there, reuse) ==
    /\ Changed /\ Free /\ Here(Root) # Absent /\ (there \/ disk.git # Absent)
    /\ disk' = [disk EXCEPT !.git = IF there THEN Fresh(@, reuse) ELSE Absent]
    /\ kernel' = kernel \o Told(Git, s.refresh, GitHeard, "self")
                       \o Told(Root, s.watch[Root], Heard(Root), Git)

\* What git ignores changes with .gitignore, or with the index.
Ignore(ps, file) ==
    /\ Changed /\ Free /\ disk.git # Absent /\ ps # disk.ignored
    /\ disk' = [disk EXCEPT !.ignored = ps]
    /\ kernel' = kernel \o (IF file = "index" THEN Told(Git, s.refresh, GitHeard, "index")
                            ELSE Told(Root, s.watch[Root], Heard(Root), ".gitignore"))

\* The root cannot be read for a time, or for good.
Lock ==
    /\ changes + faults < MaxTrouble /\ disk.locked = {}
    /\ faults' = faults + 1 /\ disk' = [disk EXCEPT !.locked = {Root}]
    /\ UNCHANGED <<kernel, s, broke, changes>>
Unlock ==
    /\ disk.locked # {} /\ disk' = [disk EXCEPT !.locked = {}]
    /\ UNCHANGED <<kernel, s, broke, changes, faults>>

-----------------------------------------------------------------------------
(* Events and timers. *)

\* One step of the program.  A call that fails is counted.
Outcome(how) == IF how = "ok" THEN UNCHANGED faults
                ELSE changes + faults < MaxTrouble /\ faults' = faults + 1
Step(w, how) == UNCHANGED <<disk, kernel, broke, changes>> /\ Outcome(how) /\ s' \in {w}
Hows == {"ok", "resource", "other"}
Enqueue(w, kind, git) == [w EXCEPT !.queue = Append(@, [kind |-> kind, git |-> git])]

\* emitChange.  The root's own rename cannot be told from that of a child with
\* its name; the root is then watched anew.
EmitChange(w, p, name, named) ==
    LET rootGone == ~There(Root) \/ Here(Root).ino # w.watch[Root].ino
        invalid == [w EXCEPT !.rootInvalid = TRUE, !.mappingInvalid = TRUE]
    IN IF p = Root /\ (~named \/ name = "self" \/ (rootGone /\ name # ".gitignore"))
       THEN ScheduleRefresh(invalid, TRUE)
       ELSE IF ~named THEN ScheduleRefresh(ScheduleSync(w, p), TRUE)
       ELSE IF name = ".gitignore" THEN ScheduleRefresh(w, TRUE)
       ELSE IF name = Git
       THEN ScheduleRefresh([ScheduleSync(w, Git) EXCEPT !.mappingInvalid = TRUE], TRUE)
       ELSE ScheduleSync(w, name)


RefreshEvent(w, name, named) ==
    IF ~named \/ name = "self" \/ GitSeen.ino # w.refresh.ino
    THEN ScheduleGit(ScheduleRefresh(CloseRefresh([w EXCEPT !.watchesRetry = TRUE]), TRUE))
    ELSE ScheduleRefresh(w, TRUE)

\* The kernel's first event reaches the program, unless its watch has been
\* closed.  It may have lost its name.
Deliver(named) ==
    /\ kernel # <<>> /\ kernel' = Tail(kernel)
    /\ LET e == Head(kernel)
           alive == IF e.on = Git THEN s.refresh.obj = e.obj ELSE s.watch[e.on].obj = e.obj
       IN s' \in {IF ~alive THEN s
                  ELSE IF e.on = Git THEN RefreshEvent(s, e.name, named)
                  ELSE EmitChange(s, e.on, e.name, named)}
    /\ UNCHANGED <<disk, broke, changes, faults>>

\* A watch fails after it was made.
Fails(w, how) ==
    /\ how # "ok" /\ Outcome(how) /\ broke' = TRUE /\ s' \in {w}
    /\ UNCHANGED <<disk, kernel, changes>>
Broken(p, how) ==
    /\ s.watch[p] # Absent
    /\ LET ino == s.watch[p].ino
           n == IF s.tried[p].ino = ino THEN s.tried[p].n + 1 ELSE 1
           counted == [s EXCEPT !.tried[p] = [ino |-> ino, n |-> n]]
       IN Fails(IF p = Root \/ (how = "other" /\ n >= Tries) THEN Finished(s)
                ELSE IF how = "resource" THEN CloseSubtrees(NoteResource(s), {p})
                ELSE ScheduleRefresh(CloseSubtrees(counted, {p}), ~s.gitTimer), how)
BrokenRefresh(how) ==
    /\ s.refresh # Absent
    /\ LET closed == CloseRefresh([s EXCEPT !.watchesRetry = TRUE])
       IN Fails(IF how = "resource" THEN NoteResource(closed) ELSE ScheduleGit(closed), how)

\* The session starts with its root.
Start(how) ==
    /\ ~s.started
    /\ LET started == [s EXCEPT !.started = TRUE]
           added == AddWatch(started, Root, how)
       IN Step(IF ~Known(Root) THEN ScheduleRoot([started EXCEPT !.listening = TRUE], TRUE, TRUE)
               ELSE IF added.status = "error" THEN Finished(started)
               ELSE Enqueue(added.w, "initial", FALSE), how)

\* The coordinator's pass: a root without a watch gets one.
Pass(how) ==
    /\ s.queued
    /\ LET heard == [s EXCEPT !.queued = FALSE]
           added == AddWatch(ResetRoot(heard), Root, how)
       IN Step(IF ~s.listening \/ s.watch[Root] # Absent \/ s.rootRetry.timer
                    \/ s.resource.timer \/ s.resource.busy THEN heard
               ELSE IF ~Known(Root) THEN ScheduleRoot(heard, TRUE, TRUE)
               ELSE IF added.status = "error" THEN Finished(s) ELSE added.w, how)

TopologyTick ==
    /\ s.topology.timer
    /\ Step(Enqueue([s EXCEPT !.topology = [@ EXCEPT !.timer = FALSE, !.git = FALSE, !.busy = TRUE]],
                    "refresh", s.topology.git), "ok")

\* Mutant: the attempts are not counted.
RootTickMutant ==
    /\ s.rootRetry.timer
    /\ Step(Enqueue([s EXCEPT !.rootRetry = [@ EXCEPT !.timer = FALSE, !.git = FALSE]],
                    "root", s.rootRetry.git), "ok")

RootTick ==
    /\ s.rootRetry.timer
    /\ Step(Enqueue([s EXCEPT !.rootRetry = [@ EXCEPT !.timer = FALSE, !.git = FALSE,
                                                      !.attempts = @ + 1]],
                    "root", s.rootRetry.git), "ok")
\* The retries of git and of the kernel wait while the root's is due, git's
\* also while the kernel's is due or under way.
GitTick ==
    /\ s.gitTimer /\ ~s.rootRetry.timer /\ ~s.resource.timer /\ ~s.resource.busy
    /\ Step(Enqueue([s EXCEPT !.gitTimer = FALSE], "git", TRUE), "ok")
ResourceTick ==
    /\ s.resource.timer /\ ~s.rootRetry.timer
    /\ Step(Enqueue([s EXCEPT !.resource = [@ EXCEPT !.timer = FALSE, !.busy = TRUE,
                                                     !.failed = FALSE]],
                    "resource", TRUE), "ok")
SyncTick ==
    /\ s.syncing = "armed"
    /\ Step(Enqueue([s EXCEPT !.syncing = "queued"], "sync", TRUE), "ok")

-----------------------------------------------------------------------------
(* The topology work, one piece at a time, from one await to the next. *)

Job(entry, pc) ==
    [kind |-> entry.kind, pc |-> pc, git |-> entry.git, both |-> TRUE, then |-> "",
     before |-> FALSE, was |-> FALSE, changed |-> FALSE,
     dirs |-> {}, need |-> FALSE,
     start |-> Root, todo |-> <<>>, met |-> Absent, read |-> "ok", kids |-> {},
     idTries |-> [p \in Paths |-> 0], readTries |-> [p \in Paths |-> 0],
     incomplete |-> {}, unknown |-> FALSE, retry |-> FALSE, complete |-> FALSE]
At(pc) == s.work # NoWork /\ s.work.pc = pc
Goto(w, pc) == IF w.disposed THEN w ELSE [w EXCEPT !.work.pc = pc]
\* The git questions are asked, and the work goes on at "then".
Ask(w, then) ==
    IF w.disposed THEN w ELSE [w EXCEPT !.work.pc = "targets", !.work.then = then]
Scan(w, start) ==
    IF w.disposed THEN w
    ELSE [w EXCEPT !.work = [Job([kind |-> @.kind, git |-> @.git], "visit") EXCEPT
                               !.start = start, !.todo = <<start>>,
                               !.dirs = w.work.dirs, !.need = w.work.need],
                   !.resource.scan = TRUE]


\* Mutant: the watches of a renamed name are trusted to their inode numbers.
FlushMutant(w, how) ==
    LET taken == [w EXCEPT !.full = FALSE, !.fullInval = FALSE, !.gitInval = FALSE,
                           !.pending = {}]
        all == IF w.fullInval THEN CloseSubtrees(taken, {Root}) ELSE taken
        ensured == EnsureRefresh(IF Git \in w.pending THEN CloseRefresh(taken) ELSE taken, how)
        dirs == {p \in w.pending \cap Paths : There(p)}
        noted == [ensured.w EXCEPT !.work.dirs = dirs,
                                   !.work.need = \E p \in w.pending : ~Known(IF p = Git THEN Root ELSE p)]
    IN IF w.full THEN Goto(IF w.gitInval THEN CloseRefresh(all) ELSE all, "enter")
       ELSE IF ensured.changed \/ dirs # {} \/ (Git \in w.pending /\ GitSeen # Absent)
       THEN Ask(noted, "dirs") ELSE Goto(noted, "dirs")

\* flushDirectorySyncs, up to its first await.  A name that was renamed loses
\* its watches whatever its inode number is now.
Flush(w, how) ==
    LET taken == [w EXCEPT !.full = FALSE, !.fullInval = FALSE, !.gitInval = FALSE,
                           !.pending = {}]
        all == IF w.fullInval THEN CloseSubtrees(taken, {Root}) ELSE taken
        named == CloseSubtrees(taken, w.pending \cap Paths)
        ensured == EnsureRefresh(IF Git \in w.pending THEN CloseRefresh(named) ELSE named, how)
        dirs == {p \in w.pending \cap Paths : There(p)}
        noted == [ensured.w EXCEPT !.work.dirs = dirs,
                                   !.work.need = \E p \in w.pending : ~Known(IF p = Git THEN Root ELSE p)]
    IN IF w.full THEN Goto(IF w.gitInval THEN CloseRefresh(all) ELSE all, "enter")
       ELSE IF ensured.changed \/ dirs # {} \/ (Git \in w.pending /\ GitSeen # Absent)
       THEN Ask(noted, "dirs") ELSE Goto(noted, "dirs")

Take(how) ==
    /\ s.queue # <<>> /\ s.work = NoWork
    /\ LET entry == Head(s.queue)
           Taken(pc) == [s EXCEPT !.queue = Tail(@), !.work = Job(entry, pc)]
           quiet == ~s.resource.timer /\ ~s.resource.busy
           both == quiet /\ ~s.gitTimer
           w == CASE entry.kind = "initial" -> Ask(Taken("targets"), "scan")
                  [] entry.kind = "refresh" -> Taken("enter")
                  [] entry.kind = "sync" -> Flush(Taken("dirs"), how)
                  [] entry.kind = "root" ->
                       [Taken("enter") EXCEPT !.work.git = @ /\ both, !.work.both = both]
                  [] entry.kind = "resource" ->
                       [Taken(IF s.rootRetry.timer THEN "end" ELSE "enter")
                          EXCEPT !.resource.clean = TRUE, !.work.git = ~s.gitTimer,
                                 !.work.both = ~s.gitTimer]
                  [] entry.kind = "git" ->
                       IF quiet /\ ~s.rootRetry.timer
                       THEN Ask([Taken("targets") EXCEPT
                                   !.work.was = s.targetsRetry \/ s.ignoresRetry], "more")
                       ELSE ScheduleGit(Taken("end"))
       IN Step(w, how)

\* reconcileTopology, up to the questions to git
Enter(how) ==
    /\ At("enter") /\ ~s.queued
    /\ LET valid == IF ~s.rootInvalid THEN s
                    ELSE Close(CloseSubtrees([s EXCEPT !.rootInvalid = FALSE,
                                                       !.mappingInvalid = TRUE], {Root}), {Root})
           added == AddWatch([valid EXCEPT !.rootRetry.restart = FALSE], Root, how)
           rooted == IF valid.watch[Root] = Absent THEN added.w ELSE valid
           consumed == ConsumeMapping(rooted)
       IN Step(IF valid.watch[Root] = Absent /\ ~Known(Root)
               THEN Goto(ScheduleRoot(valid, s.work.git, TRUE), "end")
               ELSE IF valid.watch[Root] = Absent /\ added.status = "error" THEN Finished(s)
               ELSE IF s.work.git \/ rooted.mappingInvalid THEN Ask(consumed, "prune")
               ELSE Goto(consumed, "prune"), how)

\* The watches whose directory is absent, is another one by its inode number,
\* or is ignored.
Prune ==
    /\ At("prune")
    /\ LET stale == {p \in Paths : /\ s.watch[p] # Absent
                                   /\ \/ Gone(p) \/ Ignored(s, p)
                                      \/ There(p) /\ Here(p).ino # s.watch[p].ino}
           closed == CloseSubtrees(s, stale)
       IN Step(Goto(IF Root \in stale
                    THEN Close([closed EXCEPT !.mappingInvalid = TRUE], {Root}) ELSE closed,
                    "root"), "ok")

Rooted(how) ==
    /\ At("root") /\ ~s.queued
    /\ LET added == AddWatch([s EXCEPT !.rootRetry.restart = FALSE], Root, how)
       IN Step(IF ~Known(Root) THEN Goto(ScheduleRoot(s, s.work.git, TRUE), "end")
               ELSE IF added.status = "error" THEN Finished(s)
               ELSE Goto(added.w, IF added.status = "after-release" THEN "again" ELSE "ensure"), how)
Again == At("again") /\ ~s.queued /\ Step(Goto(s, "ensure"), "ok")

Ensure(how) ==
    /\ At("ensure")
    /\ LET ensured == EnsureRefresh(s, how)
       IN IF s.mappingInvalid THEN Step(Ask(ConsumeMapping(s), "ensure"), "ok")
          ELSE IF ~s.work.both THEN Step(Scan(s, Root), "ok")
          ELSE Step(IF ensured.changed
                    THEN [Goto(ensured.w, "ignores") EXCEPT !.work.then = "scan"]
                    ELSE Scan(ensured.w, Root), how)

\* git answers, or does not.
Targets(how) ==
    /\ At("targets") /\ how # "resource"
    /\ Step(Goto([LoadTargets(s, how = "ok") EXCEPT !.work.before = s.targets], "load"), how)
Load(how) ==
    /\ At("load") /\ ~s.queued
    /\ LET ensured == EnsureRefresh(s, how)
           again == \/ ensured.changed \/ s.work.before # s.targets \/ s.work.was
                    \/ ensured.w.targetsRetry \/ ensured.w.ignoresRetry
       IN Step(IF s.work.then = "more" /\ ~again THEN Goto(ensured.w, "end")
               ELSE Goto(ensured.w, "ignores"), how)
Ignores(how) ==
    /\ At("ignores") /\ how # "resource"
    /\ LET w == LoadIgnores(s, how = "ok")
       IN Step(IF s.work.then \in {"scan", "more"} THEN Scan(w, Root)
               ELSE Goto(w, s.work.then), how)

\* The directories of a sync, one after the other.
Dirs ==
    /\ At("dirs")
    /\ LET dirs == s.work.dirs
           closed == CloseSubtrees(s, {p \in dirs : Gone(p) \/ Ignored(s, p)})
       IN Step([closed EXCEPT !.work.pc = "dir",
                              !.work.need = @ \/ \E p \in dirs : ~Known(p) /\ ~Ignored(s, p),
                              !.work.dirs = {p \in dirs : There(p) /\ ~Ignored(s, p)}], "ok")

\* validateWatchedAncestors: the nearest ancestor that is not watched as it is.
Unsound(p) == {q \in Ancestors[p] \ {p} :
                 \/ s.watch[q] = Absent \/ ~There(q) \/ s.watch[q].ino # Here(q).ino
                 \/ Ignored(s, q)}
NextDir ==
    /\ At("dir")
    /\ IF s.work.dirs = {}
       THEN Step(Goto(IF s.work.need THEN ScheduleRefresh(s, TRUE) ELSE s, "end"), "ok")
       ELSE \E p \in s.work.dirs :
              LET w == [s EXCEPT !.work.dirs = @ \ {p}]
                  q == CHOOSE q \in Unsound(p) : \A r \in Unsound(p) : r \in Ancestors[q]
                  needed == [w EXCEPT !.work.need = TRUE]
                  closed == IF q # Root THEN CloseSubtrees(needed, {q})
                            ELSE Close(CloseSubtrees([needed EXCEPT !.mappingInvalid = TRUE],
                                                     {Root}), {Root})
              IN Step(IF Unsound(p) = {} THEN Scan(w, p)
                      ELSE IF s.watch[q] # Absent /\ ~Known(q) THEN needed
                      ELSE IF s.rootRetry.timer THEN closed ELSE ScheduleRefresh(closed, TRUE), "ok")

-----------------------------------------------------------------------------
(* scanDirectoryTree: watch, read, look again. *)

Popped(w) == [w EXCEPT !.work.todo = Tail(@)]
Whole(w, p) == [w EXCEPT !.work.incomplete = @ \ {p}]
Part(w, p) == [w EXCEPT !.work.incomplete = @ \cup {p}]
Later(w, p) == [w EXCEPT !.work.todo = Append(@, p)]

Visit(how) ==
    /\ At("visit") /\ ~s.queued /\ s.work.todo # <<>>
    /\ LET p == Head(s.work.todo)
           added == AddWatch(s, p, how)
           w == Popped(added.w)
           left == IF added.status = "error" /\ Gone(p) THEN Whole(w, p) ELSE Part(w, p)
           noted == [left EXCEPT
                       !.work.retry = @ \/ added.status = "required",
                       !.work.unknown = @ \/ (added.status = "error" /\ ~Known(p))]
       IN Step(IF Ignored(s, p) THEN Whole(CloseSubtrees(Popped(s), {p}), p)
               ELSE IF added.status = "after-release" THEN Later(Part(w, p), p)
               ELSE IF added.status \in {"added", "existing"}
               THEN [added.w EXCEPT !.work.met = Here(p), !.work.pc = "read"]
               ELSE IF added.status # "error" THEN noted
               ELSE IF p = Root /\ Known(p) THEN Finished(s)
               ELSE IF p = Root THEN Goto(ScheduleRoot(noted, TRUE, TRUE), "scanned")
               ELSE IF Known(p) THEN CloseSubtrees(noted, {p}) ELSE noted, how)

Read(how) ==
    /\ At("read")
    /\ LET p == Head(s.work.todo)
           read == IF ~Known(p) THEN "hard" ELSE IF Here(p) = Absent THEN "other" ELSE how
           kids == {q \in Below : Parent[q] = p /\ Here(q) # Absent /\ ~Ignored(s, q)}
       IN Step([s EXCEPT !.work.read = read, !.work.pc = "check",
                         !.work.kids = IF read = "ok" THEN kids ELSE {}], how)

\* A directory that is not the one that was read is watched and read again.
Check ==
    /\ At("check")
    /\ LET p == Head(s.work.todo)
           k == s.work
           again == k.read = "other" /\ k.readTries[p] < ScanRetries
           w == Goto(Popped(IF k.read = "resource" THEN NoteResource(s) ELSE s), "visit")
           read == IF k.read = "ok" THEN w
                   ELSE [Part(w, p) EXCEPT
                           !.work.readTries[p] = @ + (IF again THEN 1 ELSE 0),
                           !.work.retry = @ \/ (k.read # "resource" /\ ~again)]
           closed == IF p # Root THEN CloseSubtrees(read, {p})
                     ELSE LET c == Close([read EXCEPT !.mappingInvalid = TRUE], {Root})
                          IN IF s.rootRetry.timer THEN c ELSE ScheduleRefresh(c, TRUE)
           replaced == Part(closed, p)
           listed == IF again THEN Later(read, p)
                     ELSE IF k.read = "ok" THEN Whole(read, p) ELSE read
       IN Step(IF ~Known(p) THEN [Part(read, p) EXCEPT !.work.unknown = TRUE]
               ELSE IF Gone(p)
               THEN IF p = Root THEN Finished(s) ELSE Whole(CloseSubtrees(read, {p}), p)
               ELSE IF Here(p).ino # k.met.ino
               THEN IF k.idTries[p] < ScanRetries
                    THEN Later([replaced EXCEPT !.work.idTries[p] = @ + 1], p)
                    ELSE [replaced EXCEPT !.work.retry = TRUE]
               ELSE [listed EXCEPT !.work.todo = @ \o SetToSeq(k.kids)], "ok")

RefreshWatched(w) == w.targets => w.refresh # Absent

EndScan ==
    /\ At("visit") /\ ~s.queued /\ s.work.todo = <<>>
    /\ LET complete == s.work.incomplete = {}
           whole == complete /\ s.work.start = Root /\ RefreshWatched(s)
       IN Step([s EXCEPT !.work.pc = "scanned", !.work.complete = complete,
                         !.resource.timer = @ /\ ~(whole /\ s.resource.scan)], "ok")

Scanned ==
    /\ At("scanned")
    /\ Step(IF s.work.start = Root THEN Goto(UpdateRoot(s, TRUE), "end")
            ELSE [s EXCEPT !.work.pc = "dir",
                           !.work.need = @ \/ s.work.unknown \/ s.work.retry], "ok")

\* The end of each kind of work.
Retried(w) ==
    LET over == [w EXCEPT !.resource.busy = FALSE]
        whole == w.gitTimer \/ (~w.targetsRetry /\ ~w.ignoresRetry /\ RefreshWatched(w))
    IN IF ~w.resource.clean \/ w.resource.failed THEN ScheduleResource(over)
       ELSE IF w.work.unknown \/ w.work.retry
       THEN ScheduleRoot([over EXCEPT !.resource.timer = FALSE], TRUE, TRUE)
       ELSE IF w.work.complete /\ whole THEN [over EXCEPT !.resource.timer = FALSE]
       ELSE ScheduleResource(over)

End ==
    /\ At("end")
    /\ LET kind == s.work.kind
           idle == [s EXCEPT !.topology.busy = FALSE, !.topology.rerun = FALSE]
           w == CASE kind = "sync" ->
                       [s EXCEPT !.syncing = IF s.full \/ s.pending # {} THEN "armed" ELSE "no"]
                  [] kind = "refresh" ->
                       IF s.topology.rerun THEN ScheduleRefresh(idle, FALSE) ELSE idle
                  [] kind = "resource" -> Retried(s)
                  [] kind = "initial" -> [s EXCEPT !.listening = TRUE]
                  [] kind \in {"root", "git"} -> s
       IN Step(IF w.disposed THEN w ELSE [w EXCEPT !.work = NoWork], "ok")

-----------------------------------------------------------------------------
Program ==
    \/ Prune \/ Again \/ Dirs \/ NextDir \/ Check \/ EndScan \/ Scanned \/ End
    \/ TopologyTick \/ RootTick \/ GitTick \/ ResourceTick \/ SyncTick
    \/ \E named \in BOOLEAN : Deliver(named)
    \/ \E how \in Hows :
         \/ Start(how) \/ Pass(how) \/ Take(how) \/ Enter(how) \/ Rooted(how) \/ Ensure(how)
         \/ Targets(how) \/ Load(how) \/ Ignores(how) \/ Visit(how) \/ Read(how)

Others ==
    \/ \E p \in Paths : Delete(p)
    \/ \E p \in Paths, below \in SUBSET Below, reuse \in BOOLEAN :
         Replace(p, below, reuse)
    \/ \E there, reuse \in BOOLEAN : ReplaceGit(there, reuse)
    \/ \E ps \in SUBSET Below, file \in {".gitignore", "index"} : Ignore(ps, file)
    \/ Lock \/ Unlock
    \/ \E how \in Hows : BrokenRefresh(how) \/ \E p \in Paths : Broken(p, how)

Next == Program \/ (~s.disposed /\ Others)

\* The event loop does not stop: what is due is done, one thing or another.
Spec == Init /\ [][Next]_vars /\ WF_vars(Program)

-----------------------------------------------------------------------------
TypeOK ==
    /\ s.work = NoWork \/ s.work.pc \in {"targets", "load", "ignores", "enter", "prune", "root",
         "again", "ensure", "dirs", "dir", "visit", "read", "check", "scanned", "end"}
    /\ {s.queue[i].kind : i \in DOMAIN s.queue}
         \subseteq {"initial", "refresh", "sync", "root", "git", "resource"}
    /\ s.pending \subseteq Below \cup {Git} /\ Cardinality(s.pending) <= MaxPending
    /\ s.rootRetry.attempts \in 0..RootAttempts
    /\ s.ignored \subseteq Below
    /\ changes + faults \in 0..MaxTrouble

\* Nothing is due: no event, no work, no timer.
AtRest ==
    /\ s.started /\ kernel = <<>> /\ ~s.queued /\ s.queue = <<>> /\ s.work = NoWork
    /\ ~s.topology.timer /\ ~s.rootRetry.timer /\ ~s.gitTimer /\ ~s.resource.timer
    /\ s.syncing = "no"

\* What is not to be watched: what git ignores, and, where git's last answer was
\* given while the root could not be read, what that answer made the session ignore.
IsIgnored(p) == disk.git # Absent /\ Ancestors[p] \cap disk.ignored # {}
Skipped(p) == IF s.blind = {} THEN IsIgnored(p) ELSE Ignored(s, p)

\* When nothing is due, every directory is watched: the very directory that is
\* there now, not one that had its name or its inode number before.  What is
\* not covered has a retry that will come, or the session has ended and Codex
\* knows it.  (Once a watch has failed by itself, its place in the tree is blind
\* until the retry, and the scan goes on below it: then only inode numbers are
\* compared.  And where the root was found replaced by a scan, nothing makes
\* the program ask git again.)
Covered ==
    AtRest /\ ~s.disposed /\ ~s.mappingInvalid =>
        \A p \in Paths :
            IF Skipped(p) \/ Here(p) = Absent THEN broke \/ s.watch[p] = Absent
            ELSE s.watch[p].ino = Here(p).ino /\ (broke \/ s.watch[p].obj = Here(p).obj)

\* The same of the directory of git's index, from which the rest is refreshed,
\* unless git was last asked for it while the root could not be read: the code
\* takes that for an answer and asks again only when something else happens.
GitCovered ==
    AtRest /\ ~s.disposed /\ ~s.mappingInvalid /\ "targets" \notin s.blind =>
        s.refresh.obj = disk.git.obj

\* The retries wait for each other, but not for ever.
ComesToRest == <>[](s.disposed \/ AtRest)
=============================================================================
