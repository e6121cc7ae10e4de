------------------------------ MODULE WatchBudget ------------------------------
(***************************************************************************)
(* The watch budget that the working trees of one process share: each tree *)
(* watches its root and its directories, a tree that finds the budget      *)
(* spent is partial, and a coordinator (a microtask) hands released        *)
(* watches to the partial trees as reservations.  A tree does its work in  *)
(* a queue; fs.watch may fail for want of a kernel resource, and is then   *)
(* retried after a delay.  Trees are one level deep; how a deeper tree is  *)
(* followed through renames is in WorkingTreeWatch.                        *)
(***************************************************************************)
EXTENDS Integers, FiniteSets, SequencesExt

CONSTANTS Owners,               \* working trees
          Dirs,                 \* the directories a tree may have below its root
          Limit,                \* budget.limit
          FairReservationChunk, \* most reservations one pass gives a tree
          MaxEvents,            \* bound: directories made or removed, unnamed events
          MaxFailures           \* bound: watches the kernel refuses or breaks

ASSUME BudgetAssumption ==
    /\ IsFiniteSet(Owners) /\ IsFiniteSet(Dirs)
    /\ Limit \in Nat \ {0} /\ FairReservationChunk \in Nat \ {0}
    /\ MaxEvents \in Nat /\ MaxFailures \in Nat

VARIABLES budget,    \* the record kept on globalThis
          trees,       \* what each startDirectoryOnlyWorkingTreeWatch keeps
          present,     \* the directories each tree has
          events, failures
vars == <<budget, trees, present, events, failures>>

NoWork == [kind |-> "none"]
Kinds == {"initial", "sync", "refresh", "resource", "recovery"}

\* A step changes the shared record and the trees together: w is both.
World == [b |-> budget, r |-> trees]
Become(w) == budget' = w.b /\ trees' = w.r

SumOver(f) == FoldFunction(+, 0, f)

\* Op applied to the members of a sequence in turn, each time to the value the
\* one before has left.
InTurn(Op(_, _), w, s) ==
    FoldLeft(LAMBDA v, o : CHOOSE u \in {Op(x, o) : x \in {v}} : TRUE, w, s)

-----------------------------------------------------------------------------
(* The shared record. *)

Reserved(w, o) == w.b.reservations[o]
Headroom(w) == w.b.active + w.b.reserved < Limit

\* notifyBudgetListeners: asks for a pass.  Nobody's notification wakes every
\* suspended tree, a tree's own every other one.
Notify(w, o, wake) ==
    [w EXCEPT !.b.queued = TRUE, !.b.notifiers = @ \cup {o},
              !.b.wakers = IF wake THEN @ \cup {o} ELSE @]
Nobody == "nobody"

\* releaseReservations
Release(w, o, notify) ==
    IF Reserved(w, o) = 0 THEN w
    ELSE LET freed == [w EXCEPT !.b.reserved = @ - Reserved(w, o),
                                !.b.reservations[o] = 0]
         IN IF notify THEN Notify(freed, o, FALSE) ELSE freed

\* One reservation of a tree is given up.
DropOne(w, o) ==
    [w EXCEPT !.b.reservations[o] = @ - 1, !.b.reserved = @ - 1]

\* Mutant: a watch that was reserved is counted twice.
ConsumeReservationMutant(w, o) == w

ConsumeReservation(w, o) == IF Reserved(w, o) = 0 THEN w ELSE DropOne(w, o)

\* markBudgetCoveragePartial
MarkPartial(w, o) ==
    LET listed == [w EXCEPT !.b.partialListeners = @ \cup {o}]
        marked == [listed EXCEPT !.r[o].partial = TRUE]
    IN IF w.r[o].partial THEN listed
       ELSE IF Headroom(w) THEN Notify(marked, o, TRUE) ELSE marked

\* markBudgetCoverageRecovered
MarkRecovered(w, o) ==
    IF ~w.r[o].partial THEN w
    ELSE [w EXCEPT !.r[o].partial = FALSE, !.b.partialListeners = @ \ {o},
                   !.b.suspended = @ \ {o}]

\* releaseWatchCapacity: during a tree's own work the capacity stays its own.
ReleaseWatch(w, o, retain) ==
    LET freed == [w EXCEPT !.b.active = @ - 1]
        kept == [freed EXCEPT !.b.reserved = @ + 1, !.b.reservations[o] = @ + 1]
    IN Notify(IF retain /\ w.r[o].work # NoWork /\ w.r[o].phase # "gone"
              THEN kept ELSE freed, o, TRUE)

CloseWatch(w, o, d) ==
    IF d \notin w.r[o].watches THEN w
    ELSE ReleaseWatch([w EXCEPT !.r[o].watches = @ \ {d}], o, TRUE)

\* closeSubtrees, for directories that have no children.
CloseAll(w, o, ds) == InTurn(LAMBDA v, d : CloseWatch(v, o, d), w, SetToSeq(ds))

\* A root may take a watch that is reserved: another tree's before its own.
\* The code takes the first of its map; here any one.
RevokeForRoot(w, o) ==
    LET holders == {p \in Owners : Reserved(w, p) > 0}
        p == CHOOSE p \in holders : p # o \/ holders = {o}
    IN IF Headroom(w) \/ holders = {} THEN w
       ELSE Notify(DropOne(w, p), p, FALSE)

\* addDirectoryWatch(root)
AddRootWatch(w, o) ==
    IF w.r[o].root THEN w
    ELSE IF w.b.active >= Limit THEN MarkPartial(w, o)
    ELSE [RevokeForRoot(w, o) EXCEPT !.b.active = @ + 1, !.r[o].root = TRUE]

-----------------------------------------------------------------------------
(* The retry after a kernel resource failure. *)

Defers(r) == (r.timer /\ ~r.retrying) \/ (r.retrying /\ r.probeFailed)

ScheduleResourceRetry(w, o) ==
    IF w.r[o].phase = "gone" \/ w.r[o].timer \/ w.r[o].retrying THEN w
    ELSE [w EXCEPT !.r[o].timer = TRUE]

\* noteWatchResourceFailure: a failure also starts a new generation, which the
\* scan and the retry under way will notice.
NoteResourceFailure(w, o) ==
    ScheduleResourceRetry(
      [w EXCEPT !.r[o].probeFailed = @ \/ w.r[o].retrying,
                !.r[o].scanClean = FALSE, !.r[o].retryClean = FALSE], o)

\* hasWatchCapacity, for a directory that is not the root
HasCapacity(w, o) ==
    /\ w.b.active < Limit
    /\ \/ Reserved(w, o) > 0
       \/ w.r[o].retrying /\ w.r[o].probes > 0 /\ Headroom(w)
       \/ w.b.partialListeners = {} /\ Headroom(w)

-----------------------------------------------------------------------------
(* Work.  Each tree has a queue of work and does one at a time. *)

Enqueue(w, o, kind) ==
    [w EXCEPT !.r[o].queue = Append(@, kind)]

\* scheduleTopologyRefresh and scheduleDirectorySync unsuspend the tree.
Unsuspend(w, o) ==
    LET woken == [w EXCEPT !.b.suspended = @ \ {o}]
    IN IF o \in w.b.suspended /\ w.r[o].partial THEN Notify(woken, Nobody, TRUE) ELSE woken

ScheduleRefresh(w, o) ==
    LET woken == Unsuspend(w, o)
    IN IF w.r[o].phase = "gone" THEN w
       ELSE IF w.r[o].refreshing THEN [woken EXCEPT !.r[o].rerun = TRUE]
       ELSE [woken EXCEPT !.r[o].refreshTimer = TRUE]

\* The end of a refresh resumes this tree alone, once nothing holds it back.
ResumeSelf(w, o) ==
    IF w.r[o].timer \/ w.r[o].retrying \/ ~w.r[o].partial \/ ~Headroom(w) THEN w
    ELSE Notify([w EXCEPT !.b.suspended = @ \ {o}], o, FALSE)

\* recoverWatchCoverageIfPossible: result "no" is false, "later" is null.
Recover(w, o, rootsOnly) ==
    LET r == w.r[o]
        rooted == AddRootWatch(w, o)
        Answer(v, result) == [w |-> v, result |-> result]
    IN IF r.phase = "gone" \/ (~r.partial /\ r.root) THEN Answer(w, "no")
       ELSE IF r.timer \/ r.retrying THEN Answer(w, "later")
       ELSE IF ~rooted.r[o].root \/ rootsOnly \/ r.recovering \/ Reserved(rooted, o) = 0
       THEN Answer(rooted, "no")
       ELSE Answer(Enqueue([rooted EXCEPT !.r[o].recovering = TRUE,
                                          !.b.recoveringOwners = @ \cup {o}], o, "recovery"),
                   "promise")


\* Mutant: a tree that has to wait for its own retry is offered the same again.
OfferMutant(w, o) ==
    LET answer == Recover(w, o, FALSE)
        v == answer.w
    IN IF answer.result = "promise" THEN v ELSE Release(v, o, TRUE)

\* What the coordinator does with a selected listener.
Offer(w, o) ==
    LET answer == Recover(w, o, FALSE)
        v == answer.w
    IN CASE answer.result = "promise" -> v
         [] answer.result = "no" -> Release(v, o, TRUE)
         [] answer.result = "later" ->
              Release(IF o \in v.b.partialListeners
                      THEN [v EXCEPT !.b.suspended = @ \cup {o}] ELSE v, o, TRUE)

\* The partial listeners that a pass serves, in its order: rotated by the
\* cursor, the trees that caused the pass last.
Fill(w, candidates, notifiers) ==
    LET n == Len(candidates)
        start == IF n = 0 THEN 0 ELSE w.b.cursor % n
        rotated == [i \in 1..n |-> candidates[((i - 1 + start) % n) + 1]]
    IN SelectSeq(rotated, LAMBDA o : o \notin notifiers)
         \o SelectSeq(rotated, LAMBDA o : o \in notifiers)

\* Round-robin, one each, until the capacity or everyone's share is spent.
Share(capacity, n, i) ==
    LET even == capacity \div n + (IF i <= capacity % n THEN 1 ELSE 0)
    IN IF even < FairReservationChunk THEN even ELSE FairReservationChunk

Dropped(w) ==
    LET idle == {o \in Owners \ w.b.recoveringOwners : Reserved(w, o) > 0}
    IN [w EXCEPT !.b.reserved = @ - SumOver([o \in idle |-> Reserved(w, o)]),
                 !.b.reservations = [o \in Owners |-> IF o \in idle THEN 0 ELSE @[o]]]

Candidates(w) ==
    SelectSeq(w.b.listeners, LAMBDA o :
        o \in w.b.partialListeners \ (w.b.recoveringOwners \cup w.b.suspended))

\* Reservations are handed out; every tree that got one is asked to use it.
Allocate(w, fill) ==
    LET n == Len(fill)
        share == [i \in 1..n |-> Share(Limit - w.b.active - w.b.reserved, n, i)]
        Given(o) == SumOver([i \in {j \in 1..n : fill[j] = o} |-> share[i]])
        reserved == [w EXCEPT
            !.b.cursor = ((@ % n) + 1) % n, !.b.reserved = @ + SumOver(share),
            !.b.reservations = [o \in Owners |-> @[o] + Given(o)]]
    IN IF n = 0 \/ ~Headroom(w) THEN w
       ELSE InTurn(Offer, reserved, SelectSeq(fill, LAMBDA o : Given(o) > 0))

-----------------------------------------------------------------------------
Init ==
    /\ budget = [active |-> 0, listeners |-> <<>>, partialListeners |-> {}, cursor |-> 0,
                 reservations |-> [o \in Owners |-> 0], reserved |-> 0,
                 recoveringOwners |-> {}, suspended |-> {},
                 queued |-> FALSE, notifiers |-> {}, wakers |-> {}]
    /\ trees = [o \in Owners |->
                 [phase |-> "idle", root |-> FALSE, watches |-> {}, partial |-> FALSE,
                  queue |-> <<>>, work |-> NoWork, recovering |-> FALSE, settling |-> FALSE,
                  pending |-> {}, syncing |-> "no",
                  refreshTimer |-> FALSE, refreshing |-> FALSE, rerun |-> FALSE,
                  timer |-> FALSE, retrying |-> FALSE, probes |-> 0, probeFailed |-> FALSE,
                  retryClean |-> TRUE, scanClean |-> TRUE]]
    /\ present \in [Owners -> SUBSET Dirs]
    /\ events = 0 /\ failures = 0

Running(o) == trees[o].phase \in {"starting", "open"}
NoEvent == UNCHANGED <<present, events, failures>>

\* The coordinator.  Trees that another one's notification wakes are no longer
\* suspended; every listening tree may take its root, then the partial ones
\* are given what there is.
Pass ==
    /\ budget.queued
    /\ LET taken == [World EXCEPT
                !.b.queued = FALSE, !.b.notifiers = {}, !.b.wakers = {},
                !.b.suspended = {o \in @ : ~\E p \in budget.wakers : p # o}]
           Root(w, o) == IF o \in w.b.suspended THEN w ELSE Recover(w, o, TRUE).w
       IN \E w \in {Dropped(InTurn(Root, taken, budget.listeners))} :
            \E fill \in {Fill(w, Candidates(w), budget.notifiers)} :
              Become(Allocate(w, fill))
    /\ NoEvent

\* A working tree is opened: its root first, the rest as its first work.
Open(o) ==
    /\ trees[o].phase = "idle" /\ ~budget.queued
    /\ LET rooted == AddRootWatch([World EXCEPT !.r[o].phase = "starting"], o)
       IN Become(IF rooted.r[o].root THEN Enqueue(rooted, o, "initial") ELSE rooted)
    /\ NoEvent

\* After the first work the tree listens to the coordinator.
Listen(o) ==
    /\ trees[o].phase = "starting"
    /\ "initial" \notin ToSet(trees[o].queue) \cup {trees[o].work.kind}
    /\ LET w == [World EXCEPT !.r[o].phase = "open", !.b.listeners = Append(@, o)]
       IN Become(IF trees[o].partial /\ budget.active < Limit
                 THEN Notify(w, Nobody, TRUE) ELSE w)
    /\ NoEvent

\* finish
Dispose(o) ==
    /\ Running(o)
    /\ LET out == [World EXCEPT
                !.b.listeners = SelectSeq(@, LAMBDA p : p # o),
                !.b.partialListeners = @ \ {o}, !.b.recoveringOwners = @ \ {o},
                !.b.suspended = @ \ {o}, !.r[o].phase = "gone", !.r[o].partial = FALSE,
                !.r[o].pending = {}, !.r[o].syncing = "no", !.r[o].queue = <<>>,
                !.r[o].work = NoWork, !.r[o].recovering = FALSE, !.r[o].settling = FALSE,
                !.r[o].refreshTimer = FALSE, !.r[o].refreshing = FALSE, !.r[o].rerun = FALSE,
                !.r[o].timer = FALSE, !.r[o].retrying = FALSE, !.r[o].probes = 0,
                !.r[o].probeFailed = FALSE]
           closed == CloseAll(Release(out, o, TRUE), o, trees[o].watches)
       IN Become(IF trees[o].root
                 THEN ReleaseWatch([closed EXCEPT !.r[o].root = FALSE], o, FALSE)
                 ELSE closed)
    /\ NoEvent

-----------------------------------------------------------------------------
(* Events and timers of a tree. *)

\* scheduleDirectorySync
ScheduleSync(w, o, d) ==
    LET woken == [Unsuspend(w, o) EXCEPT !.r[o].pending = @ \cup {d}]
    IN IF w.r[o].syncing = "no" THEN [woken EXCEPT !.r[o].syncing = "armed"] ELSE woken

\* A directory is made or removed; a watched root hears of it.
Rename(o, d) ==
    /\ Running(o) /\ events < MaxEvents
    /\ events' = events + 1
    /\ present' = [present EXCEPT ![o] = IF d \in @ THEN @ \ {d} ELSE @ \cup {d}]
    /\ IF trees[o].root THEN Become(ScheduleSync(World, o, d)) ELSE UNCHANGED <<budget, trees>>
    /\ UNCHANGED failures

\* An event without a name, of a directory below the root.
Unnamed(o, d) ==
    /\ d \in trees[o].watches /\ events < MaxEvents
    /\ events' = events + 1
    /\ Become(ScheduleRefresh(ScheduleSync(World, o, d), o))
    /\ UNCHANGED <<present, failures>>

\* The kernel gives up a watch for want of a resource.
Broken(o, d) ==
    /\ d \in trees[o].watches /\ failures < MaxFailures
    /\ failures' = failures + 1
    /\ Become(CloseWatch(NoteResourceFailure(World, o), o, d))
    /\ UNCHANGED <<present, events>>

SyncTick(o) ==
    /\ trees[o].syncing = "armed"
    /\ Become(Enqueue([World EXCEPT !.r[o].syncing = "queued"], o, "sync"))
    /\ NoEvent

RefreshTick(o) ==
    /\ trees[o].refreshTimer
    /\ Become(Enqueue([World EXCEPT !.r[o].refreshTimer = FALSE, !.r[o].refreshing = TRUE],
                      o, "refresh"))
    /\ NoEvent

ResourceTick(o) ==
    /\ trees[o].timer
    /\ Become(Enqueue([World EXCEPT !.r[o].timer = FALSE, !.r[o].retrying = TRUE,
                                    !.r[o].probes = 1, !.r[o].probeFailed = FALSE],
                      o, "resource"))
    /\ NoEvent

-----------------------------------------------------------------------------
(* One piece of work: taken from the queue, then one step between two awaits *)
(* at a time.  Every await of a scan lets the coordinator go first.          *)

Working(o, stage) == trees[o].work # NoWork /\ trees[o].work.stage = stage
Stage(w, o, stage) == [w EXCEPT !.r[o].work.stage = stage]
Work(kind, stage, starts) ==
    [kind |-> kind, stage |-> stage, starts |-> starts, todo |-> {}, deferred |-> {},
     retried |-> {}, replayed |-> FALSE, incomplete |-> {}, complete |-> FALSE]

\* A recovery that has nothing left to do ends at once; a sync closes what the
\* renamed names were.
Take(o) ==
    /\ trees[o].queue # <<>> /\ trees[o].work = NoWork /\ ~trees[o].settling
    /\ LET r == trees[o]
           kind == Head(r.queue)
           idle == (~r.partial /\ r.root) \/ Reserved(World, o) = 0 \/ r.timer \/ r.retrying
           Taken(stage, starts) ==
             [World EXCEPT !.r[o].queue = Tail(@), !.r[o].work = Work(kind, stage, starts),
                           !.r[o].retryClean = @ \/ kind = "resource"]
       IN Become(CASE kind = "initial" -> Taken("list", {})
                   [] kind = "sync" ->
                        CloseAll([Taken("starts", r.pending \cap present[o])
                                    EXCEPT !.r[o].pending = {}], o, r.pending)
                   [] kind = "recovery" /\ idle -> Taken("done", {})
                   [] OTHER -> Taken("prune", {}))
    /\ NoEvent

\* reconcileTopology, to its second await
Prune(o) ==
    /\ Working(o, "prune") /\ ~budget.queued
    /\ LET rooted == AddRootWatch(World, o)
       IN Become(IF ~rooted.r[o].root THEN Stage(rooted, o, "done")
                 ELSE Stage(CloseAll(rooted, o, trees[o].watches \ present[o]), o, "list"))
    /\ NoEvent

\* The scan of the whole tree begins with the names in its root.
List(o) ==
    /\ Working(o, "list") /\ ~budget.queued
    /\ Become([World EXCEPT !.r[o].work.stage = "scan", !.r[o].work.todo = present[o],
                            !.r[o].scanClean = TRUE])
    /\ NoEvent

\* A sync scans one directory after the other.
NextStart(o) ==
    /\ Working(o, "starts")
    /\ IF trees[o].work.starts = {} THEN Become(Stage(World, o, "done"))
       ELSE \E d \in trees[o].work.starts :
              Become([World EXCEPT
                        !.r[o].work = [Work("sync", "scan", @.starts \ {d}) EXCEPT !.todo = {d}],
                        !.r[o].scanClean = TRUE])
    /\ NoEvent

\* addDirectoryWatch and what the scan makes of its answer
Visit(o, d) ==
    /\ Working(o, "scan") /\ ~budget.queued /\ d \in trees[o].work.todo
    /\ LET r == trees[o]
           w == [World EXCEPT !.r[o].work.todo = @ \ {d}]
           Whole(v) == [v EXCEPT !.r[o].work.incomplete = @ \ {d}]
           Part(v) == [v EXCEPT !.r[o].work.incomplete = @ \cup {d}]
           probed == [w EXCEPT !.r[o].probes = 0]
           Deferred(v) == IF d \in r.work.retried THEN v
                          ELSE [v EXCEPT !.r[o].work.deferred = @ \cup {d}]
       IN CASE d \notin present[o] -> Become(Whole(CloseWatch(w, o, d))) /\ NoEvent
            [] d \in present[o] \cap r.watches -> Become(Whole(w)) /\ NoEvent
            [] d \in present[o] \ r.watches /\ Defers(r) -> Become(Part(w)) /\ NoEvent
            [] OTHER ->
                 \/ ~HasCapacity(w, o) /\ Become(Part(Deferred(MarkPartial(w, o)))) /\ NoEvent
                 \/ /\ HasCapacity(w, o)
                    /\ Become(Whole(ConsumeReservation(
                          [probed EXCEPT !.b.active = @ + 1, !.r[o].watches = @ \cup {d}], o)))
                    /\ NoEvent
                 \/ /\ HasCapacity(w, o) /\ failures < MaxFailures
                    /\ Become(Part(NoteResourceFailure(probed, o)))
                    /\ failures' = failures + 1 /\ UNCHANGED <<present, events>>

\* What found no room is tried once more when there is some.
Replay(o) ==
    /\ Working(o, "scan") /\ ~budget.queued
    /\ LET k == trees[o].work IN
       /\ k.todo = {} /\ ~k.replayed /\ budget.active < Limit /\ k.deferred # {}
       /\ Become([World EXCEPT !.r[o].work.replayed = TRUE, !.r[o].work.todo = k.deferred,
                               !.r[o].work.retried = k.deferred])
    /\ NoEvent

EndScan(o) ==
    /\ Working(o, "scan") /\ ~budget.queued
    /\ LET k == trees[o].work
           complete == k.incomplete = {}
           whole == MarkRecovered(World, o)
       IN /\ k.todo = {} /\ (k.replayed \/ budget.active >= Limit \/ k.deferred = {})
          /\ Become(IF k.kind = "sync" THEN Stage(World, o, "starts")
                    ELSE IF ~complete THEN Stage(World, o, "done")
                    ELSE [whole EXCEPT !.r[o].work.stage = "done",
                                       !.r[o].work.complete = TRUE,
                                       !.r[o].timer = @ /\ ~trees[o].scanClean])
    /\ NoEvent

\* The end of the retry after a resource failure.
Retried(w, o) ==
    LET r == w.r[o]
        over == [w EXCEPT !.r[o].probes = 0, !.r[o].retrying = FALSE]
        quiet == [over EXCEPT !.r[o].timer = FALSE]
    IN IF ~r.retryClean \/ r.probeFailed THEN ScheduleResourceRetry(over, o)
       ELSE IF r.work.complete THEN quiet
       ELSE IF r.partial THEN Notify([quiet EXCEPT !.b.suspended = @ \ {o}], o, FALSE)
       ELSE ScheduleResourceRetry(over, o)

\* The end of the work itself, and then of its place in the queue, where what
\* the work did not use of its reservations is given back.
Finish(o) ==
    /\ Working(o, "done")
    /\ LET kind == trees[o].work.kind
           r == trees[o]
           ended ==
             CASE kind = "initial" -> World
               [] kind = "sync" ->
                    [World EXCEPT !.r[o].syncing = IF r.pending = {} THEN "no" ELSE "armed"]
               [] kind = "refresh" ->
                    LET resumed == ResumeSelf([World EXCEPT !.r[o].refreshing = FALSE], o)
                    IN IF r.rerun THEN ScheduleRefresh([resumed EXCEPT !.r[o].rerun = FALSE], o)
                       ELSE resumed
               [] kind = "resource" -> Retried(World, o)
               [] kind = "recovery" ->
                    IF r.partial /\ Reserved(World, o) > 0
                    THEN [World EXCEPT !.b.suspended = @ \cup {o}] ELSE World
           left == [ended EXCEPT !.r[o].work = NoWork, !.r[o].settling = (kind = "recovery")]
       IN Become(IF r.recovering THEN left ELSE Release(left, o, TRUE))
    /\ NoEvent


\* Mutant: what the recovery did not use is released without a pass.
SettleMutant(o) ==
    /\ trees[o].settling
    /\ Become(Release([World EXCEPT !.r[o].settling = FALSE, !.r[o].recovering = FALSE,
                                    !.b.recoveringOwners = @ \ {o}], o, FALSE))
    /\ NoEvent

\* settleRecovery
Settle(o) ==
    /\ trees[o].settling
    /\ LET freed == Release([World EXCEPT !.r[o].settling = FALSE, !.r[o].recovering = FALSE,
                                          !.b.recoveringOwners = @ \ {o}], o, FALSE)
       IN Become(IF Reserved(World, o) > 0 \/ (trees[o].partial /\ Headroom(freed))
                 THEN Notify(freed, o, FALSE) ELSE freed)
    /\ NoEvent

Scanning(o) ==
    \/ NextStart(o) \/ Finish(o) \/ Settle(o) \/ List(o) \/ Take(o) \/ Replay(o) \/ EndScan(o)
    \/ Prune(o) \/ \E d \in Dirs : Visit(o, d)

\* What the trees and the coordinator do by themselves.
Internal ==
    \/ \E o \in Owners :
         Listen(o) \/ SyncTick(o) \/ RefreshTick(o) \/ ResourceTick(o) \/ Scanning(o)
    \/ Pass

Next ==
    \/ Internal
    \/ \E o \in Owners :
         \/ Open(o) \/ Dispose(o)
         \/ \E d \in Dirs : Rename(o, d) \/ Unnamed(o, d) \/ Broken(o, d)

\* The event loop does not stop while there is work, a due pass or a timer.
\* Nothing says which of them comes first.
Spec == Init /\ [][Next]_vars /\ WF_vars(Internal)

-----------------------------------------------------------------------------
Watched(o) == Cardinality(trees[o].watches) + (IF trees[o].root THEN 1 ELSE 0)

TypeOK ==
    /\ budget.active \in Nat /\ budget.reserved \in Nat
    /\ budget.reservations \in [Owners -> Nat]
    /\ ToSet(budget.listeners) \subseteq Owners /\ IsInjective(budget.listeners)
    /\ budget.partialListeners \cup budget.recoveringOwners \cup budget.suspended \subseteq Owners
    /\ budget.notifiers \cup budget.wakers \subseteq Owners \cup {Nobody}
    /\ \A o \in Owners :
         /\ trees[o].phase \in {"idle", "starting", "open", "gone"}
         /\ trees[o].watches \subseteq Dirs /\ trees[o].pending \subseteq Dirs
         /\ ToSet(trees[o].queue) \subseteq Kinds
         /\ trees[o].syncing \in {"no", "armed", "queued"}
         /\ trees[o].probes \in {0, 1}
    /\ present \in [Owners -> SUBSET Dirs]
    /\ events \in 0..MaxEvents /\ failures \in 0..MaxFailures

\* The counters are what the trees hold, and together never more than the
\* budget: no path of closing, revoking, retaining or disposing counts a watch
\* twice or forgets it.  A disposed tree keeps nothing of the budget from the
\* others: no reservation, no place among the partial trees, which would stop
\* all others from taking free watches.
BudgetKept ==
    /\ budget.active = SumOver([o \in Owners |-> Watched(o)])
    /\ budget.reserved = SumOver(budget.reservations)
    /\ budget.active + budget.reserved <= Limit
    /\ \A o \in Owners : trees[o].phase = "gone" =>
        /\ Watched(o) = 0 /\ budget.reservations[o] = 0
        /\ o \notin ToSet(budget.listeners) \cup budget.partialListeners
                      \cup budget.recoveringOwners \cup budget.suspended

\* Nothing is under way for a tree, and no pass is due.
Quiet ==
    /\ ~budget.queued
    /\ \A o \in Owners :
         /\ trees[o].phase # "starting" /\ trees[o].queue = <<>> /\ trees[o].work = NoWork
         /\ ~trees[o].settling /\ trees[o].syncing = "no"
         /\ ~trees[o].refreshTimer /\ ~trees[o].timer

\* When all is quiet, no watch lies idle that a partial tree could use, and a
\* tree that is not partial watches every directory it has.
NoStrandedCapacity ==
    Quiet => \A o \in Owners : trees[o].phase = "open" =>
               IF trees[o].partial
               THEN budget.active = Limit
               ELSE trees[o].root /\ trees[o].watches = present[o]

\* The trees do not keep waking each other: when the directories and the kernel
\* leave them alone, they come to rest.
ComesToRest == <>[]Quiet
=============================================================================
