-------------------------- MODULE MigrationProofs ---------------------------
(***************************************************************************)
(* Proofs about StateMigration, for every value of its constants.  In      *)
(* every behaviour: the type invariant, that every step keeps the promise  *)
(* of StateTrees, and therefore that no tree is lost or duplicated.  Until *)
(* two runs overlap: what is cut short can be resumed, and a plan is       *)
(* carried out.  Until they do, or the user leaves a program open that was *)
(* to be closed: no running program loses its lock, its pid file or its    *)
(* runtime directory.                                                      *)
(***************************************************************************)
EXTENDS MigrationHistory, TLAPS

TreesOK ==
  /\ tree \in [Side -> [Op -> Tree \cup {NoTree}]]
  /\ aside \in SUBSET Tree
  /\ born \in SUBSET (1..Ops + created)
  /\ created \in 0..MaxCreated

WorldOK ==
  /\ names \in [Tree -> Side]
  /\ marks \in [Tree -> SUBSET Mark]
  /\ runtime \in SUBSET Side
  /\ running \in SUBSET Program

RunsOK ==
  /\ memory \in [Runner -> [Op -> Status]]
  /\ at \in [Runner -> 1..Ops + 1]
  /\ pc \in [Runner -> Point]

RestOK ==
  /\ journal \in Journal
  /\ kills \in 0..MaxKills
  /\ due \in SUBSET Tree

\* In the middle of an operation, the loop is not at its end.
Working == {"look", "move", "tidy", "rewrite", "complete"}
InOperation == \A r \in Runner : pc[r] \in Working => at[r] \in Op

Inv == TreesOK /\ WorldOK /\ RunsOK /\ RestOK /\ InOperation

\* The type invariant, by the variables its parts are about.
LEMMA TypeParts == TypeOK <=> TreesOK /\ WorldOK /\ RunsOK /\ RestOK
  BY DEF TypeOK, TreesOK, WorldOK, RunsOK, RestOK

\* Where a run's operation comes from and goes to.
LEMMA Directions ==
  ASSUME NEW r \in Runner
  PROVE  /\ To(r) \in Side
         /\ From(r) \in Side
         /\ From(r) # To(r)
         /\ Other(From(r)) = To(r)
  BY DEF To, From, Other, Side

\* Ending a run, or going on with the loop, leaves a run well formed.
LEMMA EndKeeps ==
  ASSUME NEW r \in Runner, RunsOK, InOperation, End(r)
  PROVE  RunsOK' /\ InOperation'
  <1>1. AllPending \in [Op -> Status]
    BY DEF AllPending, Status
  <1>2. 1 \in 1..Ops + 1
    BY MigrationAssumption
  <1> QED BY <1>1, <1>2 DEF End, Goto, RunsOK, InOperation, Point, Working

\* Going to another point leaves a run well formed,
LEMMA GotoKeeps ==
  ASSUME NEW r \in Runner, NEW point \in Point, RunsOK, InOperation, Goto(r, point),
         UNCHANGED <<memory, at>>, point \in Working => at[r] \in Op
  PROVE  RunsOK' /\ InOperation'
  BY DEF Goto, RunsOK, InOperation

\* and so does going on to the next operation.
LEMMA AdvanceKeeps ==
  ASSUME NEW r \in Runner, RunsOK, InOperation, Advance(r), at[r] \in Op,
         memory' \in [Runner -> [Op -> Status]]
  PROVE  RunsOK' /\ InOperation'
  <1>1. at[r] + 1 \in 1..Ops + 1
    BY MigrationAssumption DEF Op
  <1> QED BY <1>1 DEF Advance, Goto, RunsOK, InOperation, Point, Working

\* The trees under the names of an operation are trees or nothing.
LEMMA Named ==
  ASSUME NEW r \in Runner, NEW op \in Op, TreesOK
  PROVE  Source(r, op) \in Tree \cup {NoTree} /\ Destination(r, op) \in Tree \cup {NoTree}
  BY Directions DEF Source, Destination, TreesOK

\* Every initial state is type correct.
LEMMA InitInv == Init => Inv
  <1> SUFFICES ASSUME Init PROVE Inv
    OBVIOUS
  <1> USE MigrationAssumption DEF Init
  <1>1. TreesOK
    BY DEF TreesOK, Op, Tree, Side, NoTree
  <1>2. WorldOK
    BY DEF WorldOK, Side, Mark, Program
  <1>3. AllPending \in [Op -> Status]
    BY DEF AllPending, Status
  <1>4. RunsOK /\ InOperation
    BY <1>3 DEF RunsOK, InOperation, Working, Point
  <1>5. RestOK
    BY <1>3 DEF RestOK, NoJournal, Journal
  <1> QED BY <1>1, <1>2, <1>4, <1>5 DEF Inv

-----------------------------------------------------------------------------
(* Every step keeps Inv.  The parts that a step leaves alone are kept by   *)
(* the first lemma.                                                        *)

LEMMA Unchanged ==
  ASSUME Inv
  PROVE  /\ UNCHANGED trees => TreesOK'
         /\ UNCHANGED world => WorldOK'
         /\ UNCHANGED runs => RunsOK' /\ InOperation'
         /\ UNCHANGED <<journal, kills, due>> => RestOK'
  BY DEF Inv, TreesOK, WorldOK, RunsOK, RestOK, InOperation, trees, world, runs

\* A plan in memory gives every operation a status, also after one is changed.
LEMMA StatusesTyped ==
  ASSUME NEW r \in Runner, RunsOK, NEW op \in Op, NEW status \in Status
  PROVE  /\ memory[r] \in [Op -> Status]
         /\ [memory[r] EXCEPT ![op] = status] \in [Op -> Status]
  BY DEF RunsOK

\* Writing the journal keeps it and the statuses in memory typed.
LEMMA WriteKeeps ==
  ASSUME NEW r \in Runner, NEW status \in [Op -> Status], Inv, WriteJournal(r, status)
  PROVE  /\ journal' \in Journal
         /\ memory' \in [Runner -> [Op -> Status]]
  BY Directions DEF WriteJournal, Journal, Inv, RunsOK

\* Starting a run keeps the type invariant,
LEMMA StartKeeps ==
  ASSUME NEW r \in Runner, Inv, Start(r)
  PROVE  Inv'
  <1>1. TreesOK' /\ WorldOK' /\ RestOK'
    BY Unchanged DEF Start
  <1>2. journal.status \in [Op -> Status]
    BY DEF Inv, RestOK, Journal
  <1>3. RunsOK' /\ InOperation'
    BY <1>2 DEF Start, Goto, Inv, RunsOK, InOperation, Point, Working
  <1> QED BY <1>1, <1>3 DEF Inv

\* as does looking for running programs,
LEMMA PreflightKeeps ==
  ASSUME NEW r \in Runner, Inv, Preflight(r)
  PROVE  Inv'
  <1>1. TreesOK' /\ WorldOK' /\ RestOK'
    BY Unchanged DEF Preflight
  <1>2. CASE End(r)
    BY <1>1, <1>2, EndKeeps DEF Inv
  <1>3. CASE ~End(r)
    <2>1. [op \in Op |-> IF Source(r, op) = NoTree THEN "skipped" ELSE "pending"]
            \in [Op -> Status]
      BY DEF Status
    <2>2. RunsOK' /\ InOperation'
      BY <1>3, <2>1 DEF Preflight, Goto, Inv, RunsOK, InOperation, Point, Working
    <2> QED BY <1>1, <2>2 DEF Inv
  <1> QED BY <1>2, <1>3

\* writing the plan,
LEMMA RecordKeeps ==
  ASSUME NEW r \in Runner, Inv, Record(r)
  PROVE  Inv'
  <1>1. memory[r] \in [Op -> Status]
    BY DEF Inv, RunsOK
  <1>2. journal' \in Journal /\ memory' \in [Runner -> [Op -> Status]]
    BY <1>1, WriteKeeps DEF Record
  <1>3. TreesOK' /\ WorldOK'
    BY Unchanged DEF Record
  <1>4. RestOK'
    BY <1>2 DEF Record, Inv, RestOK
  <1>5. RunsOK' /\ InOperation'
    BY <1>2 DEF Record, Goto, Inv, RunsOK, InOperation, Point, Working
  <1> QED BY <1>3, <1>4, <1>5 DEF Inv

\* passing over an operation that is complete,
LEMMA PassCompleteKeeps ==
  ASSUME NEW r \in Runner, Inv, PassComplete(r)
  PROVE  Inv'
  <1>1. TreesOK' /\ WorldOK' /\ RestOK'
    BY Unchanged DEF PassComplete
  <1>2. RunsOK' /\ InOperation'
    BY AdvanceKeeps DEF PassComplete, AtOperation, Inv, RunsOK
  <1> QED BY <1>1, <1>2 DEF Inv

\* A walk over the destination changes names there, and nowhere else.
LEMMA RewriteKeeps ==
  ASSUME NEW r \in Runner, NEW op \in Op, Inv, RewriteNames(r, op),
         UNCHANGED <<marks, runtime, running>>
  PROVE  WorldOK'
  BY Directions DEF RewriteNames, Inv, WorldOK

\* or one that is skipped,
LEMMA PassSkippedKeeps ==
  ASSUME NEW r \in Runner, Inv, PassSkipped(r)
  PROVE  Inv'
  <1>1. TreesOK' /\ RestOK'
    BY Unchanged DEF PassSkipped
  <1>2. WorldOK'
    BY RewriteKeeps DEF PassSkipped, AtOperation
  <1>3. RunsOK' /\ InOperation'
    BY AdvanceKeeps DEF PassSkipped, AtOperation, Inv, RunsOK
  <1> QED BY <1>1, <1>2, <1>3 DEF Inv

\* noting that an operation is under way,
LEMMA BeginMovingKeeps ==
  ASSUME NEW r \in Runner, Inv, BeginMoving(r)
  PROVE  Inv'
  <1>1. at[r] \in Op
    BY DEF BeginMoving, AtOperation
  <1>2. [memory[r] EXCEPT ![at[r]] = "moving"] \in [Op -> Status]
    BY <1>1, StatusesTyped DEF Inv, Status
  <1>3. journal' \in Journal /\ memory' \in [Runner -> [Op -> Status]]
    BY <1>2, WriteKeeps DEF BeginMoving
  <1>4. TreesOK' /\ WorldOK'
    BY Unchanged DEF BeginMoving
  <1>5. RestOK'
    BY <1>3 DEF BeginMoving, Inv, RestOK
  <1>6. RunsOK' /\ InOperation'
    BY <1>1, <1>3 DEF BeginMoving, Goto, Inv, RunsOK, InOperation, Point
  <1> QED BY <1>4, <1>5, <1>6 DEF Inv

\* looking at both names,
LEMMA LookKeeps ==
  ASSUME NEW r \in Runner, Inv, Look(r)
  PROVE  Inv'
  <1>1. TreesOK' /\ WorldOK' /\ RestOK'
    BY Unchanged DEF Look
  <1>2. at[r] \in Op
    BY DEF Look, Inv, InOperation, Working
  <1>3. RunsOK' /\ InOperation'
    BY <1>2, EndKeeps, GotoKeeps DEF Look, Inv, Point
  <1> QED BY <1>1, <1>3 DEF Inv

\* renaming the tree,
LEMMA MoveKeepsTypes ==
  ASSUME NEW r \in Runner, Inv, Move(r)
  PROVE  Inv'
  <1>1. WorldOK' /\ RestOK'
    BY Unchanged DEF Move
  <1>2. at[r] \in Op
    BY DEF Move, Inv, InOperation, Working
  <1>3. RunsOK' /\ InOperation'
    BY <1>2, EndKeeps, GotoKeeps DEF Move, Inv, Point
  <1>4. TreesOK'
    <2>1. CASE UNCHANGED trees
      BY <2>1, Unchanged
    <2>2. CASE tree' = [tree EXCEPT ![From(r)][at[r]] = NoTree,
                                    ![To(r)][at[r]] = Source(r, at[r])]
               /\ UNCHANGED <<aside, born, created>>
      BY <1>2, <2>2, Directions, Named DEF Inv, TreesOK
    <2> QED BY <2>1, <2>2 DEF Move
  <1> QED BY <1>1, <1>3, <1>4 DEF Inv

\* discarding what is volatile in it,
LEMMA TidyKeeps ==
  ASSUME NEW r \in Runner, Inv, Tidy(r)
  PROVE  Inv'
  <1>1. TreesOK' /\ RestOK'
    BY Unchanged DEF Tidy
  <1>2. at[r] \in Op
    BY DEF Tidy, Inv, InOperation, Working
  <1>3. RunsOK' /\ InOperation'
    BY <1>2, EndKeeps, GotoKeeps DEF Tidy, Inv, Point
  <1>4. WorldOK'
    BY DEF Tidy, DiscardVolatile, Inv, WorldOK
  <1> QED BY <1>1, <1>3, <1>4 DEF Inv

\* rewriting the names in it,
LEMMA RewriteStepKeeps ==
  ASSUME NEW r \in Runner, Inv, Rewrite(r)
  PROVE  Inv'
  <1>1. TreesOK' /\ RestOK'
    BY Unchanged DEF Rewrite
  <1>2. at[r] \in Op
    BY DEF Rewrite, Inv, InOperation, Working
  <1>3. RunsOK' /\ InOperation'
    BY <1>2, GotoKeeps DEF Rewrite, Inv, Point
  <1>4. WorldOK'
    BY <1>2, RewriteKeeps DEF Rewrite
  <1> QED BY <1>1, <1>3, <1>4 DEF Inv

\* noting that the operation is complete,
LEMMA CompleteKeeps ==
  ASSUME NEW r \in Runner, Inv, Complete(r)
  PROVE  Inv'
  <1>1. at[r] \in Op
    BY DEF Complete, Inv, InOperation, Working
  <1>2. [memory[r] EXCEPT ![at[r]] = "complete"] \in [Op -> Status]
    BY <1>1, StatusesTyped DEF Inv, Status
  <1>3. journal' \in Journal /\ memory' \in [Runner -> [Op -> Status]]
    BY <1>2, WriteKeeps DEF Complete
  <1>4. TreesOK' /\ WorldOK'
    BY Unchanged DEF Complete
  <1>5. RestOK'
    BY <1>3 DEF Complete, Inv, RestOK
  <1>6. RunsOK' /\ InOperation'
    BY <1>1, <1>3, AdvanceKeeps DEF Complete, Inv
  <1> QED BY <1>4, <1>5, <1>6 DEF Inv

\* The end of a run: the runtime directory, the journal, an interruption.
LEMMA EndingKeeps ==
  ASSUME NEW r \in Runner, Inv, DiscardRuntime(r) \/ Unlink(r) \/ Interrupt(r)
  PROVE  Inv'
  <1>1. CASE DiscardRuntime(r)
    <2>1. TreesOK' /\ RestOK'
      BY <1>1, Unchanged DEF DiscardRuntime
    <2>2. WorldOK'
      BY <1>1 DEF DiscardRuntime, Inv, WorldOK
    <2>3. RunsOK' /\ InOperation'
      BY <1>1, GotoKeeps DEF DiscardRuntime, Inv, Point, Working
    <2> QED BY <2>1, <2>2, <2>3 DEF Inv
  <1>2. CASE Unlink(r)
    <2>1. TreesOK' /\ WorldOK'
      BY <1>2, Unchanged DEF Unlink
    <2>2. RestOK'
      BY <1>2 DEF Unlink, NoJournal, AllPending, Journal, Status, Inv, RestOK
    <2>3. RunsOK' /\ InOperation'
      BY <1>2, EndKeeps, GotoKeeps DEF Unlink, Inv, Point, Working
    <2> QED BY <2>1, <2>2, <2>3 DEF Inv
  <1>3. CASE Interrupt(r)
    <2>1. TreesOK' /\ WorldOK'
      BY <1>3, Unchanged DEF Interrupt
    <2>2. RestOK'
      BY <1>3, MigrationAssumption DEF Interrupt, Inv, RestOK
    <2>3. RunsOK' /\ InOperation'
      BY <1>3, EndKeeps DEF Interrupt, Inv
    <2> QED BY <2>1, <2>2, <2>3 DEF Inv
  <1> QED BY <1>1, <1>2, <1>3

\* A program that writes in a tree, or creates it.
LEMMA WriteInKeeps ==
  ASSUME NEW mark \in Mark, NEW op \in Op, NEW side \in Side, Inv,
         WriteIn(mark, op, side), UNCHANGED running
  PROVE  TreesOK' /\ WorldOK'
  <1> DEFINE found == tree[side][op] # NoTree
             id == IF found THEN tree[side][op] ELSE Ops + created + 1
  <1>1. CASE found
    <2>1. TreesOK' /\ names' \in [Tree -> Side]
      BY <1>1, Unchanged DEF WriteIn, Inv, WorldOK, trees
    <2>2. id \in Tree
      BY <1>1 DEF Inv, TreesOK
    <2>3. WorldOK'
      BY <2>1, <2>2 DEF WriteIn, Inv, WorldOK
    <2> QED BY <2>1, <2>3
  <1>2. CASE ~found
    <2>1. id = Ops + created + 1 /\ id \in Tree /\ created + 1 \in 0..MaxCreated
      <3>1. id = Ops + created + 1
        BY <1>2
      <3>2. created < MaxCreated /\ created \in Nat
        BY <1>2 DEF WriteIn, Inv, TreesOK
      <3> QED BY <3>1, <3>2, MigrationAssumption DEF Tree
    <2>2. TreesOK'
      <3>1. /\ tree' = [tree EXCEPT ![side][op] = id]
            /\ born' = born \cup {id} /\ created' = created + 1 /\ aside' = aside
        BY <1>2 DEF WriteIn
      <3>2. born' \in SUBSET (1..Ops + created')
        <4>1. created \in Nat /\ Ops \in Nat /\ born \in SUBSET (1..Ops + created)
          BY MigrationAssumption DEF Inv, TreesOK
        <4>2. 1..Ops + created \subseteq 1..Ops + (created + 1)
          BY <4>1
        <4>3. id \in 1..Ops + (created + 1)
          BY <2>1, <4>1
        <4> QED BY <3>1, <4>1, <4>2, <4>3
      <3> QED BY <2>1, <3>1, <3>2 DEF Inv, TreesOK
    <2>3. WorldOK'
      BY <1>2, <2>1 DEF WriteIn, Inv, WorldOK
    <2> QED BY <2>2, <2>3
  <1> QED BY <1>1, <1>2

\* and starting the program.
LEMMA LaunchKeeps ==
  ASSUME NEW r \in Runner, Inv, Prepare(r) \/ Launch(r)
  PROVE  Inv'
  <1>1. Launched(r) \in Program /\ Launched(r) \in Mark
    BY DEF Launched, Program, Mark
  <1>2. CASE Prepare(r)
    <2>1. PICK op \in Op : WriteIn(Launched(r), op, "canonical")
      BY <1>1, <1>2, MigrationAssumption DEF Prepare
    <2>2. TreesOK' /\ WorldOK'
      BY <1>1, <1>2, <2>1, WriteInKeeps DEF Prepare, Side
    <2>3. RunsOK' /\ InOperation' /\ RestOK'
      BY <1>2, Unchanged DEF Prepare
    <2> QED BY <2>2, <2>3 DEF Inv
  <1>3. CASE Launch(r)
    <2>1. TreesOK' /\ RestOK'
      BY <1>3, Unchanged DEF Launch
    <2>2. WorldOK'
      BY <1>1, <1>3 DEF Launch, Inv, WorldOK
    <2>3. RunsOK' /\ InOperation'
      BY <1>3, EndKeeps DEF Launch, Inv
    <2> QED BY <2>1, <2>2, <2>3 DEF Inv
  <1> QED BY <1>2, <1>3

\* Programs at work, and the user.
LEMMA OthersKeep ==
  ASSUME Inv,
         \/ \E p \in Program : Work(p) \/ Quit(p)
         \/ FormerWorks
         \/ \E op \in Op : MoveAside(op)
  PROVE  Inv'
  <1>1. ASSUME NEW p \in Program, Work(p)
        PROVE  Inv'
    <2>1. PICK op \in Op : WriteIn(p, op, "canonical")
      BY <1>1, MigrationAssumption DEF Work
    <2>2. TreesOK' /\ WorldOK'
      BY <1>1, <2>1, WriteInKeeps DEF Work, Side, Mark
    <2>3. RunsOK' /\ InOperation' /\ RestOK'
      BY <1>1, Unchanged DEF Work
    <2> QED BY <2>2, <2>3 DEF Inv
  <1>2. ASSUME NEW p \in Program, Quit(p)
        PROVE  Inv'
    <2>1. TreesOK' /\ RunsOK' /\ InOperation' /\ RestOK'
      BY <1>2, Unchanged DEF Quit
    <2>2. WorldOK'
      BY <1>2 DEF Quit, Inv, WorldOK
    <2> QED BY <2>1, <2>2 DEF Inv
  <1>3. CASE FormerWorks
    <2>1. TreesOK' /\ WorldOK'
      BY <1>3, WriteInKeeps DEF FormerWorks, Side, Mark
    <2>2. RunsOK' /\ InOperation' /\ RestOK'
      BY <1>3, Unchanged DEF FormerWorks
    <2> QED BY <2>1, <2>2 DEF Inv
  <1>4. ASSUME NEW op \in Op, MoveAside(op)
        PROVE  Inv'
    <2>1. WorldOK' /\ RunsOK' /\ InOperation' /\ RestOK'
      BY <1>4, Unchanged DEF MoveAside
    <2>2. PICK side \in Side : /\ tree' = [tree EXCEPT ![side][op] = NoTree]
                               /\ aside' = aside \cup {tree[side][op]}
      BY <1>4 DEF MoveAside
    <2>3. tree[side][op] \in Tree
      BY <1>4 DEF MoveAside, Inv, TreesOK
    <2>4. TreesOK'
      BY <1>4, <2>2, <2>3 DEF MoveAside, Inv, TreesOK
    <2> QED BY <2>1, <2>4 DEF Inv
  <1> QED BY <1>1, <1>2, <1>3, <1>4

\* The type invariant with its parts is inductive.
LEMMA NextInv == Inv /\ [Next]_vars => Inv'
  <1> SUFFICES ASSUME Inv, [Next]_vars PROVE Inv'
    OBVIOUS
  <1>1. CASE UNCHANGED vars
    BY <1>1, Unchanged DEF vars, Inv, trees, world, runs
  <1>2. CASE Next
    <2>1. ASSUME NEW r \in Runner,
                 Start(r) \/ RunStep(r) \/ Prepare(r) \/ Launch(r) \/ Interrupt(r)
          PROVE  Inv'
      BY <2>1, StartKeeps, PreflightKeeps, RecordKeeps, PassCompleteKeeps,
         PassSkippedKeeps, BeginMovingKeeps, LookKeeps, MoveKeepsTypes, TidyKeeps,
         RewriteStepKeeps, CompleteKeeps, EndingKeeps, LaunchKeeps
         DEF RunStep
    <2> QED BY <1>2, <2>1, OthersKeep DEF Next
  <1> QED BY <1>1, <1>2

(***************************************************************************)
(* The state of the migration, of the programs and of the journal stays    *)
(* within its types: no run leaves the loop's bounds, and the trees are    *)
(* numbered within theirs.                                                 *)
(***************************************************************************)
THEOREM MigrationTypeCorrect == Spec => []TypeOK
<1>1. Spec => []Inv
  BY InitInv, NextInv, PTL DEF Spec
<1>2. Inv => TypeOK
  BY TypeParts DEF Inv
<1> QED BY <1>1, <1>2, PTL

-----------------------------------------------------------------------------
(* Every step is a step of StateTrees, or leaves the trees alone.          *)

LEMMA InLocated ==
  ASSUME NEW id \in Tree, NEW side \in Side, NEW op \in Op
  PROVE  /\ <<id, side, op>> \in Located <=> tree[side][op] = id
         /\ <<id, side, op>> \in Located' <=> tree'[side][op] = id
  BY DEF Located

\* Two sets of named trees with the same members are the same.
LEMMA SameNames ==
  ASSUME NEW A \in SUBSET (Tree \X Side \X Op), NEW B \in SUBSET (Tree \X Side \X Op),
         \A id \in Tree, side \in Side, op \in Op :
           <<id, side, op>> \in A <=> <<id, side, op>> \in B
  PROVE  A = B
  OBVIOUS

\* StateTrees and the migration name the same two sides.
LEMMA SameSides ==
  /\ Promise!Side = Side
  /\ \A side \in Side : Promise!Other(side) = Other(side) /\ Other(side) \in Side
                        /\ Other(side) # side
  BY DEF Promise!Side, Side, Promise!Other, Other

\* The places of trees, as the promise sees them, are well formed.
LEMMA LocatedTyped ==
  Located \in SUBSET (Tree \X Side \X Op) /\ Located' \in SUBSET (Tree \X Side \X Op)
  BY DEF Located

\* A name is free when it has no tree.
LEMMA FreeName ==
  ASSUME TreesOK, NEW side \in Side, NEW op \in Op
  PROVE  Promise!Free(side, op) <=> tree[side][op] = NoTree
  <1>1. tree[side][op] \in Tree \cup {NoTree} /\ NoTree \notin Tree
    BY DEF TreesOK, NoTree, Tree
  <1> QED BY <1>1, InLocated DEF Promise!Free

\* The migration starts in a state of the promise.
LEMMA StartsAsPromised == Init => Promise!Init
  <1> SUFFICES ASSUME Init PROVE Promise!Init
    OBVIOUS
  <1>1. /\ \A id \in Tree, side \in Side, op \in Op :
             <<id, side, op>> \in Located <=> side = "legacy" /\ op \in born /\ id = op
        /\ born \subseteq Op /\ Op \subseteq Tree /\ aside = {}
    BY InLocated, MigrationAssumption DEF Init, Op, Tree, NoTree, Side
  <1>2. Promise!TreesTypeOK
    BY <1>1, SameSides, LocatedTyped DEF Promise!TreesTypeOK
  <1>3. Promise!OneTreePerName /\ Promise!OneNamePerTree
    BY <1>1, SameSides DEF Promise!OneTreePerName, Promise!OneNamePerTree
  <1>4. Promise!NamedOrAside
    <2>1. ASSUME NEW id \in born \ aside
          PROVE  \E side \in Side, op \in Op : <<id, side, op>> \in Located
      <3>1. <<id, "legacy", id>> \in Located /\ "legacy" \in Side /\ id \in Op
        BY <1>1 DEF Side
      <3> QED BY <3>1
    <2> QED BY <1>1, <2>1, SameSides DEF Promise!NamedOrAside
  <1> QED BY <1>1, <1>2, <1>3, <1>4 DEF Promise!Init, Promise!EachTreeOnce

\* A tree whose name changes in "tree" is renamed in StateTrees.
LEMMA RelocatedIsRenamed ==
  ASSUME TreesOK, NEW id \in Tree, NEW side \in Side, NEW op \in Op,
         tree[side][op] = id, tree[Other(side)][op] = NoTree,
         tree' = [tree EXCEPT ![side][op] = NoTree, ![Other(side)][op] = id],
         UNCHANGED <<aside, born>>
  PROVE  Promise!Rename(id, side, op)
<1> DEFINE there == Other(side)
<1>1. there \in Side /\ there # side /\ NoTree \notin Tree
  BY SameSides DEF NoTree, Tree
<1>2. Located' = (Located \ {<<id, side, op>>}) \cup {<<id, there, op>>}
  <2>1. ASSUME NEW x \in Tree, NEW s \in Side, NEW o \in Op
        PROVE  <<x, s, o>> \in Located' <=>
                 <<x, s, o>> \in (Located \ {<<id, side, op>>}) \cup {<<id, there, op>>}
    <3>1. tree'[s][o] = IF s = side /\ o = op THEN NoTree
                        ELSE IF s = there /\ o = op THEN id ELSE tree[s][o]
      BY <1>1 DEF TreesOK
    <3>2. tree'[s][o] = x <=> \/ tree[s][o] = x /\ ~(x = id /\ s = side /\ o = op)
                              \/ x = id /\ s = there /\ o = op
      BY <1>1, <3>1
    <3>3. /\ <<x, s, o>> \in Located' <=> tree'[s][o] = x
          /\ <<x, s, o>> \in Located <=> tree[s][o] = x
      BY InLocated
    <3>4. <<x, s, o>> \in Located' <=> \/ <<x, s, o>> \in Located
                                          /\ ~(x = id /\ s = side /\ o = op)
                                       \/ x = id /\ s = there /\ o = op
      BY <3>2, <3>3
    <3> QED BY <3>4
  <2>2. <<id, there, op>> \in Tree \X Side \X Op
    BY <1>1
  <2>3. Located' \in SUBSET (Tree \X Side \X Op)
        /\ (Located \ {<<id, side, op>>}) \cup {<<id, there, op>>}
             \in SUBSET (Tree \X Side \X Op)
    BY <2>2, LocatedTyped
  <2> QED BY <2>1, <2>3, SameNames
<1>3. <<id, side, op>> \in Located /\ Promise!Free(there, op)
  BY <1>1, InLocated, FreeName
<1> QED BY <1>2, <1>3, SameSides DEF Promise!Rename

\* A tree that is created, or set aside.
LEMMA AddedIsCreated ==
  ASSUME TreesOK, NEW id \in Tree \ born, NEW side \in Side, NEW op \in Op,
         tree[side][op] = NoTree, tree' = [tree EXCEPT ![side][op] = id],
         born' = born \cup {id}, UNCHANGED aside
  PROVE  Promise!Create(id, side, op)
<1>1. NoTree \notin Tree
  BY DEF NoTree, Tree
<1>2. Located' = Located \cup {<<id, side, op>>}
  <2>1. ASSUME NEW x \in Tree, NEW s \in Side, NEW o \in Op
        PROVE  <<x, s, o>> \in Located' <=> <<x, s, o>> \in Located \cup {<<id, side, op>>}
    <3>1. tree'[s][o] = IF s = side /\ o = op THEN id ELSE tree[s][o]
      BY DEF TreesOK
    <3>2. tree'[s][o] = x <=> tree[s][o] = x \/ (x = id /\ s = side /\ o = op)
      BY <1>1, <3>1
    <3>3. <<x, s, o>> \in Located' <=>
            <<x, s, o>> \in Located \/ (x = id /\ s = side /\ o = op)
      BY <3>2, InLocated
    <3> QED BY <3>3
  <2>2. Located' \in SUBSET (Tree \X Side \X Op)
        /\ Located \cup {<<id, side, op>>} \in SUBSET (Tree \X Side \X Op)
    BY LocatedTyped
  <2> QED BY <2>1, <2>2, SameNames
<1>3. Promise!Free(side, op)
  BY FreeName
<1> QED BY <1>2, <1>3 DEF Promise!Create

\* A user who takes the tree under a name away sets it aside whole.
LEMMA RemovedIsSetAside ==
  ASSUME TreesOK, NEW id \in Tree, NEW side \in Side, NEW op \in Op,
         tree[side][op] = id, tree[Other(side)][op] # NoTree,
         tree' = [tree EXCEPT ![side][op] = NoTree],
         aside' = aside \cup {id}, UNCHANGED born
  PROVE  Promise!SetAside(id, side, op)
<1>1. NoTree \notin Tree
  BY DEF NoTree, Tree
<1>2. Located' = Located \ {<<id, side, op>>}
  <2>1. ASSUME NEW x \in Tree, NEW s \in Side, NEW o \in Op
        PROVE  <<x, s, o>> \in Located' <=> <<x, s, o>> \in Located \ {<<id, side, op>>}
    <3>1. tree'[s][o] = IF s = side /\ o = op THEN NoTree ELSE tree[s][o]
      BY DEF TreesOK
    <3>2. tree'[s][o] = x <=> tree[s][o] = x /\ ~(x = id /\ s = side /\ o = op)
      BY <1>1, <3>1
    <3>3. <<x, s, o>> \in Located' <=>
            <<x, s, o>> \in Located /\ ~(x = id /\ s = side /\ o = op)
      BY <3>2, InLocated
    <3> QED BY <3>3
  <2>2. Located' \in SUBSET (Tree \X Side \X Op)
        /\ Located \ {<<id, side, op>>} \in SUBSET (Tree \X Side \X Op)
    BY LocatedTyped
  <2> QED BY <2>1, <2>2, SameNames
<1>3. <<id, side, op>> \in Located /\ ~Promise!Free(Other(side), op)
  BY InLocated, FreeName, SameSides
<1> QED BY <1>2, <1>3, SameSides DEF Promise!SetAside

\* A run's rename keeps the promise,
LEMMA MoveKeepsPromise ==
  ASSUME NEW r \in Runner, Inv, Move(r)
  PROVE  [Promise!Next]_(Promise!vars)
<1>1. at[r] \in Op
  BY DEF Move, Inv, InOperation, Working
<1>2. CASE UNCHANGED trees
  BY <1>2 DEF trees, Promise!vars, Located
<1>3. CASE ~UNCHANGED trees
  <2>1. PICK id \in Tree :
          /\ tree[From(r)][at[r]] = id /\ tree[Other(From(r))][at[r]] = NoTree
          /\ tree' = [tree EXCEPT ![From(r)][at[r]] = NoTree,
                                  ![Other(From(r))][at[r]] = id]
          /\ UNCHANGED <<aside, born>>
    BY <1>1, <1>3, Named, Directions DEF Move, Source, Destination, Inv
  <2>2. Promise!Rename(id, From(r), at[r])
    BY <1>1, <2>1, Directions, RelocatedIsRenamed DEF Inv
  <2> QED BY <1>1, <2>2, Directions, SameSides DEF Promise!Next
<1> QED BY <1>2, <1>3

\* as do a program that creates its tree or writes in it
LEMMA WriteInKeepsPromise ==
  ASSUME NEW mark, NEW op \in Op, NEW side \in Side, Inv, WriteIn(mark, op, side)
  PROVE  [Promise!Next]_(Promise!vars)
<1>1. CASE tree[side][op] # NoTree
  BY <1>1 DEF WriteIn, trees, Promise!vars, Located
<1>2. CASE tree[side][op] = NoTree
  <2> DEFINE id == Ops + created + 1
  <2>1. created < MaxCreated /\ created \in Nat /\ Ops \in Nat /\ MaxCreated \in Nat
    BY <1>2, MigrationAssumption DEF WriteIn, Inv, TreesOK
  <2>2. id \in Tree /\ id \notin 1..Ops + created
    BY <2>1 DEF Tree
  <2>3. PICK new \in Tree \ born :
          /\ tree' = [tree EXCEPT ![side][op] = new]
          /\ born' = born \cup {new}
          /\ UNCHANGED aside
    BY <1>2, <2>2 DEF WriteIn, Inv, TreesOK
  <2>4. Promise!Create(new, side, op)
    BY <1>2, <2>3, AddedIsCreated DEF Inv
  <2> QED BY <2>4, SameSides DEF Promise!Next
<1> QED BY <1>1, <1>2

\* and a user who moves a tree out of the way.
LEMMA MoveAsideKeepsPromise ==
  ASSUME NEW op \in Op, Inv, MoveAside(op)
  PROVE  [Promise!Next]_(Promise!vars)
<1>1. PICK side \in Side : /\ tree' = [tree EXCEPT ![side][op] = NoTree]
                           /\ aside' = aside \cup {tree[side][op]}
  BY DEF MoveAside
<1>2. PICK id \in Tree : tree[side][op] = id
  BY DEF MoveAside, Inv, TreesOK
<1>3. tree[Other(side)][op] # NoTree /\ UNCHANGED born
  BY SameSides DEF MoveAside
<1>4. Promise!SetAside(id, side, op)
  BY <1>1, <1>2, <1>3, RemovedIsSetAside DEF Inv
<1> QED BY <1>4, SameSides DEF Promise!Next

(***************************************************************************)
(* The migration implements StateTrees: interrupted at any point, resumed  *)
(* from its journal, reversed, run twice at once, and with programs that   *)
(* create trees and a user who moves them, every step renames one tree to  *)
(* a free name, creates one, sets one aside, or leaves the trees alone.    *)
(***************************************************************************)
THEOREM PromiseKept == Spec => KeepsPromise
<1>1. Inv /\ [Next]_vars => [Promise!Next]_(Promise!vars)
  <2> SUFFICES ASSUME Inv, [Next]_vars PROVE [Promise!Next]_(Promise!vars)
    OBVIOUS
  <2>1. CASE UNCHANGED trees
    BY <2>1 DEF trees, Promise!vars, Located
  <2>2. ASSUME NEW r \in Runner, Move(r)
        PROVE  [Promise!Next]_(Promise!vars)
    BY <2>2, MoveKeepsPromise
  <2>3. ASSUME NEW r \in Runner, Prepare(r)
        PROVE  [Promise!Next]_(Promise!vars)
    BY <2>3, WriteInKeepsPromise, MigrationAssumption
       DEF Prepare, Launched, Program, Side
  <2>4. ASSUME NEW p \in Program, Work(p)
        PROVE  [Promise!Next]_(Promise!vars)
    BY <2>4, WriteInKeepsPromise, MigrationAssumption DEF Work, Side
  <2>5. CASE FormerWorks
    BY <2>5, WriteInKeepsPromise DEF FormerWorks, Side
  <2>6. ASSUME NEW op \in Op, MoveAside(op)
        PROVE  [Promise!Next]_(Promise!vars)
    BY <2>6, MoveAsideKeepsPromise
  <2>7. \/ UNCHANGED trees
        \/ \E r \in Runner : Move(r) \/ Prepare(r)
        \/ \E p \in Program : Work(p)
        \/ FormerWorks
        \/ \E op \in Op : MoveAside(op)
    BY DEF Next, vars, RunStep, Start, Preflight, Record, PassComplete, PassSkipped,
           BeginMoving, Look, Tidy, Rewrite, Complete, DiscardRuntime, Unlink,
           Launch, Interrupt, Quit
  <2> QED BY <2>1, <2>2, <2>3, <2>4, <2>5, <2>6, <2>7
<1> QED BY <1>1, InitInv, NextInv, StartsAsPromised, PTL
        DEF Spec, KeepsPromise, Promise!Spec

(***************************************************************************)
(* No tree is lost or duplicated: it has one name, or the user has it      *)
(* aside.                                                                  *)
(***************************************************************************)
THEOREM NothingIsLost == Spec => []NothingLost
  BY PromiseKept, Promise!OnceForEver, PTL DEF KeepsPromise, NothingLost

-----------------------------------------------------------------------------
(***************************************************************************)
(* What a run finds after an interruption.  From here on it is what holds  *)
(* until two runs overlap: two that do can finish each other's moves under *)
(* a journal that is already gone.                                         *)
(***************************************************************************)
Loop == {"next", "unlink"} \cup Working

Alone == \A q, r \in Runner : pc[q] # "idle" /\ pc[r] # "idle" => q = r

\* The journal is what the run in its loop has in memory, and none is there
\* before it is recorded and after it is removed.
FollowsIt(r) ==
  /\ pc[r] \in {"preflight", "record", "ready"} => journal.to = "none"
  /\ pc[r] \in Loop => journal = [to |-> To(r), status |-> memory[r]]

Follows == \A r \in Runner : FollowsIt(r)

\* The loop has passed nothing that is not done.
PassedIt(r) ==
  /\ pc[r] \in {"idle", "preflight", "record"} => at[r] = 1
  /\ pc[r] \in Working => memory[r][at[r]] = "moving"
  /\ pc[r] = "unlink" => at[r] = Ops + 1
  /\ \A op \in Op : op < at[r] => memory[r][op] \in {"complete", "skipped"}

Passed == \A r \in Runner : PassedIt(r)

\* The tree under a name has no volatile entries, no names of the other
\* identity.
Tidied(side, op) ==
  tree[side][op] # NoTree => marks[tree[side][op]] \cap Foreign(side) = {}

Renamed(side, op) ==
  tree[side][op] # NoTree /\ op \notin Files => names[tree[side][op]] = side

\* What the steps of one operation have achieved so far.
Achieved ==
  \A r \in Runner :
    /\ pc[r] \in {"rewrite", "complete"} => Tidied(To(r), at[r])
    /\ pc[r] = "complete" => Renamed(To(r), at[r])

\* Volatile entries are in volatile trees only, and in none to come.
Marked ==
  /\ \A side \in Side, op \in Op :
       tree[side][op] # NoTree /\ op \notin Volatile => marks[tree[side][op]] = {}
  /\ \A id \in Tree : id > Ops + created => marks[id] = {}

\* A half moved tree is named by the journal.
Journaled ==
  \A side \in Side, op \in Op :
    HalfMoved(side, op) => journal.to = side /\ journal.status[op] = "moving"

Whole == Alone /\ Follows /\ Passed /\ Achieved /\ Marked /\ Journaled

\* A reversal runs, and is under way, with every program closed.
Closed ==
  /\ journal.to = "legacy" => running = {}
  /\ \A r \in Runner : r = "reverse" /\ pc[r] # "idle" => running = {}

\* A program that runs has its trees, and no migration moves them.
InPlace ==
  \A p \in running : \A op \in Uses[p] :
    /\ tree["canonical"][op] # NoTree
    /\ journal.to = "canonical" => journal.status[op] = "skipped"
    /\ \A r \in Runner : pc[r] = "record" => memory[r][op] = "skipped"

\* A program leaves entries in the trees it uses.
Users ==
  \A side \in Side, op \in Op, p \in Program :
    tree[side][op] # NoTree /\ p \in marks[tree[side][op]] => op \in Uses[p]

Kept == Closed /\ InPlace /\ Users

\* A recorded tree that is still at its source is an operation still to do.
ToMove ==
  /\ journal.to = "none" => due = {}
  /\ due \subseteq born
  /\ journal.to # "none" => \A op \in Op :
       tree[Other(journal.to)][op] \in due => journal.status[op] \in {"pending", "moving"}
  /\ \A r \in Runner : pc[r] \in {"tidy", "rewrite", "complete"} =>
       Source(r, at[r]) \notin due

-----------------------------------------------------------------------------
(* Runs, and the journal they follow.                                      *)

LEMMA WholeInit == Init => Whole
  <1> SUFFICES ASSUME Init PROVE Whole
    OBVIOUS
  <1> USE MigrationAssumption DEF Init
  <1>1. Alone /\ Follows /\ Passed /\ Achieved
    BY DEF Alone, Follows, FollowsIt, Passed, PassedIt, Achieved, Loop, Working, NoJournal, Op
  <1>2. ASSUME NEW side \in Side, NEW op \in Op, tree[side][op] # NoTree
        PROVE  side = "legacy" /\ tree[side][op] = op /\ op \in Tree /\ op \in born
    BY <1>2 DEF Op, Tree
  <1>3. Marked
    <2>1. ASSUME NEW id \in Tree, id > Ops + created
          PROVE  marks[id] = {}
      <3>1. id \notin 1..Ops /\ created = 0 /\ born \subseteq 1..Ops
        BY <2>1 DEF Tree, Op
      <3> QED BY <3>1
    <2> QED BY <1>2, <2>1 DEF Marked
  <1>4. Journaled
    BY <1>2 DEF Journaled, HalfMoved, Foreign, Program
  <1> QED BY <1>1, <1>3, <1>4 DEF Whole

\* A run that overlaps with none starts while the others are idle.
LEMMA StartsAlone ==
  ASSUME Alone', NEW r \in Runner, Inv, Start(r)
  PROVE  \A q \in Runner : pc[q] = "idle"
  <1>1. pc'[r] # "idle" /\ \A q \in Runner : q # r => pc'[q] = pc[q]
    BY DEF Start, Goto, Inv, RunsOK
  <1>2. \A q \in Runner : q # r => pc'[q] = "idle"
    BY <1>1 DEF Alone
  <1> QED BY <1>1, <1>2 DEF Start

\* A run that starts has the plan of the journal in memory, or has one to make.
LEMMA StartFollows ==
  ASSUME Alone', NEW r \in Runner, Inv, Alone, Follows, Passed, Start(r)
  PROVE  Alone' /\ Follows' /\ Passed'
  <1>1. /\ \A q \in Runner : pc[q] = "idle"
        /\ pc' = [pc EXCEPT ![r] = pc'[r]]
        /\ \/ journal.to = "none" /\ pc'[r] = "preflight" /\ UNCHANGED memory
           \/ /\ journal.to = To(r) /\ pc'[r] = "next"
              /\ memory' = [memory EXCEPT ![r] = journal.status]
        /\ UNCHANGED <<journal, at>>
    BY StartsAlone DEF Start, Goto, Inv, RunsOK
  <1>2. Alone'
    OBVIOUS
  <1>3. Follows'
    BY <1>1 DEF Follows, FollowsIt, Loop, Working, Inv, RunsOK, RestOK, Journal
  <1>4. \A q \in Runner : at[q] = 1
    BY <1>1 DEF Passed, PassedIt
  <1>5. Passed'
    BY <1>1, <1>4 DEF Passed, PassedIt, Loop, Working, Inv, RunsOK, Op
  <1> QED BY <1>2, <1>3, <1>5

\* While one run is under way the others are idle, and stay so.
LEMMA OneRun ==
  ASSUME NEW r \in Runner, Inv, Alone, Passed, pc[r] # "idle",
         \A q \in Runner : q # r => pc'[q] = pc[q] /\ at'[q] = at[q] /\ memory'[q] = memory[q],
         FollowsIt(r)', PassedIt(r)'
  PROVE  Alone' /\ Follows' /\ Passed'
  <1>1. \A q \in Runner : q # r => pc'[q] = "idle"
    BY DEF Alone
  <1>2. Alone'
    BY <1>1 DEF Alone
  <1>3. Follows'
    BY <1>1 DEF Follows, FollowsIt, Loop, Working
  <1>4. ASSUME NEW q \in Runner, q # r
        PROVE  PassedIt(q)'
    BY <1>1, <1>4 DEF Passed, PassedIt, Working
  <1> QED BY <1>2, <1>3, <1>4 DEF Passed

\* A run that ends leaves no other behind.
LEMMA EndFollows ==
  ASSUME NEW r \in Runner, Inv, Alone, Passed, pc[r] # "idle", End(r)
  PROVE  Alone' /\ Follows' /\ Passed'
  <1>1. pc'[r] = "idle" /\ at'[r] = 1
    BY DEF End, Goto, Inv, RunsOK
  <1>2. FollowsIt(r)' /\ PassedIt(r)'
    BY <1>1 DEF FollowsIt, PassedIt, Loop, Working, Op
  <1>3. \A q \in Runner : q # r => pc'[q] = pc[q] /\ at'[q] = at[q] /\ memory'[q] = memory[q]
    BY DEF End, Goto, Inv, RunsOK
  <1> QED BY <1>2, <1>3, OneRun

\* Preflight and the record of the plan.
LEMMA PlanFollows ==
  ASSUME NEW r \in Runner, Inv, Alone, Follows, Passed, Preflight(r) \/ Record(r)
  PROVE  Alone' /\ Follows' /\ Passed'
  <1>1. pc[r] # "idle" /\ at[r] = 1
    BY DEF Preflight, Record, Passed, PassedIt
  <1>2. CASE End(r)
    BY <1>1, <1>2, EndFollows
  <1>3. CASE Preflight(r) /\ ~End(r)
    <2>1. /\ pc' = [pc EXCEPT ![r] = "record"] /\ journal' = journal /\ at' = at
          /\ memory' = [memory EXCEPT ![r] = memory'[r]]
      BY <1>3 DEF Preflight, Goto, Inv, RunsOK
    <2>2. FollowsIt(r)' /\ PassedIt(r)'
      BY <1>1, <1>3, <2>1 DEF Preflight, Follows, FollowsIt, PassedIt, Loop, Working, Op, Inv, RunsOK
    <2> QED BY <1>1, <2>1, <2>2, OneRun DEF Inv, RunsOK
  <1>4. CASE Record(r)
    <2>1. /\ pc' = [pc EXCEPT ![r] = "next"] /\ at' = at
          /\ memory' = memory
          /\ journal' = [to |-> To(r), status |-> memory[r]]
      BY <1>4 DEF Record, WriteJournal, Goto, Inv, RunsOK
    <2>2. FollowsIt(r)' /\ PassedIt(r)'
      BY <1>1, <2>1 DEF FollowsIt, PassedIt, Loop, Working, Op, Inv, RunsOK, To
    <2> QED BY <1>1, <2>1, <2>2, OneRun DEF Inv, RunsOK
  <1> QED BY <1>2, <1>3, <1>4

\* An operation that is done: the loop goes on.
LEMMA AdvanceFollows ==
  ASSUME NEW r \in Runner, Inv, Alone, Follows, Passed, Advance(r), at[r] \in Op,
         pc[r] \in Loop,
         journal' = [to |-> To(r), status |-> memory'[r]],
         memory' = [memory EXCEPT ![r] = memory'[r]],
         \A op \in Op : op < at[r] => memory'[r][op] = memory[r][op],
         memory'[r][at[r]] \in {"complete", "skipped"}
  PROVE  Alone' /\ Follows' /\ Passed'
  <1>1. pc' = [pc EXCEPT ![r] = "next"] /\ at' = [at EXCEPT ![r] = at[r] + 1]
    BY DEF Advance, Goto
  <1>2. pc[r] # "idle" /\ at[r] \in Nat
    BY MigrationAssumption DEF Loop, Working, Op
  <1>3. FollowsIt(r)'
    BY <1>1 DEF FollowsIt, Loop, Working, Inv, RunsOK, To
  <1>4. PassedIt(r)'
    <2>1. pc'[r] = "next" /\ at'[r] = at[r] + 1
      BY <1>1 DEF Inv, RunsOK
    <2>2. ASSUME NEW op \in Op, op < at'[r]
          PROVE  memory'[r][op] \in {"complete", "skipped"}
      <3>1. op < at[r] \/ op = at[r]
        BY <1>2, <2>1, <2>2, MigrationAssumption DEF Op
      <3> QED BY <3>1 DEF Passed, PassedIt
    <2> QED BY <2>1, <2>2 DEF PassedIt, Working
  <1>5. \A q \in Runner : q # r => pc'[q] = pc[q] /\ at'[q] = at[q] /\ memory'[q] = memory[q]
    BY <1>1 DEF Inv, RunsOK
  <1> QED BY <1>2, <1>3, <1>4, <1>5, OneRun

\* Going on to the next operation, a run has dealt with those before it,
LEMMA PassFollows ==
  ASSUME NEW r \in Runner, Inv, Alone, Follows, Passed,
         PassComplete(r) \/ PassSkipped(r) \/ Complete(r)
  PROVE  Alone' /\ Follows' /\ Passed'
  <1>1. at[r] \in Op /\ pc[r] \in Loop /\ Advance(r) /\ pc[r] \in {"next", "complete"}
    BY DEF PassComplete, PassSkipped, AtOperation, Complete, Loop, Working, Inv, InOperation
  <1>2. journal = [to |-> To(r), status |-> memory[r]]
    BY <1>1 DEF Follows, FollowsIt
  <1>3. CASE PassComplete(r) \/ PassSkipped(r)
    <2>1. UNCHANGED <<journal, memory>> /\ memory[r][at[r]] \in {"complete", "skipped"}
      BY <1>3 DEF PassComplete, PassSkipped, AtOperation
    <2>2. memory' = [memory EXCEPT ![r] = memory'[r]]
      BY <2>1 DEF Inv, RunsOK
    <2> QED BY <1>1, <1>2, <2>1, <2>2, AdvanceFollows
  <1>4. CASE Complete(r)
    <2>1. /\ memory' = [memory EXCEPT ![r] = [memory[r] EXCEPT ![at[r]] = "complete"]]
          /\ journal' = [to |-> To(r), status |-> [memory[r] EXCEPT ![at[r]] = "complete"]]
          /\ memory[r] \in [Op -> Status]
      BY <1>4 DEF Complete, WriteJournal, Inv, RunsOK
    <2>2. memory'[r] = [memory[r] EXCEPT ![at[r]] = "complete"]
      BY <2>1 DEF Inv, RunsOK
    <2>3. \A op \in Op : op < at[r] => memory'[r][op] = memory[r][op]
      BY <1>1, <2>1, <2>2 DEF Op
    <2>4. memory'[r][at[r]] = "complete"
      BY <1>1, <2>1, <2>2
    <2> QED BY <1>1, <2>1, <2>2, <2>3, <2>4, AdvanceFollows
  <1> QED BY <1>3, <1>4

\* A step inside one operation.
LEMMA InsideFollows ==
  ASSUME NEW r \in Runner, Inv, Alone, Follows, Passed, pc[r] \in Working,
         NEW point \in Working, Goto(r, point), UNCHANGED <<journal, memory, at>>
  PROVE  Alone' /\ Follows' /\ Passed'
  <1>1. pc' = [pc EXCEPT ![r] = point] /\ pc[r] # "idle" /\ pc[r] \in Loop
    BY DEF Goto, Working, Loop
  <1>2. FollowsIt(r)' /\ PassedIt(r)'
    BY <1>1 DEF Follows, FollowsIt, Passed, PassedIt, Loop, Working, Inv, RunsOK, To
  <1> QED BY <1>1, <1>2, OneRun DEF Inv, RunsOK

\* and the steps within an operation leave plan and journal as they are.
LEMMA MovesFollow ==
  ASSUME NEW r \in Runner, Inv, Alone, Follows, Passed,
         Look(r) \/ Move(r) \/ Tidy(r) \/ Rewrite(r)
  PROVE  Alone' /\ Follows' /\ Passed'
  <1>1. pc[r] \in Working /\ pc[r] # "idle"
    BY DEF Look, Move, Tidy, Rewrite, Working
  <1>2. CASE End(r)
    BY <1>1, <1>2, EndFollows
  <1>3. CASE ~End(r)
    <2>1. PICK point \in {"move", "tidy", "rewrite", "complete"} :
            Goto(r, point) /\ UNCHANGED <<journal, memory, at>>
      BY <1>3 DEF Look, Move, Tidy, Rewrite
    <2>2. point \in Working
      BY DEF Working
    <2> QED BY <1>1, <2>1, <2>2, InsideFollows
  <1> QED BY <1>2, <1>3

\* What a run notes as under way is in its memory and in the journal,
LEMMA BeginFollows ==
  ASSUME NEW r \in Runner, Inv, Alone, Follows, Passed, BeginMoving(r)
  PROVE  Alone' /\ Follows' /\ Passed'
  <1>1. /\ pc[r] = "next" /\ at[r] \in Op
        /\ pc' = [pc EXCEPT ![r] = "look"] /\ at' = at
        /\ memory' = [memory EXCEPT ![r] = [memory[r] EXCEPT ![at[r]] = "moving"]]
        /\ journal' = [to |-> To(r), status |-> [memory[r] EXCEPT ![at[r]] = "moving"]]
        /\ memory[r] \in [Op -> Status]
    BY DEF BeginMoving, AtOperation, WriteJournal, Goto, Inv, RunsOK
  <1>2. memory'[r] = [memory[r] EXCEPT ![at[r]] = "moving"] /\ pc'[r] = "look"
    BY <1>1 DEF Inv, RunsOK
  <1>3. FollowsIt(r)'
    BY <1>1, <1>2 DEF FollowsIt, Loop, Working, To
  <1>4. PassedIt(r)'
    <2>1. \A op \in Op : op < at[r] => memory'[r][op] = memory[r][op]
      BY <1>1, <1>2 DEF Op
    <2>2. memory'[r][at[r]] = "moving"
      BY <1>1, <1>2
    <2> QED BY <1>1, <1>2, <2>1, <2>2 DEF Passed, PassedIt, Working
  <1> QED BY <1>1, <1>3, <1>4, OneRun DEF Inv, RunsOK

\* and what it does after the loop follows a plan that is carried out.
LEMMA FinishFollows ==
  ASSUME NEW r \in Runner, Inv, Alone, Follows, Passed,
         DiscardRuntime(r) \/ Unlink(r) \/ Prepare(r) \/ Launch(r) \/ Interrupt(r)
  PROVE  Alone' /\ Follows' /\ Passed'
  <1>1. pc[r] # "idle"
    BY DEF DiscardRuntime, Unlink, Prepare, Launch, Interrupt
  <1>2. CASE End(r)
    BY <1>1, <1>2, EndFollows
  <1>3. CASE DiscardRuntime(r)
    <2>1. /\ pc' = [pc EXCEPT ![r] = "unlink"] /\ pc[r] = "next"
          /\ UNCHANGED <<journal, memory, at>>
          /\ at[r] = Ops + 1
      BY <1>3, MigrationAssumption DEF DiscardRuntime, Goto, Inv, RunsOK
    <2>2. FollowsIt(r)' /\ PassedIt(r)'
      BY <2>1 DEF Follows, FollowsIt, Passed, PassedIt, Loop, Working, Inv, RunsOK, To
    <2> QED BY <1>1, <2>1, <2>2, OneRun DEF Inv, RunsOK
  <1>4. CASE Unlink(r) /\ ~End(r)
    <2>1. /\ pc' = [pc EXCEPT ![r] = "ready"] /\ journal' = NoJournal
          /\ UNCHANGED <<memory, at>>
      BY <1>4 DEF Unlink, Goto
    <2>2. FollowsIt(r)' /\ PassedIt(r)'
      BY <2>1 DEF FollowsIt, Passed, PassedIt, Loop, Working, Inv, RunsOK, NoJournal
    <2> QED BY <1>1, <2>1, <2>2, OneRun DEF Inv, RunsOK
  <1>5. CASE Prepare(r)
    BY <1>5 DEF Prepare, runs, Alone, Follows, FollowsIt, Passed, PassedIt, Loop, Working, To
  <1> QED BY <1>2, <1>3, <1>4, <1>5 DEF Launch, Interrupt

\* One run at a time: journal and memory agree at every step.
LEMMA RunsFollow ==
  ASSUME Alone', Inv, Alone, Follows, Passed, [Next]_vars
  PROVE  Alone' /\ Follows' /\ Passed'
  <1>1. CASE UNCHANGED <<journal, runs>>
    BY <1>1 DEF runs, Alone, Follows, FollowsIt, Passed, PassedIt, Loop, Working, To
  <1>2. ASSUME NEW r \in Runner,
               Start(r) \/ RunStep(r) \/ Prepare(r) \/ Launch(r) \/ Interrupt(r)
        PROVE  Alone' /\ Follows' /\ Passed'
    BY <1>2, StartFollows, PlanFollows, PassFollows, MovesFollow, BeginFollows,
       FinishFollows DEF RunStep
  <1> QED BY <1>1, <1>2 DEF Next, vars, Work, Quit, FormerWorks, MoveAside

-----------------------------------------------------------------------------
(* Trees, and what is left in them.                                        *)

\* NothingLost, of the names in "tree".
OneName ==
  /\ \A side, side2 \in Side, op, op2 \in Op :
       tree[side][op] # NoTree /\ tree[side][op] = tree[side2][op2] =>
         side = side2 /\ op = op2
  /\ \A side \in Side, op \in Op : tree[side][op] # NoTree => tree[side][op] \in born

\* As long as nothing is lost, no tree has two names.
LEMMA NamesOnce ==
  ASSUME TreesOK, NothingLost
  PROVE  OneName
  <1>1. ASSUME NEW side \in Side, NEW side2 \in Side, NEW op \in Op, NEW op2 \in Op,
               tree[side][op] # NoTree, tree[side][op] = tree[side2][op2]
        PROVE  side = side2 /\ op = op2
    <2>1. tree[side][op] \in Tree
      BY <1>1 DEF TreesOK
    <2>2. /\ <<tree[side][op], side, op>> \in Located
          /\ <<tree[side][op], side2, op2>> \in Located
      BY <1>1, <2>1, InLocated
    <2> QED BY <2>1, <2>2, SameSides
            DEF NothingLost, Promise!EachTreeOnce, Promise!OneNamePerTree
  <1>2. ASSUME NEW side \in Side, NEW op \in Op, tree[side][op] # NoTree
        PROVE  tree[side][op] \in born
    <2>1. tree[side][op] \in Tree
      BY <1>2 DEF TreesOK
    <2>2. <<tree[side][op], side, op>> \in Located
      BY <2>1, InLocated
    <2> QED BY <2>1, <2>2, SameSides
            DEF NothingLost, Promise!EachTreeOnce, Promise!NamedOrAside
  <1> QED BY <1>1, <1>2 DEF OneName

\* A tree is half moved when it still has volatile entries or old names.
LEMMA HalfMovedIs ==
  ASSUME NEW side \in Side, NEW op \in Op
  PROVE  /\ HalfMoved(side, op) <=> ~(Tidied(side, op) /\ Renamed(side, op))
         /\ HalfMoved(side, op)' <=> ~(Tidied(side, op)' /\ Renamed(side, op)')
  BY DEF HalfMoved, Tidied, Renamed

\* The trees stay as clean as they were, but for the name a move takes.
StayClean(moved) ==
  \A side \in Side, op \in Op :
    <<side, op>> \notin moved =>
      /\ Tidied(side, op) => Tidied(side, op)'
      /\ Renamed(side, op) => Renamed(side, op)'

\* A walk that discards volatile entries leaves no other behind.
LEMMA FewerMarks ==
  ASSUME Inv, Marked, UNCHANGED <<tree, created, names>>,
         marks' \in [Tree -> SUBSET Mark], \A id \in Tree : marks'[id] \subseteq marks[id]
  PROVE  StayClean({}) /\ Marked'
  <1>1. \A side \in Side, op \in Op : tree[side][op] \in Tree \cup {NoTree}
    BY DEF Inv, TreesOK
  <1>2. StayClean({})
    BY <1>1 DEF StayClean, Tidied, Renamed
  <1>3. Marked'
    BY <1>1 DEF Marked
  <1> QED BY <1>2, <1>3

\* Discarding the volatile entries of one tree leaves every clean tree clean,
LEMMA DiscardCleans ==
  ASSUME NEW r \in Runner, NEW op \in Op, Inv, Marked, DiscardVolatile(r, op),
         UNCHANGED <<tree, created, names>>
  PROVE  StayClean({}) /\ Marked' /\ Tidied(To(r), op)'
  <1>1. Destination(r, op) \in Tree \cup {NoTree}
    BY Named DEF Inv
  <1>2. marks' \in [Tree -> SUBSET Mark] /\ \A id \in Tree : marks'[id] \subseteq marks[id]
    BY <1>1 DEF DiscardVolatile, Inv, WorldOK
  <1>3. Tidied(To(r), op)'
    <2>1. CASE Destination(r, op) = NoTree
      BY <2>1 DEF Tidied, Destination, To
    <2>2. CASE Destination(r, op) # NoTree /\ op \in Volatile
      <3>1. marks'[Destination(r, op)] = {}
        BY <1>1, <2>2 DEF DiscardVolatile, Inv, WorldOK
      <3> QED BY <3>1 DEF Tidied, Destination, To
    <2>3. CASE Destination(r, op) # NoTree /\ op \notin Volatile
      <3>1. marks'[Destination(r, op)] = {}
        BY <2>3, Directions DEF DiscardVolatile, Marked, Destination
      <3> QED BY <3>1 DEF Tidied, Destination, To
    <2> QED BY <2>1, <2>2, <2>3
  <1> QED BY <1>2, <1>3, FewerMarks

\* and so does rewriting the names in it.
LEMMA RewriteCleans ==
  ASSUME NEW r \in Runner, NEW op \in Op, Inv, OneName, Marked, RewriteNames(r, op),
         UNCHANGED <<tree, created, marks>>
  PROVE  StayClean({}) /\ Marked' /\ Renamed(To(r), op)'
  <1>1. Destination(r, op) \in Tree \cup {NoTree} /\ To(r) \in Side
    BY Named, Directions DEF Inv
  <1>2. ASSUME NEW side \in Side, NEW o \in Op, Renamed(side, o)
        PROVE  Renamed(side, o)'
    <2>1. CASE tree[side][o] = NoTree
      BY <2>1 DEF Renamed
    <2>2. CASE tree[side][o] # NoTree /\ tree[side][o] = tree[To(r)][op]
      <3>1. side = To(r) /\ o = op
        BY <1>1, <2>2 DEF OneName
      <3> QED BY <1>1, <1>2, <2>2, <3>1 DEF Renamed, RewriteNames, Destination, Inv, WorldOK, To
    <2>3. CASE tree[side][o] # NoTree /\ tree[side][o] # tree[To(r)][op]
      <3>1. tree[side][o] \in Tree
        BY <2>3 DEF Inv, TreesOK
      <3>2. names'[tree[side][o]] = names[tree[side][o]]
        BY <1>1, <2>3, <3>1 DEF RewriteNames, Destination, Inv, WorldOK
      <3> QED BY <1>2, <3>2 DEF Renamed
    <2> QED BY <2>1, <2>2, <2>3
  <1>3. StayClean({})
    BY <1>2 DEF StayClean, Tidied
  <1>4. Renamed(To(r), op)'
    <2>1. CASE Destination(r, op) = NoTree \/ op \in Files
      BY <2>1 DEF Renamed, Destination, To
    <2>2. CASE Destination(r, op) # NoTree /\ op \notin Files
      <3>1. names' = [names EXCEPT ![Destination(r, op)] = To(r)]
        BY <2>2 DEF RewriteNames
      <3>2. names'[Destination(r, op)] = To(r)
        BY <1>1, <2>2, <3>1 DEF Inv, WorldOK
      <3> QED BY <3>2 DEF Renamed, Destination, To
    <2> QED BY <2>1, <2>2
  <1>5. Marked'
    BY DEF Marked
  <1> QED BY <1>3, <1>4, <1>5

\* A rename leaves every tree clean but the one under its new name,
LEMMA MoveCleans ==
  ASSUME NEW r \in Runner, NEW op \in Op, Inv, Marked,
         tree' = [tree EXCEPT ![From(r)][op] = NoTree, ![To(r)][op] = Source(r, op)],
         UNCHANGED <<names, marks, created>>
  PROVE  StayClean({<<To(r), op>>}) /\ Marked'
  <1>1. From(r) \in Side /\ To(r) \in Side /\ From(r) # To(r)
    BY Directions
  <1>2. \A side \in Side, o \in Op :
          tree'[side][o] = IF o # op THEN tree[side][o]
                           ELSE IF side = To(r) THEN tree[From(r)][op] ELSE NoTree
    BY <1>1, Directions DEF Inv, TreesOK, Source, Side
  <1>3. StayClean({<<To(r), op>>})
    <2>1. ASSUME NEW side \in Side, NEW o \in Op, <<side, o>> \notin {<<To(r), op>>}
          PROVE  /\ Tidied(side, o) => Tidied(side, o)'
                 /\ Renamed(side, o) => Renamed(side, o)'
      <3>1. ~(side = To(r) /\ o = op)
        BY <2>1
      <3>2. tree'[side][o] = tree[side][o] \/ tree'[side][o] = NoTree
        BY <1>2, <3>1
      <3>3. Tidied(side, o) => Tidied(side, o)'
        BY <3>2 DEF Tidied
      <3>4. Renamed(side, o) => Renamed(side, o)'
        BY <3>2 DEF Renamed
      <3> QED BY <3>3, <3>4
    <2> QED BY <2>1 DEF StayClean
  <1>4. Marked'
    <2>1. ASSUME NEW side \in Side, NEW o \in Op, tree'[side][o] # NoTree, o \notin Volatile
          PROVE  marks[tree'[side][o]] = {}
      <3>1. tree'[side][o] = tree[side][o] \/ tree'[side][o] = tree[From(r)][o]
        <4>1. CASE o # op
          BY <1>2, <4>1
        <4>2. CASE o = op
          BY <1>2, <2>1, <4>2
        <4> QED BY <4>1, <4>2
      <3>2. CASE tree'[side][o] = tree[side][o]
        BY <2>1, <3>2 DEF Marked
      <3>3. CASE tree'[side][o] = tree[From(r)][o]
        BY <1>1, <2>1, <3>3 DEF Marked
      <3> QED BY <3>1, <3>2, <3>3
    <2> QED BY <2>1 DEF Marked
  <1> QED BY <1>3, <1>4

\* and setting one aside leaves them all so.
LEMMA AsideCleans ==
  ASSUME NEW side \in Side, NEW op \in Op, Inv, Marked,
         tree' = [tree EXCEPT ![side][op] = NoTree],
         UNCHANGED <<names, marks, created>>
  PROVE  StayClean({}) /\ Marked'
  <1>1. \A s \in Side, o \in Op :
          tree'[s][o] = IF s = side /\ o = op THEN NoTree ELSE tree[s][o]
    BY DEF Inv, TreesOK
  <1> QED BY <1>1 DEF StayClean, Tidied, Renamed, Marked

\* What a program does that writes in a tree.
LEMMA WriteInIs ==
  ASSUME NEW mark \in Mark, NEW op \in Op, NEW side \in Side, Inv, WriteIn(mark, op, side)
  PROVE  \E id \in Tree :
           /\ \/ tree[side][op] = id /\ UNCHANGED <<trees, names>>
              \/ /\ tree[side][op] = NoTree
                 /\ id = Ops + created + 1
                 /\ created' = created + 1
                 /\ born' = born \cup {id}
                 /\ tree' = [tree EXCEPT ![side][op] = id]
                 /\ names' = [names EXCEPT ![id] = side]
           /\ \/ marks' = marks
              \/ op \in Volatile /\ marks' = [marks EXCEPT ![id] = @ \cup {mark}]
  <1>1. CASE tree[side][op] # NoTree
    <2>1. tree[side][op] \in Tree
      BY <1>1 DEF Inv, TreesOK
    <2> QED BY <1>1, <2>1 DEF WriteIn
  <1>2. CASE tree[side][op] = NoTree
    <2>1. created < MaxCreated /\ created \in Nat /\ Ops \in Nat /\ MaxCreated \in Nat
      BY <1>2, MigrationAssumption DEF WriteIn, Inv, TreesOK
    <2>2. Ops + created + 1 \in Tree
      BY <2>1 DEF Tree
    <2> QED BY <1>2, <2>2 DEF WriteIn
  <1> QED BY <1>1, <1>2

\* A program that writes in a tree leaves only its own entries, and names of
\* the identity the tree has.
LEMMA WriteInCleans ==
  ASSUME NEW mark \in Mark, NEW op \in Op, NEW side \in Side, mark \notin Foreign(side),
         Inv, OneName, Marked, WriteIn(mark, op, side)
  PROVE  /\ StayClean({}) /\ Marked'
         /\ \A s \in Side, o \in Op : tree'[s][o] # NoTree =>
              \A m \in marks'[tree'[s][o]] :
                \/ tree[s][o] # NoTree /\ m \in marks[tree[s][o]]
                \/ m = mark /\ o = op
  <1>1. PICK id \in Tree :
          /\ \/ tree[side][op] = id /\ UNCHANGED <<trees, names>>
             \/ /\ tree[side][op] = NoTree
                /\ id = Ops + created + 1
                /\ created' = created + 1
                /\ born' = born \cup {id}
                /\ tree' = [tree EXCEPT ![side][op] = id]
                /\ names' = [names EXCEPT ![id] = side]
          /\ \/ marks' = marks
             \/ op \in Volatile /\ marks' = [marks EXCEPT ![id] = @ \cup {mark}]
    BY WriteInIs
  <1>2. \A s \in Side, o \in Op :
          tree'[s][o] = IF s = side /\ o = op THEN id ELSE tree[s][o]
    BY <1>1 DEF Inv, TreesOK, trees
  <1>3. created \in Nat /\ Ops \in Nat /\ born \subseteq 1..Ops + created
    BY MigrationAssumption DEF Inv, TreesOK
  <1>4. \/ tree[side][op] = id /\ created' = created /\ id \in 1..Ops + created
        \/ id \notin born /\ id = Ops + created + 1 /\ created' = created + 1
           /\ names'[id] = side /\ marks[id] = {}
    <2>1. CASE tree[side][op] = id /\ UNCHANGED <<trees, names>>
      BY <1>3, <2>1 DEF OneName, trees, NoTree, Tree
    <2>2. CASE /\ tree[side][op] = NoTree
               /\ id = Ops + created + 1
               /\ created' = created + 1
               /\ names' = [names EXCEPT ![id] = side]
      <3>1. id \notin 1..Ops + created /\ id > Ops + created
        BY <1>3, <2>2
      <3> QED BY <1>3, <2>2, <3>1 DEF Inv, WorldOK, Marked
    <2> QED BY <1>1, <2>1, <2>2
  <1>5. /\ \A t \in Tree : t # id => names'[t] = names[t] /\ marks'[t] = marks[t]
        /\ marks'[id] = marks[id] \/ (op \in Volatile /\ marks'[id] = marks[id] \cup {mark})
        /\ tree[side][op] = id => names'[id] = names[id]
    <2>1. names \in [Tree -> Side] /\ marks \in [Tree -> SUBSET Mark]
      BY DEF Inv, WorldOK
    <2>2. \A t \in Tree : t # id => names'[t] = names[t] /\ marks'[t] = marks[t]
      BY <1>1, <2>1
    <2>3. marks'[id] = marks[id] \/ (op \in Volatile /\ marks'[id] = marks[id] \cup {mark})
      BY <1>1, <2>1
    <2>4. tree[side][op] = id => names'[id] = names[id]
      BY <1>1 DEF NoTree, Tree
    <2> QED BY <2>2, <2>3, <2>4
  <1>6. ASSUME NEW s \in Side, NEW o \in Op, ~(s = side /\ o = op), tree[s][o] # NoTree
        PROVE  tree[s][o] \in Tree /\ tree[s][o] # id
    <2>1. tree[s][o] \in Tree /\ tree[s][o] \in born
      BY <1>6 DEF Inv, TreesOK, OneName
    <2> QED BY <1>4, <1>6, <2>1 DEF OneName
  <1>7. ASSUME NEW s \in Side, NEW o \in Op
        PROVE  /\ Tidied(s, o) => Tidied(s, o)'
               /\ Renamed(s, o) => Renamed(s, o)'
    <2>1. CASE s = side /\ o = op
      <3>1. tree'[s][o] = id
        BY <1>2, <2>1
      <3>2. CASE tree[side][op] = id
        BY <1>5, <2>1, <3>1, <3>2 DEF Tidied, Renamed, NoTree, Tree
      <3>3. CASE marks[id] = {} /\ names'[id] = side
        BY <1>5, <2>1, <3>1, <3>3 DEF Tidied, Renamed
      <3> QED BY <1>4, <3>2, <3>3
    <2>2. CASE ~(s = side /\ o = op)
      BY <1>2, <1>5, <1>6, <2>2 DEF Tidied, Renamed
    <2> QED BY <2>1, <2>2
  <1>8. Marked'
    <2>1. ASSUME NEW s \in Side, NEW o \in Op, tree'[s][o] # NoTree, o \notin Volatile
          PROVE  marks'[tree'[s][o]] = {}
      <3>1. CASE s = side /\ o = op
        BY <1>2, <1>4, <1>5, <2>1, <3>1 DEF Marked, NoTree, Tree
      <3>2. CASE ~(s = side /\ o = op)
        BY <1>2, <1>5, <1>6, <2>1, <3>2 DEF Marked
      <3> QED BY <3>1, <3>2
    <2>2. ASSUME NEW t \in Tree, t > Ops + created'
          PROVE  marks'[t] = {}
      <3>1. t > Ops + created /\ t # id
        BY <1>3, <1>4, <2>2 DEF Tree
      <3> QED BY <1>5, <3>1 DEF Marked
    <2> QED BY <2>1, <2>2 DEF Marked
  <1>9. ASSUME NEW s \in Side, NEW o \in Op, tree'[s][o] # NoTree,
               NEW m \in marks'[tree'[s][o]]
        PROVE  \/ tree[s][o] # NoTree /\ m \in marks[tree[s][o]]
               \/ m = mark /\ o = op
    <2>1. CASE s = side /\ o = op
      BY <1>2, <1>4, <1>5, <1>9, <2>1 DEF NoTree, Tree
    <2>2. CASE ~(s = side /\ o = op)
      BY <1>2, <1>5, <1>6, <1>9, <2>2
    <2> QED BY <2>1, <2>2
  <1> QED BY <1>7, <1>8, <1>9 DEF StayClean

-----------------------------------------------------------------------------
(* Every step keeps Whole.                                                 *)

LEMMA JournaledStays ==
  ASSUME StayClean({}), Journaled, UNCHANGED journal
  PROVE  Journaled'
  BY HalfMovedIs DEF StayClean, Journaled

\* What a run has achieved stands while no tree is spoiled and it stays where it is.
LEMMA AchievedStays ==
  ASSUME Inv, StayClean({}), Achieved, UNCHANGED <<at, pc>>
  PROVE  Achieved'
  <1>1. ASSUME NEW r \in Runner, pc[r] \in {"rewrite", "complete"}
        PROVE  /\ To(r) \in Side /\ at[r] \in Op
               /\ Tidied(To(r), at[r]) => Tidied(To(r), at[r])'
               /\ Renamed(To(r), at[r]) => Renamed(To(r), at[r])'
    <2>1. To(r) \in Side /\ at[r] \in Op
      BY <1>1, Directions DEF Inv, InOperation, Working
    <2>2. /\ Tidied(To(r), at[r]) => Tidied(To(r), at[r])'
          /\ Renamed(To(r), at[r]) => Renamed(To(r), at[r])'
      BY <2>1 DEF StayClean, Tidied, Renamed, To
    <2> QED BY <2>1, <2>2
  <1> QED BY <1>1 DEF Achieved

\* A run outside the last steps of an operation has nothing to show.
LEMMA NothingAchieved ==
  ASSUME NEW r \in Runner, NEW point, Inv, \A q \in Runner : q # r => pc[q] = "idle",
         Goto(r, point), point \notin {"rewrite", "complete"}
  PROVE  Achieved'
  <1>1. \A q \in Runner : pc'[q] \notin {"rewrite", "complete"}
    BY DEF Goto, Inv, RunsOK
  <1> QED BY <1>1 DEF Achieved

\* Steps that leave the trees alone.
LEMMA StillClean ==
  ASSUME Inv, Marked, UNCHANGED <<tree, created, names, marks>>
  PROVE  StayClean({}) /\ Marked'
  BY DEF StayClean, Tidied, Renamed, Marked

\* Steps that leave trees and journal alone, outside the last steps of an
\* operation.
LEMMA PlainKeepsWhole ==
  ASSUME Alone', Inv, Whole, NEW r \in Runner,
         \/ Start(r) \/ Preflight(r) \/ PassComplete(r) \/ Look(r)
         \/ DiscardRuntime(r) \/ Launch(r) \/ Interrupt(r)
  PROVE  Achieved' /\ Marked' /\ Journaled'
  <1>1. UNCHANGED <<tree, created, names, marks, journal>>
    BY DEF Start, Preflight, PassComplete, Look, DiscardRuntime, Launch, Interrupt,
           trees, world
  <1>2. \A q \in Runner : q # r => pc[q] = "idle"
    <2>1. CASE Start(r)
      BY <2>1, StartsAlone
    <2>2. CASE ~Start(r)
      BY <2>2 DEF Whole, Alone, Preflight, PassComplete, AtOperation, Look,
                  DiscardRuntime, Launch, Interrupt
    <2> QED BY <2>1, <2>2
  <1>3. \E point : Goto(r, point) /\ point \notin {"rewrite", "complete"}
    BY DEF Start, Preflight, PassComplete, Look, DiscardRuntime, Launch, Interrupt,
           End, Advance
  <1>4. Marked' /\ StayClean({})
    BY <1>1, StillClean DEF Whole
  <1> QED BY <1>1, <1>2, <1>3, <1>4, NothingAchieved, JournaledStays DEF Whole

\* Nothing is half moved when a plan is recorded.
LEMMA RecordKeepsWhole ==
  ASSUME Inv, Whole, NEW r \in Runner, Record(r)
  PROVE  Achieved' /\ Marked' /\ Journaled'
  <1>1. UNCHANGED <<tree, created, names, marks>> /\ journal.to = "none" /\ Goto(r, "next")
        /\ \A q \in Runner : q # r => pc[q] = "idle"
    BY DEF Record, trees, world, Whole, Follows, FollowsIt, Alone
  <1>2. \A side \in Side, op \in Op : ~HalfMoved(side, op)
    BY <1>1 DEF Whole, Journaled, Side
  <1>3. Marked' /\ StayClean({})
    BY <1>1, StillClean DEF Whole
  <1>4. Journaled'
    BY <1>2, <1>3, HalfMovedIs DEF StayClean, Journaled
  <1> QED BY <1>1, <1>3, <1>4, NothingAchieved

\* Noting an operation as under way makes what follows resumable.
LEMMA BeginKeepsWhole ==
  ASSUME Inv, Whole, NEW r \in Runner, BeginMoving(r)
  PROVE  Achieved' /\ Marked' /\ Journaled'
  <1>1. /\ UNCHANGED <<tree, created, names, marks>> /\ Goto(r, "look")
        /\ \A q \in Runner : q # r => pc[q] = "idle"
        /\ journal = [to |-> To(r), status |-> memory[r]]
        /\ journal' = [to |-> To(r), status |-> [memory[r] EXCEPT ![at[r]] = "moving"]]
        /\ memory[r] \in [Op -> Status]
    BY DEF BeginMoving, AtOperation, WriteJournal, trees, world, Whole, Follows, FollowsIt,
           Alone, Loop, Inv, RunsOK
  <1>2. Marked' /\ StayClean({})
    BY <1>1, StillClean DEF Whole
  <1>3. \A op \in Op : journal.status[op] = "moving" => journal'.status[op] = "moving"
    BY <1>1
  <1>4. Journaled'
    BY <1>1, <1>2, <1>3, HalfMovedIs DEF Whole, StayClean, Journaled
  <1> QED BY <1>1, <1>2, <1>4, NothingAchieved

\* What is complete is not half moved.
LEMMA CompleteKeepsWhole ==
  ASSUME Inv, Whole, NEW r \in Runner, Complete(r)
  PROVE  Achieved' /\ Marked' /\ Journaled'
  <1>1. /\ UNCHANGED <<tree, created, names, marks>> /\ Goto(r, "next")
        /\ \A q \in Runner : q # r => pc[q] = "idle"
        /\ journal = [to |-> To(r), status |-> memory[r]]
        /\ journal' = [to |-> To(r), status |-> [memory[r] EXCEPT ![at[r]] = "complete"]]
        /\ memory[r] \in [Op -> Status]
        /\ Tidied(To(r), at[r]) /\ Renamed(To(r), at[r])
    BY DEF Complete, Advance, WriteJournal, trees, world, Whole, Follows, FollowsIt,
           Alone, Loop, Working, Inv, RunsOK, Achieved
  <1>2. Marked' /\ StayClean({})
    BY <1>1, StillClean DEF Whole
  <1>3. ASSUME NEW side \in Side, NEW op \in Op, HalfMoved(side, op)'
        PROVE  journal'.to = side /\ journal'.status[op] = "moving"
    <2>1. HalfMoved(side, op)
      BY <1>2, <1>3, HalfMovedIs DEF StayClean
    <2>2. journal.to = side /\ journal.status[op] = "moving"
      BY <2>1 DEF Whole, Journaled
    <2>3. op # at[r]
      BY <1>1, <2>1, <2>2, HalfMovedIs
    <2> QED BY <1>1, <2>2, <2>3
  <1>4. Journaled'
    BY <1>3 DEF Journaled
  <1> QED BY <1>1, <1>2, <1>4, NothingAchieved

\* The journal is removed when nothing is half moved.
LEMMA UnlinkKeepsWhole ==
  ASSUME Inv, Whole, NEW r \in Runner, Unlink(r)
  PROVE  Achieved' /\ Marked' /\ Journaled'
  <1>1. /\ UNCHANGED <<tree, created, names, marks>>
        /\ \A q \in Runner : q # r => pc[q] = "idle"
        /\ journal = [to |-> To(r), status |-> memory[r]]
        /\ at[r] = Ops + 1
    BY DEF Unlink, trees, world, Whole, Follows, FollowsIt, Passed, PassedIt, Alone, Loop
  <1>2. \A op \in Op : journal.status[op] # "moving"
    <2>1. \A op \in Op : op < at[r]
      BY <1>1, MigrationAssumption DEF Op
    <2> QED BY <1>1, <2>1 DEF Whole, Passed, PassedIt
  <1>3. \A side \in Side, op \in Op : ~HalfMoved(side, op)
    BY <1>2 DEF Whole, Journaled
  <1>4. Marked' /\ StayClean({})
    BY <1>1, StillClean DEF Whole
  <1>5. Journaled'
    BY <1>3, <1>4, HalfMovedIs DEF StayClean, Journaled
  <1>6. \E point : Goto(r, point) /\ point \notin {"rewrite", "complete"}
    BY DEF Unlink, End
  <1> QED BY <1>1, <1>4, <1>5, <1>6, NothingAchieved

\* An operation that is passed over needs nothing done,
LEMMA SkippedKeepsWhole ==
  ASSUME Inv, OneName, Whole, NEW r \in Runner, PassSkipped(r)
  PROVE  Achieved' /\ Marked' /\ Journaled'
  <1>1. /\ RewriteNames(r, at[r]) /\ at[r] \in Op /\ Goto(r, "next")
        /\ UNCHANGED <<tree, created, marks, journal>>
        /\ \A q \in Runner : q # r => pc[q] = "idle"
    BY DEF PassSkipped, AtOperation, Advance, trees, Whole, Alone
  <1>2. StayClean({}) /\ Marked'
    BY <1>1, RewriteCleans DEF Whole
  <1> QED BY <1>1, <1>2, NothingAchieved, JournaledStays DEF Whole

\* The journal says of the tree that is renamed that it is being moved.
LEMMA MoveKeepsWhole ==
  ASSUME Inv, Whole, NEW r \in Runner, Move(r)
  PROVE  Achieved' /\ Marked' /\ Journaled'
  <1>1. /\ pc[r] = "move" /\ at[r] \in Op /\ journal' = journal
        /\ \A q \in Runner : q # r => pc[q] = "idle"
        /\ journal.to = To(r) /\ journal.status[at[r]] = "moving"
    BY DEF Move, Inv, InOperation, Working, Whole, Alone, Follows, FollowsIt, Passed,
           PassedIt, Loop
  <1>2. \E point : Goto(r, point) /\ point \notin {"rewrite", "complete"}
    BY DEF Move, End
  <1>3. CASE UNCHANGED trees
    <2>1. StayClean({}) /\ Marked'
      BY <1>3, StillClean DEF Whole, Move, trees, world
    <2> QED BY <1>1, <1>2, <2>1, NothingAchieved, JournaledStays DEF Whole
  <1>4. CASE ~UNCHANGED trees
    <2>1. StayClean({<<To(r), at[r]>>}) /\ Marked'
      BY <1>1, <1>4, MoveCleans DEF Whole, Move, world
    <2>2. Journaled'
      BY <1>1, <2>1, HalfMovedIs DEF Whole, StayClean, Journaled
    <2> QED BY <1>1, <1>2, <2>1, <2>2, NothingAchieved
  <1> QED BY <1>3, <1>4

\* discarding brings a tree half of the way,
LEMMA TidyKeepsWhole ==
  ASSUME Inv, Whole, NEW r \in Runner, Tidy(r)
  PROVE  Achieved' /\ Marked' /\ Journaled'
  <1>1. /\ at[r] \in Op /\ pc[r] = "tidy" /\ DiscardVolatile(r, at[r])
        /\ UNCHANGED <<tree, created, names, journal>>
        /\ \A q \in Runner : q # r => pc[q] = "idle"
    BY DEF Tidy, Inv, InOperation, Working, trees, Whole, Alone
  <1>2. PICK op \in Op : op = at[r]
    BY <1>1
  <1>3. StayClean({}) /\ Marked' /\ Tidied(To(r), op)'
    BY <1>1, <1>2, DiscardCleans DEF Whole
  <1>4. Journaled'
    BY <1>1, <1>3, JournaledStays DEF Whole
  <1>5. CASE End(r)
    BY <1>1, <1>3, <1>4, <1>5, NothingAchieved DEF End
  <1>6. CASE Goto(r, "rewrite") /\ UNCHANGED at
    <2>1. \A q \in Runner : pc'[q] \in {"rewrite", "complete"} => q = r /\ pc'[q] = "rewrite"
      BY <1>1, <1>6 DEF Goto, Inv, RunsOK
    <2>2. at'[r] = op
      BY <1>2, <1>6
    <2> QED BY <1>3, <1>4, <2>1, <2>2 DEF Achieved
  <1> QED BY <1>5, <1>6 DEF Tidy

\* and rewriting the rest of it.
LEMMA RewriteKeepsWhole ==
  ASSUME Inv, OneName, Whole, NEW r \in Runner, Rewrite(r)
  PROVE  Achieved' /\ Marked' /\ Journaled'
  <1>1. /\ at[r] \in Op /\ pc[r] = "rewrite" /\ RewriteNames(r, at[r])
        /\ Goto(r, "complete")
        /\ UNCHANGED <<tree, created, marks, journal, at>>
        /\ \A q \in Runner : q # r => pc[q] = "idle"
        /\ Tidied(To(r), at[r]) /\ To(r) \in Side
    BY Directions DEF Rewrite, Inv, InOperation, Working, trees, Whole, Alone, Achieved
  <1>2. StayClean({}) /\ Marked'
    BY <1>1, RewriteCleans DEF Whole
  <1>3. PICK o \in Op : o = at[r]
    BY <1>1
  <1>4. Tidied(To(r), o)' /\ Renamed(To(r), o)'
    BY <1>1, <1>2, <1>3, RewriteCleans DEF Whole, StayClean
  <1>5. \A q \in Runner : pc'[q] \in {"rewrite", "complete"} => q = r
    BY <1>1 DEF Goto, Inv, RunsOK
  <1>6. at'[r] = o
    BY <1>1, <1>3
  <1>7. Achieved'
    BY <1>4, <1>5, <1>6 DEF Achieved
  <1> QED BY <1>1, <1>2, <1>7, JournaledStays DEF Whole

\* Programs and the user, at any time.
LEMMA OthersKeepWhole ==
  ASSUME Inv, OneName, Whole,
         \/ \E r \in Runner : Prepare(r)
         \/ \E p \in Program : Work(p) \/ Quit(p)
         \/ FormerWorks
         \/ \E op \in Op : MoveAside(op)
  PROVE  Achieved' /\ Marked' /\ Journaled'
  <1>1. UNCHANGED <<journal, at, pc>>
    BY DEF Prepare, Work, Quit, FormerWorks, MoveAside, runs
  <1>2. ASSUME NEW p \in Program, NEW op \in Op, WriteIn(p, op, "canonical")
        PROVE  StayClean({}) /\ Marked'
    BY <1>2, WriteInCleans DEF Whole, Side, Mark, Foreign, Program
  <1>3. ASSUME NEW op \in Op, WriteIn("former", op, "legacy")
        PROVE  StayClean({}) /\ Marked'
    BY <1>3, WriteInCleans DEF Whole, Side, Mark, Foreign, Program
  <1>4. ASSUME NEW p \in Program, Quit(p)
        PROVE  StayClean({}) /\ Marked'
    <2>1. /\ UNCHANGED <<tree, created, names>>
          /\ marks' \in [Tree -> SUBSET Mark]
          /\ \A id \in Tree : marks'[id] \subseteq marks[id]
      BY <1>4 DEF Quit, trees, Inv, WorldOK
    <2> QED BY <2>1, FewerMarks DEF Whole
  <1>5. ASSUME NEW op \in Op, MoveAside(op)
        PROVE  StayClean({}) /\ Marked'
    <2>1. PICK side \in Side : tree' = [tree EXCEPT ![side][op] = NoTree]
      BY <1>5 DEF MoveAside
    <2> QED BY <1>5, <2>1, AsideCleans DEF MoveAside, world, Whole
  <1>6. StayClean({}) /\ Marked'
    <2>1. \A p \in Program : Uses[p] \subseteq Op
      BY MigrationAssumption
    <2>2. \A r \in Runner : Launched(r) \in Program
      BY DEF Launched, Program
    <2> QED BY <1>2, <1>3, <1>4, <1>5, <2>1, <2>2 DEF Prepare, Work, FormerWorks
  <1> QED BY <1>1, <1>6, AchievedStays, JournaledStays DEF Whole

\* Whole is inductive as long as runs do not overlap,
LEMMA WholeStays ==
  ASSUME Alone', Inv, NothingLost, Whole, [Next]_vars
  PROVE  Whole'
  <1>1. Alone' /\ Follows' /\ Passed'
    BY RunsFollow DEF Whole
  <1>2. OneName
    BY NamesOnce DEF Inv
  <1>3. Achieved' /\ Marked' /\ Journaled'
    <2>1. CASE UNCHANGED vars
      BY <2>1, StillClean, AchievedStays, JournaledStays DEF vars, trees, world, runs, Whole
    <2>2. CASE Next
      BY <1>2, <2>2, PlainKeepsWhole, RecordKeepsWhole, BeginKeepsWhole,
         CompleteKeepsWhole, UnlinkKeepsWhole, SkippedKeepsWhole, MoveKeepsWhole,
         TidyKeepsWhole, RewriteKeepsWhole, OthersKeepWhole DEF Next, RunStep
    <2> QED BY <2>1, <2>2
  <1> QED BY <1>1, <1>3 DEF Whole

\* What has not happened is not happening either.
LEMMA NoMishap ==
  ASSUME HNext
  PROVE  /\ "overlap" \notin mishaps' => "overlap" \notin mishaps /\ Alone'
         /\ mishaps' = {} => mishaps = {} /\ ~Occurs("careless")
<1>1. mishaps' = mishaps \cup {event \in Mishap : Occurs(event)}
  BY DEF HNext
<1>2. "overlap" \in Mishap /\ "careless" \in Mishap
  BY DEF Mishap
<1>3. "overlap" \notin mishaps' => "overlap" \notin mishaps /\ ~Occurs("overlap")
  BY <1>1, <1>2
<1>4. mishaps' = {} => mishaps = {} /\ ~Occurs("careless")
  BY <1>1, <1>2
<1>5. ~Occurs("overlap") => Alone'
  BY DEF Occurs, Alone
<1> QED BY <1>3, <1>4, <1>5

\* A behaviour with its history is a behaviour of the migration.
LEMMA HistorySpec == HSpec => []Inv /\ []NothingLost
<1>1. HInit => Init
  BY DEF HInit
<1>2. [HNext]_hvars => [Next]_vars
  BY DEF HNext, hvars
<1>3. HSpec => Spec
  BY <1>1, <1>2, PTL DEF HSpec, Spec
<1>4. Spec => []Inv
  BY InitInv, NextInv, PTL DEF Spec
<1> QED BY <1>3, <1>4, NothingIsLost, PTL

Apart == "overlap" \notin mishaps => Whole

\* and so holds until they do.
LEMMA WholeAlways == HSpec => []Inv /\ []NothingLost /\ []Apart
<1>1. Inv /\ NothingLost /\ Apart /\ [HNext]_hvars => Apart'
  <2>1. ASSUME Inv, NothingLost, Apart, [HNext]_hvars, "overlap" \notin mishaps'
        PROVE  Whole'
    <3>1. CASE HNext
      BY <2>1, <3>1, NoMishap, WholeStays DEF HNext, Apart
    <3>2. CASE UNCHANGED hvars
      <4>1. Whole /\ UNCHANGED vars
        BY <2>1, <3>2 DEF hvars, Apart
      <4>2. Alone'
        BY <4>1 DEF Whole, Alone, vars, runs
      <4> QED BY <2>1, <4>1, <4>2, WholeStays
    <3> QED BY <2>1, <3>1, <3>2
  <2> QED BY <2>1 DEF Apart
<1>2. HInit => Apart
  BY WholeInit DEF HInit, Apart
<1> QED BY <1>1, <1>2, HistorySpec, PTL DEF HSpec

(***************************************************************************)
(* In every behaviour, until two runs overlap: wherever a migration is     *)
(* interrupted, by an error or a kill, the journal names every tree it     *)
(* left under the new name with paths or volatile entries of the old       *)
(* identity, and in which direction it was moving, so that the next run    *)
(* finishes it.  Programs may run and create trees meanwhile, and the user *)
(* may set trees aside.                                                    *)
(***************************************************************************)
THEOREM InterruptionsAreResumable == HSpec => []Resumable
<1>1. Apart => Resumable
  BY DEF Apart, Whole, Journaled, Resumable
<1> QED BY <1>1, WholeAlways, PTL

-----------------------------------------------------------------------------
(* The trees a plan has to move.                                           *)

LEMMA NoTreeIsDue ==
  ASSUME Inv
  PROVE  NoTree \notin due
  BY DEF Inv, RestOK, NoTree, Tree

\* Steps that leave plan and trees alone, and bring no run to a tidied tree.
LEMMA ToMoveStays ==
  ASSUME ToMove, UNCHANGED <<tree, born, journal, due>>,
         \A r \in Runner : pc'[r] \in {"tidy", "rewrite", "complete"} =>
           pc[r] \in {"tidy", "rewrite", "complete"} /\ at'[r] = at[r]
  PROVE  ToMove'
  BY DEF ToMove, Source, From, To, Other

\* The steps that rename nothing and write no journal keep ToMove,
LEMMA PlainKeepsToMove ==
  ASSUME Inv, ToMove,
         \/ \E r \in Runner :
              \/ Start(r) \/ Preflight(r) \/ PassComplete(r) \/ PassSkipped(r)
              \/ Tidy(r) \/ Rewrite(r) \/ DiscardRuntime(r) \/ Launch(r) \/ Interrupt(r)
         \/ \E p \in Program : Quit(p)
         \/ UNCHANGED vars
  PROVE  ToMove'
  <1>1. ASSUME NEW r \in Runner,
               \/ Start(r) \/ Preflight(r) \/ PassComplete(r) \/ PassSkipped(r)
               \/ Tidy(r) \/ Rewrite(r) \/ DiscardRuntime(r) \/ Launch(r) \/ Interrupt(r)
        PROVE  ToMove'
    <2>1. UNCHANGED <<tree, born, journal, due>>
      BY <1>1 DEF Start, Preflight, PassComplete, PassSkipped, Tidy, Rewrite,
                  DiscardRuntime, Launch, Interrupt, trees
    <2>2. \/ \E point : Goto(r, point) /\ point \notin {"tidy", "rewrite", "complete"}
          \/ pc[r] \in {"tidy", "rewrite"} /\ UNCHANGED at /\ \E point : Goto(r, point)
      BY <1>1 DEF Start, Preflight, PassComplete, PassSkipped, Tidy, Rewrite,
                  DiscardRuntime, Launch, Interrupt, End, Advance
    <2>3. \A q \in Runner : q # r => pc'[q] = pc[q] /\ at'[q] = at[q]
      BY <1>1 DEF Start, Preflight, PassComplete, PassSkipped, Tidy, Rewrite,
                  DiscardRuntime, Launch, Interrupt, End, Advance, Goto, Inv, RunsOK
    <2>4. \A q \in Runner : pc'[q] \in {"tidy", "rewrite", "complete"} =>
            pc[q] \in {"tidy", "rewrite", "complete"} /\ at'[q] = at[q]
      BY <2>2, <2>3 DEF Goto, Inv, RunsOK
    <2> QED BY <2>1, <2>4, ToMoveStays
  <1>2. CASE (\E p \in Program : Quit(p)) \/ UNCHANGED vars
    BY <1>2, ToMoveStays DEF Quit, vars, trees, runs
  <1> QED BY <1>1, <1>2

\* as does looking at both names,
LEMMA LookKeepsToMove ==
  ASSUME Inv, ToMove, NEW r \in Runner, Look(r)
  PROVE  ToMove'
  <1>1. UNCHANGED <<tree, born, journal, due>>
    BY DEF Look, trees
  <1>2. ASSUME NEW q \in Runner, pc'[q] \in {"tidy", "rewrite", "complete"}
        PROVE  Source(q, at[q]) \notin due /\ at'[q] = at[q]
    <2>1. CASE q = r
      BY <1>2, <2>1, NoTreeIsDue DEF Look, End, Goto, Inv, RunsOK
    <2>2. CASE q # r
      BY <1>2, <2>2 DEF Look, End, Goto, Inv, RunsOK, ToMove
    <2> QED BY <2>1, <2>2
  <1> QED BY <1>1, <1>2 DEF ToMove, Source, From, To, Other

\* renaming,
LEMMA MoveKeepsToMove ==
  ASSUME Inv, Whole, ToMove, NEW r \in Runner, Move(r)
  PROVE  ToMove'
  <1>1. CASE End(r) /\ UNCHANGED trees
    BY <1>1, ToMoveStays DEF Move, trees, Goto, End, Inv, RunsOK
  <1>2. CASE /\ tree' = [tree EXCEPT ![From(r)][at[r]] = NoTree,
                                    ![To(r)][at[r]] = Source(r, at[r])]
             /\ Goto(r, "tidy")
             /\ UNCHANGED <<aside, born, created, memory, at>>
    <2>1. /\ at[r] \in Op /\ journal.to = To(r) /\ Other(To(r)) = From(r)
          /\ \A q \in Runner : q # r => pc[q] = "idle"
          /\ UNCHANGED <<born, journal, due, at>>
      BY <1>2 DEF Move, Inv, InOperation, Working, Whole, Alone, Follows, FollowsIt,
                  Loop, Other, From, To
    <2>2. \A op \in Op :
            tree'[From(r)][op] = IF op = at[r] THEN NoTree ELSE tree[From(r)][op]
      BY <1>2, <2>1, Directions DEF Inv, TreesOK
    <2>3. \A q \in Runner : pc'[q] \in {"tidy", "rewrite", "complete"} => q = r
      BY <1>2, <2>1 DEF Goto, Inv, RunsOK
    <2>4. ASSUME NEW op \in Op, tree'[From(r)][op] \in due
          PROVE  journal.status[op] \in {"pending", "moving"}
      BY <2>1, <2>2, <2>4, NoTreeIsDue, Directions DEF ToMove, Side
    <2> QED BY <2>1, <2>2, <2>3, <2>4, NoTreeIsDue DEF ToMove, Source, From, To
  <1> QED BY <1>1, <1>2 DEF Move

\* writing the plan, which is made from the trees there are,
LEMMA RecordKeepsToMove ==
  ASSUME Inv, OneName, Whole, NEW r \in Runner, Record(r)
  PROVE  ToMove'
  <1>1. /\ UNCHANGED <<tree, born>> /\ Goto(r, "next") /\ Other(To(r)) = From(r)
        /\ \A q \in Runner : q # r => pc[q] = "idle"
        /\ journal' = [to |-> To(r), status |-> memory[r]]
        /\ due' = {id \in Tree : \E op \in Op : memory[r][op] = "pending" /\ id = Source(r, op)}
        /\ To(r) # "none" /\ From(r) \in Side
    BY Directions DEF Record, WriteJournal, trees, Whole, Alone, Other, From, To, Side
  <1>2. \A q \in Runner : pc'[q] \notin {"tidy", "rewrite", "complete"}
    BY <1>1 DEF Goto, Inv, RunsOK
  <1>3. due' \subseteq born
    BY <1>1 DEF OneName, Source, NoTree, Tree
  <1>4. ASSUME NEW op \in Op, tree[From(r)][op] \in due'
        PROVE  memory[r][op] = "pending"
    <2>1. PICK o \in Op : memory[r][o] = "pending" /\ tree[From(r)][op] = tree[From(r)][o]
      BY <1>1, <1>4 DEF Source
    <2>2. tree[From(r)][op] # NoTree
      BY <1>1, <1>4 DEF NoTree, Tree
    <2> QED BY <1>1, <2>1, <2>2 DEF OneName
  <1> QED BY <1>1, <1>2, <1>3, <1>4 DEF ToMove

\* and every later write of the journal.
LEMMA JournalKeepsToMove ==
  ASSUME Inv, Whole, ToMove, NEW r \in Runner, BeginMoving(r) \/ Complete(r) \/ Unlink(r)
  PROVE  ToMove'
  <1>1. /\ UNCHANGED <<tree, born>>
        /\ \A q \in Runner : q # r => pc[q] = "idle"
        /\ journal = [to |-> To(r), status |-> memory[r]]
        /\ memory[r] \in [Op -> Status]
        /\ \E point : Goto(r, point) /\ point \notin {"tidy", "rewrite", "complete"}
        /\ To(r) # "none" /\ Other(To(r)) = From(r)
    <2>1. pc[r] \in Loop /\ pc[r] # "idle" /\ UNCHANGED <<tree, born>>
      BY DEF BeginMoving, AtOperation, Complete, Unlink, trees, Loop, Working
    <2>2. /\ \A q \in Runner : q # r => pc[q] = "idle"
          /\ journal = [to |-> To(r), status |-> memory[r]]
          /\ memory[r] \in [Op -> Status]
      BY <2>1 DEF Whole, Alone, Follows, FollowsIt, Inv, RunsOK
    <2>3. Goto(r, "look") \/ Goto(r, "next") \/ Goto(r, "idle") \/ Goto(r, "ready")
      BY DEF BeginMoving, Complete, Unlink, End, Advance
    <2>4. To(r) # "none" /\ Other(To(r)) = From(r)
      BY DEF To, From, Other
    <2> QED BY <2>1, <2>2, <2>3, <2>4
  <1>2. \A q \in Runner : pc'[q] \notin {"tidy", "rewrite", "complete"}
    BY <1>1 DEF Goto, Inv, RunsOK
  <1>3. CASE BeginMoving(r)
    BY <1>1, <1>2, <1>3 DEF BeginMoving, WriteJournal, ToMove
  <1>4. CASE Complete(r)
    <2>1. /\ journal' = [to |-> To(r), status |-> [memory[r] EXCEPT ![at[r]] = "complete"]]
          /\ due' = due /\ Source(r, at[r]) \notin due
      BY <1>4 DEF Complete, WriteJournal, ToMove
    <2> QED BY <1>1, <1>2, <2>1 DEF ToMove, Source
  <1>5. CASE Unlink(r)
    BY <1>2, <1>5 DEF Unlink, NoJournal, ToMove
  <1> QED BY <1>3, <1>4, <1>5

\* A tree a program creates is none of the plan, nor is one set aside.
LEMMA OthersKeepToMove ==
  ASSUME Inv, OneName, ToMove,
         \/ \E r \in Runner : Prepare(r)
         \/ \E p \in Program : Work(p)
         \/ FormerWorks
         \/ \E op \in Op : MoveAside(op)
  PROVE  ToMove'
  <1>1. UNCHANGED <<journal, at, pc, due>>
    BY DEF Prepare, Work, FormerWorks, MoveAside, runs
  <1>2. \A r \in Runner : pc[r] \in {"tidy", "rewrite", "complete"} =>
          at[r] \in Op /\ From(r) \in Side
    BY Directions DEF Inv, InOperation, Working
  <1>3. journal.to # "none" => Other(journal.to) \in Side
    BY DEF Other, Side
  <1>4. ASSUME born \subseteq born',
               \A side \in Side, op \in Op : tree'[side][op] \in due => tree'[side][op] = tree[side][op]
        PROVE  ToMove'
    BY <1>1, <1>2, <1>3, <1>4 DEF ToMove, Source, From, To, Other
  <1>5. ASSUME NEW mark \in Mark, NEW op \in Op, NEW side \in Side, WriteIn(mark, op, side)
        PROVE  ToMove'
    <2>1. PICK id \in Tree :
            \/ tree[side][op] = id /\ UNCHANGED trees
            \/ /\ id = Ops + created + 1
               /\ born' = born \cup {id}
               /\ tree' = [tree EXCEPT ![side][op] = id]
      BY <1>5, WriteInIs
    <2>2. CASE UNCHANGED trees
      BY <1>4, <2>2 DEF trees
    <2>3. CASE /\ id = Ops + created + 1
               /\ born' = born \cup {id}
               /\ tree' = [tree EXCEPT ![side][op] = id]
      <3>1. id \notin 1..Ops + created
        BY <2>3, MigrationAssumption DEF Inv, TreesOK
      <3>2. id \notin due
        BY <3>1 DEF Inv, TreesOK, ToMove
      <3> QED BY <1>4, <2>3, <3>2 DEF Inv, TreesOK
    <2> QED BY <2>1, <2>2, <2>3
  <1>6. ASSUME NEW op \in Op, MoveAside(op)
        PROVE  ToMove'
    <2>1. PICK side \in Side : tree' = [tree EXCEPT ![side][op] = NoTree]
      BY <1>6 DEF MoveAside
    <2>2. \A s \in Side, o \in Op :
            tree'[s][o] = IF s = side /\ o = op THEN NoTree ELSE tree[s][o]
      BY <2>1 DEF Inv, TreesOK
    <2> QED BY <1>4, <1>6, <2>2, NoTreeIsDue DEF MoveAside
  <1>7. \A p \in Program : Uses[p] \subseteq Op /\ p \in Mark
    BY MigrationAssumption DEF Mark
  <1>8. \A r \in Runner : Launched(r) \in Program
    BY DEF Launched, Program
  <1> QED BY <1>5, <1>6, <1>7, <1>8 DEF Prepare, Work, FormerWorks, Mark, Side

(***************************************************************************)
(* In every behaviour, until two runs overlap: a migration that reaches    *)
(* its end without an error has moved every tree it recorded it would      *)
(* move, in however many runs; nothing it planned is still under the old   *)
(* name when the journal is removed.                                       *)
(***************************************************************************)
THEOREM PlansAreCarriedOut == HSpec => []AllMoved
<1> DEFINE Planned == "overlap" \notin mishaps => ToMove
<1>1. HInit => Planned
  BY DEF HInit, Init, ToMove, NoJournal
<1>2. Inv /\ NothingLost /\ Apart /\ Planned /\ [HNext]_hvars => Planned'
  <2>1. ASSUME Inv, NothingLost, Whole, ToMove, Next PROVE ToMove'
    <3>1. OneName
      BY <2>1, NamesOnce DEF Inv
    <3> QED BY <2>1, <3>1, PlainKeepsToMove, LookKeepsToMove, MoveKeepsToMove,
               RecordKeepsToMove, JournalKeepsToMove, OthersKeepToMove DEF Next, RunStep
  <2>2. ASSUME ToMove, UNCHANGED vars PROVE ToMove'
    BY <2>2 DEF ToMove, Source, To, From, vars, trees, runs
  <2>3. [HNext]_hvars /\ "overlap" \notin mishaps' =>
          "overlap" \notin mishaps /\ (Next \/ UNCHANGED vars)
    BY NoMishap DEF HNext, hvars
  <2> QED BY <2>1, <2>2, <2>3 DEF Apart
<1>3. Whole /\ ToMove => AllMoved
  <2> SUFFICES ASSUME Whole, ToMove, NEW r \in Runner, pc[r] = "unlink", NEW op \in Op
               PROVE  Source(r, op) \notin due
    BY DEF AllMoved
  <2>1. /\ journal = [to |-> To(r), status |-> memory[r]]
        /\ at[r] = Ops + 1
        /\ op < at[r] => memory[r][op] \in {"complete", "skipped"}
    BY DEF Whole, Follows, FollowsIt, Passed, PassedIt, Loop
  <2>2. op < at[r]
    BY <2>1, MigrationAssumption DEF Op
  <2>3. journal.to # "none" /\ Other(journal.to) = From(r)
    BY <2>1 DEF To, From
  <2> QED BY <2>1, <2>2, <2>3 DEF ToMove, Source
<1>4. Apart /\ Planned => AllMoved
  BY <1>3 DEF Apart, AllMoved
<1> QED BY <1>1, <1>2, <1>4, WholeAlways, PTL DEF HSpec

-----------------------------------------------------------------------------
(* Programs that run, with a user who closes them before a reversal and    *)
(* before the trees of a collision are set aside.                          *)

LEMMA KeptInit == Init => Kept
  <1> SUFFICES ASSUME Init PROVE Kept
    OBVIOUS
  <1>1. Closed /\ InPlace
    BY DEF Init, Closed, InPlace
  <1>2. ASSUME NEW side \in Side, NEW op \in Op, NEW p \in Program, tree[side][op] # NoTree
        PROVE  p \notin marks[tree[side][op]]
    <2>1. tree[side][op] = op /\ op \in Tree
      BY <1>2, MigrationAssumption DEF Init, Tree, Op
    <2>2. marks[op] \subseteq {"former"}
      BY <2>1 DEF Init
    <2> QED BY <2>1, <2>2 DEF Program
  <1> QED BY <1>1, <1>2 DEF Kept, Users

\* Only a launch makes a program run, and then no journal is there.
LEMMA ClosedStays ==
  ASSUME ~Occurs("careless"), Inv, Whole, Closed, [Next]_vars
  PROVE  Closed'
  <1>1. ASSUME NEW r \in Runner, Start(r)
        PROVE  Closed'
    <2>1. /\ UNCHANGED <<journal, running>> /\ pc[r] = "idle" /\ pc'[r] # "idle"
          /\ \A q \in Runner : q # r => pc'[q] = pc[q]
      BY <1>1 DEF Start, Goto, world, Inv, RunsOK
    <2>2. r = "reverse" => running = {}
      BY <1>1 DEF Occurs
    <2> QED BY <2>1, <2>2 DEF Closed
  <1>2. ASSUME NEW r \in Runner, RunStep(r) \/ Interrupt(r)
        PROVE  Closed'
    <2>1. running' = running /\ pc[r] # "idle"
          /\ \A q \in Runner : pc'[q] # "idle" => pc[q] # "idle"
      BY <1>2 DEF RunStep, Interrupt, world, Preflight, Record, PassComplete, PassSkipped,
                  AtOperation, BeginMoving, Look, Move, Tidy, Rewrite, Complete,
                  DiscardRuntime, Unlink, End, Goto, Advance, Inv, RunsOK
    <2>2. journal' = journal \/ journal'.to = To(r) \/ journal'.to = "none"
      BY <1>2 DEF RunStep, Interrupt, Preflight, Record, PassComplete, PassSkipped,
                  BeginMoving, Look, Move, Tidy, Rewrite, Complete,
                  DiscardRuntime, Unlink, WriteJournal, NoJournal
    <2> QED BY <2>1, <2>2 DEF Closed, To
  <1>3. ASSUME NEW r \in Runner, Launch(r)
        PROVE  Closed'
    <2>1. journal.to = "none" /\ journal' = journal /\ \A q \in Runner : pc'[q] = "idle"
      BY <1>3 DEF Launch, End, Goto, Whole, Follows, FollowsIt, Alone, Inv, RunsOK
    <2> QED BY <2>1 DEF Closed
  <1>4. CASE UNCHANGED <<journal, pc>> /\ running' \subseteq running
    BY <1>4 DEF Closed
  <1>5. \/ \E r \in Runner : Start(r) \/ RunStep(r) \/ Interrupt(r) \/ Launch(r)
        \/ UNCHANGED <<journal, pc>> /\ running' \subseteq running
    BY DEF Next, vars, world, runs, Prepare, Work, Quit, FormerWorks, MoveAside
  <1> QED BY <1>1, <1>2, <1>3, <1>4, <1>5

\* The trees of the programs that run stay where they are.
LEMMA PlacesStay ==
  ASSUME ~Occurs("careless"), Inv, Closed, InPlace, [Next]_vars,
         NEW p \in running, NEW op \in Uses[p]
  PROVE  tree'["canonical"][op] # NoTree
  <1>1. op \in Op /\ p \in Program /\ tree["canonical"][op] \in Tree
    BY MigrationAssumption DEF Inv, WorldOK, TreesOK, InPlace, Side
  <1>2. ASSUME NEW r \in Runner, Move(r)
        PROVE  tree'["canonical"][op] # NoTree
    <2>1. From(r) = "legacy" /\ To(r) = "canonical"
      BY <1>2 DEF Move, Closed, From, To, Other
    <2>2. at[r] \in Op
      BY <1>2 DEF Move, Inv, InOperation, Working
    <2>3. CASE UNCHANGED trees
      BY <2>3 DEF trees, InPlace
    <2>4. CASE tree' = [tree EXCEPT ![From(r)][at[r]] = NoTree,
                                    ![To(r)][at[r]] = Source(r, at[r])]
               /\ Source(r, at[r]) # NoTree
      BY <1>1, <2>1, <2>2, <2>4 DEF Inv, TreesOK, Side, InPlace
    <2> QED BY <1>2, <2>3, <2>4 DEF Move
  <1>3. ASSUME NEW mark \in Mark, NEW o \in Op, NEW side \in Side, WriteIn(mark, o, side)
        PROVE  tree'["canonical"][op] # NoTree
    <2>1. PICK id \in Tree :
            \/ UNCHANGED trees
            \/ tree' = [tree EXCEPT ![side][o] = id]
      BY <1>3, WriteInIs
    <2>2. id # NoTree
      BY DEF NoTree, Tree
    <2> QED BY <1>1, <2>1, <2>2 DEF Inv, TreesOK, Side, InPlace, trees
  <1>4. CASE UNCHANGED trees
    BY <1>4 DEF trees, InPlace
  <1>5. \A o \in Op : ~MoveAside(o)
    BY DEF Occurs
  <1>6. \A q \in Program : Uses[q] \subseteq Op /\ q \in Mark
    BY MigrationAssumption DEF Mark
  <1>7. \A r \in Runner : Launched(r) \in Program
    BY DEF Launched, Program
  <1>8. ASSUME (\E r \in Runner : Prepare(r)) \/ (\E q \in Program : Work(q)) \/ FormerWorks
        PROVE  \E mark \in Mark, o \in Op, side \in Side : WriteIn(mark, o, side)
    BY <1>6, <1>7, <1>8 DEF Prepare, Work, FormerWorks, Side, Mark
  <1>9. \/ UNCHANGED trees
        \/ \E r \in Runner : Move(r) \/ Prepare(r)
        \/ \E q \in Program : Work(q)
        \/ FormerWorks
    BY <1>5 DEF Next, vars, RunStep, Start, Preflight, Record, PassComplete, PassSkipped,
           BeginMoving, Look, Tidy, Rewrite, Complete, DiscardRuntime, Unlink,
           Launch, Interrupt, Quit
  <1> QED BY <1>2, <1>3, <1>4, <1>8, <1>9

\* No plan comes to have them.
LEMMA PlansStay ==
  ASSUME Alone', Inv, Whole, Closed, InPlace, [Next]_vars,
         NEW p \in running, NEW op \in Uses[p]
  PROVE  /\ journal'.to = "canonical" => journal'.status[op] = "skipped"
         /\ \A r \in Runner : pc'[r] = "record" => memory'[r][op] = "skipped"
  <1>1. op \in Op /\ p \in Program /\ running # {}
    BY MigrationAssumption DEF Inv, WorldOK
  <1>2. ASSUME NEW r \in Runner, Preflight(r)
        PROVE  /\ journal' = journal
               /\ \A q \in Runner : pc'[q] = "record" => memory'[q][op] = "skipped"
    <2>1. /\ From(r) = "legacy" /\ To(r) = "canonical"
          /\ \A q \in Runner : q # r => pc[q] = "idle"
      BY <1>1, <1>2 DEF Preflight, Closed, From, To, Other, Whole, Alone
    <2>2. CASE End(r)
      BY <1>2, <2>1, <2>2 DEF Preflight, End, Goto, Inv, RunsOK
    <2>3. CASE ~End(r)
      <3>1. Source(r, op) = NoTree
        BY <1>1, <1>2, <2>1, <2>3 DEF Preflight, Destination, InPlace
      <3>2. memory'[r][op] = "skipped"
        BY <1>1, <1>2, <2>3, <3>1 DEF Preflight, Inv, RunsOK
      <3> QED BY <1>2, <2>1, <2>3, <3>2 DEF Preflight, Goto, Inv, RunsOK
    <2> QED BY <2>2, <2>3
  <1>3. ASSUME NEW r \in Runner, Record(r) \/ BeginMoving(r) \/ Complete(r)
        PROVE  /\ journal'.to = "canonical" => journal'.status[op] = "skipped"
               /\ \A q \in Runner : pc'[q] # "record"
    <2>1. /\ \A q \in Runner : q # r => pc[q] = "idle"
          /\ memory[r] \in [Op -> Status]
      BY <1>3 DEF Record, BeginMoving, AtOperation, Complete, Whole, Alone, Inv, RunsOK
    <2>2. \A q \in Runner : pc'[q] # "record"
      BY <1>3, <2>1 DEF Record, BeginMoving, Complete, Advance, Goto, Inv, RunsOK
    <2>3. CASE Record(r)
      BY <1>3, <2>2, <2>3 DEF Record, WriteJournal, InPlace
    <2>4. CASE BeginMoving(r) \/ Complete(r)
      <3>1. /\ journal = [to |-> To(r), status |-> memory[r]]
            /\ memory[r][at[r]] # "skipped"
        BY <2>4 DEF BeginMoving, AtOperation, Complete, Whole, Follows, FollowsIt, Passed,
                    PassedIt, Loop, Working
      <3>2. PICK status \in Status :
              journal' = [to |-> To(r), status |-> [memory[r] EXCEPT ![at[r]] = status]]
        BY <2>4 DEF BeginMoving, Complete, WriteJournal, Status
      <3>3. To(r) = "canonical" => memory[r][op] = "skipped"
        BY <3>1 DEF InPlace
      <3> QED BY <1>1, <2>1, <2>2, <3>1, <3>2, <3>3
    <2> QED BY <1>3, <2>3, <2>4
  <1>4. ASSUME NEW r \in Runner,
               \/ Start(r) \/ PassComplete(r) \/ PassSkipped(r) \/ Look(r) \/ Move(r)
               \/ Tidy(r) \/ Rewrite(r) \/ DiscardRuntime(r) \/ Unlink(r)
               \/ Launch(r) \/ Interrupt(r)
        PROVE  /\ journal' = journal \/ journal'.to = "none"
               /\ \A q \in Runner : pc'[q] # "record"
    <2>1. /\ journal' = journal \/ journal'.to = "none"
          /\ \E point : Goto(r, point) /\ point # "record"
      BY <1>4 DEF Start, PassComplete, PassSkipped, Look, Move, Tidy, Rewrite,
                  DiscardRuntime, Unlink, Launch, Interrupt, End, Advance, NoJournal
    <2>2. \A q \in Runner : q # r => pc[q] = "idle"
      <3>1. CASE Start(r)
        BY <3>1, StartsAlone
      <3>2. CASE ~Start(r)
        BY <1>4, <3>2 DEF PassComplete, PassSkipped, AtOperation, Look, Move, Tidy, Rewrite,
                  DiscardRuntime, Unlink, Launch, Interrupt, Whole, Alone
      <3> QED BY <3>1, <3>2
    <2> QED BY <2>1, <2>2 DEF Goto, Inv, RunsOK
  <1>5. CASE UNCHANGED <<journal, memory, pc>>
    BY <1>5 DEF InPlace
  <1>6. \/ UNCHANGED <<journal, memory, pc>>
        \/ \E r \in Runner : Start(r) \/ RunStep(r) \/ Launch(r) \/ Interrupt(r)
    BY DEF Next, vars, runs, Prepare, Work, Quit, FormerWorks, MoveAside
  <1> QED BY <1>2, <1>3, <1>4, <1>5, <1>6 DEF InPlace, RunStep

\* A program that runs has its trees in place, and no run will move them.
LEMMA InPlaceStays ==
  ASSUME Alone', ~Occurs("careless"), Inv, Whole, Closed, InPlace, [Next]_vars
  PROVE  InPlace'
  <1>1. ASSUME NEW p \in running' \ running, NEW op \in Uses[p]
        PROVE  /\ tree'["canonical"][op] # NoTree
               /\ journal'.to = "none"
               /\ \A r \in Runner : pc'[r] # "record"
    <2>1. PICK r \in Runner : Launch(r) /\ running' = running \cup {Launched(r)}
      BY <1>1 DEF Next, vars, world, RunStep, Start, Preflight, Record, PassComplete,
                  PassSkipped, BeginMoving, Look, Move, Tidy, Rewrite, Complete,
                  DiscardRuntime, Unlink, Launch, Interrupt, Prepare, Work, Quit,
                  FormerWorks, MoveAside
    <2>2. p = Launched(r) /\ tree["canonical"][op] # NoTree
      BY <1>1, <2>1 DEF Launch
    <2>3. journal.to = "none" /\ \A q \in Runner : pc'[q] = "idle"
      BY <2>1 DEF Launch, End, Goto, Whole, Follows, FollowsIt, Alone, Inv, RunsOK
    <2> QED BY <2>1, <2>2, <2>3 DEF Launch, trees
  <1>2. ASSUME NEW p \in running, NEW op \in Uses[p]
        PROVE  /\ tree'["canonical"][op] # NoTree
               /\ journal'.to = "canonical" => journal'.status[op] = "skipped"
               /\ \A r \in Runner : pc'[r] = "record" => memory'[r][op] = "skipped"
    BY PlacesStay, PlansStay
  <1> QED BY <1>1, <1>2 DEF InPlace

\* Only the programs that use a tree leave their lock or pid file in it.
LEMMA UsersStay ==
  ASSUME Inv, OneName, Marked, Users, [Next]_vars
  PROVE  Users'
  <1>1. \A side \in Side, op \in Op : tree[side][op] \in Tree \cup {NoTree}
    BY DEF Inv, TreesOK
  <1>2. ASSUME NEW mark \in Mark, NEW op \in Op, NEW side \in Side, mark \notin Foreign(side),
               WriteIn(mark, op, side), mark \in Program => op \in Uses[mark]
        PROVE  Users'
    <2>1. \A s \in Side, o \in Op : tree'[s][o] # NoTree =>
            \A m \in marks'[tree'[s][o]] :
              \/ tree[s][o] # NoTree /\ m \in marks[tree[s][o]]
              \/ m = mark /\ o = op
      BY <1>2, WriteInCleans
    <2> QED BY <1>2, <2>1 DEF Users
  <1>3. ASSUME \A side \in Side, op \in Op : tree'[side][op] \in {tree[side][op], NoTree},
               \A id \in Tree : marks'[id] \subseteq marks[id]
        PROVE  Users'
    BY <1>1, <1>3 DEF Users
  <1>4. ASSUME NEW r \in Runner, Move(r)
        PROVE  Users'
    <2>1. at[r] \in Op /\ From(r) \in Side /\ To(r) \in Side /\ UNCHANGED marks
      BY <1>4, Directions DEF Move, Inv, InOperation, Working, world
    <2>2. CASE UNCHANGED trees
      BY <2>1, <2>2, <1>3 DEF trees
    <2>3. CASE tree' = [tree EXCEPT ![From(r)][at[r]] = NoTree,
                                    ![To(r)][at[r]] = Source(r, at[r])]
      <3>1. ASSUME NEW s \in Side, NEW o \in Op, tree'[s][o] # NoTree
            PROVE  \E s2 \in Side : tree'[s][o] = tree[s2][o]
        BY <2>1, <2>3, <3>1, Directions DEF Inv, TreesOK, Source
      <3> QED BY <2>1, <3>1 DEF Users
    <2> QED BY <1>4, <2>2, <2>3 DEF Move
  <1>5. ASSUME NEW r \in Runner, Tidy(r)
        PROVE  Users'
    <2>1. at[r] \in Op /\ UNCHANGED trees /\ DiscardVolatile(r, at[r])
      BY <1>5 DEF Tidy, Inv, InOperation, Working
    <2>2. \A id \in Tree : marks'[id] \subseteq marks[id]
      BY <2>1, Named DEF DiscardVolatile, Inv, WorldOK
    <2> QED BY <1>3, <2>1, <2>2 DEF trees
  <1>6. ASSUME NEW p \in Program, Quit(p)
        PROVE  Users'
    <2>1. \A id \in Tree : marks'[id] \subseteq marks[id]
      BY <1>6 DEF Quit, Inv, WorldOK
    <2> QED BY <1>3, <1>6, <2>1 DEF Quit, trees
  <1>7. ASSUME NEW op \in Op, MoveAside(op)
        PROVE  Users'
    <2>1. \A s \in Side, o \in Op : tree'[s][o] \in {tree[s][o], NoTree}
      BY <1>7 DEF MoveAside, Inv, TreesOK
    <2> QED BY <1>3, <1>7, <2>1 DEF MoveAside, world
  <1>8. CASE UNCHANGED <<tree, marks>>
    BY <1>8 DEF Users
  <1>9. ASSUME \/ \E r \in Runner : Prepare(r)
               \/ \E p \in Program : Work(p)
               \/ FormerWorks
        PROVE  Users'
    <2>1. \A p \in Program : Uses[p] \subseteq Op /\ p \in Mark /\ p \notin Foreign("canonical")
      BY MigrationAssumption DEF Mark, Foreign, Program
    <2>2. \A r \in Runner : Launched(r) \in Program
      BY DEF Launched, Program
    <2>3. "former" \in Mark /\ "former" \notin Foreign("legacy") /\ "former" \notin Program
      BY DEF Mark, Foreign, Program
    <2> QED BY <1>2, <1>9, <2>1, <2>2, <2>3 DEF Prepare, Work, FormerWorks, Side
  <1>10. \/ UNCHANGED <<tree, marks>>
         \/ \E r \in Runner : Move(r) \/ Tidy(r) \/ Prepare(r)
         \/ \E p \in Program : Work(p) \/ Quit(p)
         \/ FormerWorks
         \/ \E op \in Op : MoveAside(op)
    BY DEF Next, vars, trees, world, RunStep, Start, Preflight, Record, PassComplete,
           PassSkipped, BeginMoving, Look, Rewrite, Complete, DiscardRuntime, Unlink,
           Launch, Interrupt
  <1> QED BY <1>4, <1>5, <1>6, <1>7, <1>8, <1>9, <1>10

\* A walk over a tree whose program runs never comes to discard anything.
LEMMA TidySparesRunning ==
  ASSUME Inv, Whole, Kept, NEW r \in Runner, Tidy(r), NEW p \in running, NEW id \in Tree,
         p \in marks[id]
  PROVE  p \in marks'[id]
  <1>1. /\ at[r] \in Op /\ DiscardVolatile(r, at[r]) /\ p \in Program
        /\ journal.to = To(r) /\ journal.status[at[r]] = "moving"
        /\ To(r) = "canonical"
    BY DEF Tidy, Inv, InOperation, Working, WorldOK, Whole, Follows, FollowsIt, Passed,
           PassedIt, Loop, Kept, Closed, To
  <1>2. at[r] \notin Uses[p]
    BY <1>1 DEF Kept, InPlace
  <1>3. Destination(r, at[r]) # NoTree => p \notin marks[Destination(r, at[r])]
    BY <1>1, <1>2 DEF Kept, Users, Destination, Side
  <1> QED BY <1>1, <1>3 DEF DiscardVolatile, Inv, WorldOK

(***************************************************************************)
(* In every behaviour, until two runs overlap, or the user reverses or     *)
(* sets a tree aside while a program runs: a migration takes nothing from  *)
(* a program that runs, neither the volatile entries (a lock, a pid file)  *)
(* it has in its trees, nor the runtime directory.                         *)
(***************************************************************************)
THEOREM RunningProgramsAreSpared == HSpec => RunningUntouched
<1> DEFINE Spares == mishaps = {} => Kept
<1>1. Inv /\ NothingLost /\ Apart /\ Spares /\ [HNext]_hvars => Spares'
  <2>1. ASSUME Inv, NothingLost, Whole, Kept, Next, Alone', ~Occurs("careless") PROVE Kept'
    <3>1. OneName
      BY <2>1, NamesOnce DEF Inv
    <3> QED BY <2>1, <3>1, ClosedStays, InPlaceStays, UsersStay DEF Kept, Whole
  <2>2. ASSUME Kept, UNCHANGED vars PROVE Kept'
    BY <2>2 DEF Kept, Closed, InPlace, Users, vars, trees, world, runs
  <2>3. [HNext]_hvars /\ mishaps' = {} =>
          /\ mishaps = {}
          /\ (Next /\ Alone' /\ ~Occurs("careless")) \/ UNCHANGED vars
    BY NoMishap DEF HNext, hvars
  <2> QED BY <2>1, <2>2, <2>3 DEF Apart
<1>2. HInit => Spares
  BY KeptInit DEF HInit
<1> DEFINE Spared ==
      /\ \A p \in running \cap running', id \in Tree : p \in marks[id] => p \in marks'[id]
      /\ running \cap running' # {} /\ "canonical" \in runtime => "canonical" \in runtime'
<1>3. Inv /\ Apart /\ Spares /\ [HNext]_hvars => [mishaps = {} => Spared]_hvars
  <2> SUFFICES ASSUME Inv, Whole, Kept, Next PROVE Spared
    BY DEF Apart, HNext
  <2>1. ASSUME NEW r \in Runner, Tidy(r)
        PROVE  Spared
    BY <2>1, TidySparesRunning DEF Tidy
  <2>2. ASSUME NEW p \in Program, Quit(p)
        PROVE  Spared
    BY <2>2 DEF Quit, Inv, WorldOK
  <2>3. ASSUME NEW r \in Runner, DiscardRuntime(r)
        PROVE  Spared
    <3>1. running # {} => From(r) = "legacy"
      BY <2>3 DEF DiscardRuntime, Kept, Closed, From, To, Other
    <3> QED BY <2>3, <3>1 DEF DiscardRuntime
  <2>4. ASSUME NEW mark, NEW op, NEW side, WriteIn(mark, op, side)
        PROVE  Spared
    BY <2>4 DEF WriteIn, Inv, WorldOK
  <2>5. CASE UNCHANGED <<marks, runtime>>
    BY <2>5
  <2>6. \/ UNCHANGED <<marks, runtime>>
        \/ \E r \in Runner : Tidy(r) \/ DiscardRuntime(r)
        \/ \E p \in Program : Quit(p)
        \/ \E mark, op, side : WriteIn(mark, op, side)
    BY DEF Next, world, RunStep, Start, Preflight, Record, PassComplete,
           PassSkipped, BeginMoving, Look, Move, Rewrite, Complete, Unlink,
           Launch, Interrupt, Prepare, Work, FormerWorks, MoveAside
  <2> HIDE DEF Spared
  <2> QED BY <2>1, <2>2, <2>3, <2>4, <2>5, <2>6
<1> QED BY <1>1, <1>2, <1>3, WholeAlways, PTL DEF HSpec, RunningUntouched

=============================================================================
