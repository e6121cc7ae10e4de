--------------------------- MODULE StateMigration ---------------------------
(***************************************************************************)
(* launcher/state-migration.py: the move of the trees of the former Codex  *)
(* identity to their ChatGPT names, and back.                              *)
(*                                                                         *)
(* It is run by the launcher before it starts the app, by the updater's    *)
(* service before the daemon, and by the user with "migrate-state          *)
(* --reverse".  No lock keeps these runs apart.  A run is interrupted by   *)
(* an error or a kill at any point; the journal says where to resume.      *)
(*                                                                         *)
(* A step of a run is the code up to the next thing another process can    *)
(* see: a write of the journal, a rename, a walk over one tree.            *)
(***************************************************************************)
EXTENDS Integers

CONSTANTS
  Ops,        \* number of operations: pairs of a legacy and a canonical name
  Volatile,   \* operations of "-state" and "-cache" trees
  Cache,      \* the operation of the updater's cache, if it is modelled
  Files,      \* operations that move one file
  Runner,     \* who runs the migration
  Uses,       \* [Program -> SUBSET Op]: the trees a program writes in
  Serial,     \* TRUE: a run starts only when no other is under way
  Careful,    \* TRUE: the user reverses, and resolves a collision, only with
              \* every program closed
  MaxCreated, \* bound: trees that programs create in one behaviour
  MaxKills    \* bound: interruptions in one behaviour

Op == 1..Ops
Side == {"legacy", "canonical"}
Other(side) == IF side = "legacy" THEN "canonical" ELSE "legacy"

\* A tree is known by a number, and keeps it when it is moved.
Tree == 1..Ops + MaxCreated
NoTree == 0

Program == {"app", "updater"}

ASSUME MigrationAssumption ==
  /\ Ops \in Nat \ {0}
  /\ MaxCreated \in Nat
  /\ Volatile \subseteq Op
  /\ Cache \subseteq Op
  /\ Files \subseteq Op
  /\ Runner \subseteq {"launcher", "service", "reverse"}
  /\ Uses \in [Program -> SUBSET Op]
  /\ Serial \in BOOLEAN
  /\ Careful \in BOOLEAN
  /\ MaxKills \in Nat

VARIABLES
  tree,      \* tree[side][op]: the tree under that name, or NoTree
  aside,     \* trees the user moved out of the way
  born,      \* trees that have existed
  created,   \* number of trees that programs created
  names,     \* names[id]: the identity the paths written in tree id have
  marks,     \* marks[id]: who left volatile entries in tree id
  runtime,   \* the identities that have a directory in XDG_RUNTIME_DIR
  journal,   \* .chatgpt-state-migration.json
  memory,    \* memory[r]: the statuses run r works on
  at,        \* at[r]: the operation run r has come to
  pc,        \* pc[r]: where run r is
  running,   \* the programs that run
  kills,     \* number of interruptions
  due        \* history: the trees the recorded migration has to move

trees == <<tree, aside, born, created>>
world == <<names, marks, runtime, running>>
runs == <<memory, at, pc>>
vars == <<trees, world, journal, runs, kills, due>>

Status == {"pending", "skipped", "moving", "complete"}
AllPending == [op \in Op |-> "pending"]
NoJournal == [to |-> "none", status |-> AllPending]
Journal == [to : Side \cup {"none"}, status : [Op -> Status]]

\* "former": the program that had the legacy names.
Mark == Program \cup {"former"}
Foreign(side) == IF side = "canonical" THEN {"former"} ELSE Program

Point == {"idle", "preflight", "record", "next", "look", "move", "tidy",
          "rewrite", "complete", "runtime", "unlink", "ready"}

\* direction_paths
To(r) == IF r = "reverse" THEN "legacy" ELSE "canonical"
From(r) == Other(To(r))
Source(r, op) == tree[From(r)][op]
Destination(r, op) == tree[To(r)][op]

TypeOK ==
  /\ tree \in [Side -> [Op -> Tree \cup {NoTree}]]
  /\ aside \in SUBSET Tree
  /\ born \in SUBSET (1..Ops + created)
  /\ created \in 0..MaxCreated
  /\ names \in [Tree -> Side]
  /\ marks \in [Tree -> SUBSET Mark]
  /\ runtime \in SUBSET Side
  /\ journal \in Journal
  /\ memory \in [Runner -> [Op -> Status]]
  /\ at \in [Runner -> 1..Ops + 1]
  /\ pc \in [Runner -> Point]
  /\ running \in SUBSET Program
  /\ kills \in 0..MaxKills
  /\ due \in SUBSET Tree

\* Before the first migration every tree has its legacy name.
Init ==
  /\ born \in SUBSET Op
  /\ tree = [side \in Side |-> [op \in Op |->
               IF side = "legacy" /\ op \in born THEN op ELSE NoTree]]
  /\ aside = {}
  /\ created = 0
  /\ names = [id \in Tree |-> "legacy"]
  /\ marks = [id \in Tree |-> IF id \in born \cap Volatile THEN {"former"} ELSE {}]
  /\ runtime = {"legacy"}
  /\ journal = NoJournal
  /\ memory = [r \in Runner |-> AllPending]
  /\ at = [r \in Runner |-> 1]
  /\ pc = [r \in Runner |-> "idle"]
  /\ running = {}
  /\ kills = 0
  /\ due = {}

-----------------------------------------------------------------------------
Goto(r, point) == pc' = [pc EXCEPT ![r] = point]

\* The run ends, by an error, a kill, or its last line.
End(r) ==
  /\ Goto(r, "idle")
  /\ memory' = [memory EXCEPT ![r] = AllPending]
  /\ at' = [at EXCEPT ![r] = 1]

\* The next operation, or the end of the loop.
Advance(r) ==
  /\ at' = [at EXCEPT ![r] = @ + 1]
  /\ Goto(r, "next")

\* Mutant: the direction of the journal is not compared.
StartMutant(r) ==
  /\ pc[r] = "idle"
  /\ Serial => \A q \in Runner : pc[q] = "idle"
  /\ r = "reverse" /\ Careful => running = {}
  /\ IF journal.to = "none"
     THEN Goto(r, "preflight") /\ UNCHANGED memory
     ELSE Goto(r, "next") /\ memory' = [memory EXCEPT ![r] = journal.status]
  /\ UNCHANGED <<trees, world, journal, at, kills, due>>

\* The journal is loaded.  Another direction's journal stops the run.
Start(r) ==
  /\ pc[r] = "idle"
  /\ Serial => \A q \in Runner : pc[q] = "idle"
  /\ r = "reverse" /\ Careful => running = {}
  /\ \/ /\ journal.to = "none"
        /\ Goto(r, "preflight")
        /\ UNCHANGED memory
     \/ /\ journal.to = To(r)
        /\ Goto(r, "next")
        /\ memory' = [memory EXCEPT ![r] = journal.status]
  /\ UNCHANGED <<trees, world, journal, at, kills, due>>

\* Mutant: what has no source is not skipped.
PreflightMutant(r) ==
  /\ pc[r] = "preflight"
  /\ IF \E op \in Op : Source(r, op) # NoTree /\ Destination(r, op) # NoTree
     THEN End(r)
     ELSE Goto(r, "record") /\ UNCHANGED <<memory, at>>
  /\ UNCHANGED <<trees, world, journal, kills, due>>

\* One collision stops the run.  What has no source is skipped.
Preflight(r) ==
  /\ pc[r] = "preflight"
  /\ IF \E op \in Op : Source(r, op) # NoTree /\ Destination(r, op) # NoTree
     THEN End(r)
     ELSE /\ memory' = [memory EXCEPT ![r] = [op \in Op |->
                          IF Source(r, op) = NoTree THEN "skipped" ELSE "pending"]]
          /\ Goto(r, "record")
          /\ UNCHANGED at
  /\ UNCHANGED <<trees, world, journal, kills, due>>

WriteJournal(r, status) ==
  /\ memory' = [memory EXCEPT ![r] = status]
  /\ journal' = [to |-> To(r), status |-> status]

Record(r) ==
  /\ pc[r] = "record"
  /\ WriteJournal(r, memory[r])
  /\ due' = {id \in Tree : \E op \in Op :
               memory[r][op] = "pending" /\ id = Source(r, op)}
  /\ Goto(r, "next")
  /\ UNCHANGED <<trees, world, at, kills>>

\* The operation the loop has come to, with one of these statuses.
AtOperation(r, statuses) ==
  /\ pc[r] = "next"
  /\ at[r] \in Op
  /\ memory[r][at[r]] \in statuses

PassComplete(r) ==
  /\ AtOperation(r, {"complete"})
  /\ Advance(r)
  /\ UNCHANGED <<trees, world, journal, memory, kills, due>>

\* rewrite_known_paths walks directories only.
RewriteNames(r, op) ==
  names' = IF Destination(r, op) = NoTree \/ op \in Files THEN names
           ELSE [names EXCEPT ![Destination(r, op)] = To(r)]

PassSkipped(r) ==
  /\ AtOperation(r, {"skipped"})
  /\ RewriteNames(r, at[r])
  /\ Advance(r)
  /\ UNCHANGED <<trees, marks, runtime, running, journal, memory, kills, due>>

BeginMoving(r) ==
  /\ AtOperation(r, {"pending", "moving"})
  /\ WriteJournal(r, [memory[r] EXCEPT ![at[r]] = "moving"])
  /\ Goto(r, "look")
  /\ UNCHANGED <<trees, world, at, kills, due>>

\* Mutant: a source that is gone is an error.
LookMutant(r) ==
  /\ pc[r] = "look"
  /\ IF Source(r, at[r]) # NoTree /\ Destination(r, at[r]) = NoTree
     THEN Goto(r, "move") /\ UNCHANGED <<memory, at>>
     ELSE End(r)
  /\ UNCHANGED <<trees, world, journal, kills, due>>

\* Mutant: a tree moved before the interruption is not tidied any more.
LookUntidyMutant(r) ==
  /\ pc[r] = "look"
  /\ IF Source(r, at[r]) = NoTree <=> Destination(r, at[r]) = NoTree
     THEN End(r)
     ELSE /\ Goto(r, IF Source(r, at[r]) = NoTree THEN "rewrite" ELSE "move")
          /\ UNCHANGED <<memory, at>>
  /\ UNCHANGED <<trees, world, journal, kills, due>>

\* A source that is gone was moved before the interruption, if the
\* destination is there.
Look(r) ==
  /\ pc[r] = "look"
  /\ LET source == Source(r, at[r])
         destination == Destination(r, at[r])
     IN \/ /\ source # NoTree /\ destination = NoTree
           /\ Goto(r, "move")
           /\ UNCHANGED <<memory, at>>
        \/ /\ source = NoTree /\ destination # NoTree
           /\ Goto(r, "tidy")
           /\ UNCHANGED <<memory, at>>
        \/ /\ source = NoTree <=> destination = NoTree
           /\ End(r)
  /\ UNCHANGED <<trees, world, journal, kills, due>>

\* Mutant: a plain rename, which replaces what took the name meanwhile.
MoveMutant(r) ==
  /\ pc[r] = "move"
  /\ IF Source(r, at[r]) = NoTree
     THEN End(r) /\ UNCHANGED tree
     ELSE /\ tree' = [tree EXCEPT ![From(r)][at[r]] = NoTree,
                                  ![To(r)][at[r]] = Source(r, at[r])]
          /\ Goto(r, "tidy")
          /\ UNCHANGED <<memory, at>>
  /\ UNCHANGED <<aside, born, created, world, journal, kills, due>>

\* Mutant: a copy, with the source left to a later cleanup.
MoveCopyMutant(r) ==
  /\ pc[r] = "move"
  /\ IF Source(r, at[r]) = NoTree \/ Destination(r, at[r]) # NoTree
     THEN End(r) /\ UNCHANGED tree
     ELSE /\ tree' = [tree EXCEPT ![To(r)][at[r]] = Source(r, at[r])]
          /\ Goto(r, "tidy")
          /\ UNCHANGED <<memory, at>>
  /\ UNCHANGED <<aside, born, created, world, journal, kills, due>>

\* The rename fails when another process took the name or the source.
Move(r) ==
  /\ pc[r] = "move"
  /\ \/ /\ Source(r, at[r]) # NoTree
        /\ Destination(r, at[r]) = NoTree
        /\ tree' = [tree EXCEPT ![From(r)][at[r]] = NoTree,
                                ![To(r)][at[r]] = Source(r, at[r])]
        /\ Goto(r, "tidy")
        /\ UNCHANGED <<aside, born, created, memory, at>>
     \/ /\ Source(r, at[r]) = NoTree \/ Destination(r, at[r]) # NoTree
        /\ End(r)
        /\ UNCHANGED trees
  /\ UNCHANGED <<world, journal, kills, due>>

\* Volatile entries are discarded, cached images get their new prefix.
DiscardVolatile(r, op) ==
  marks' = IF op \in Volatile /\ Destination(r, op) # NoTree
           THEN [marks EXCEPT ![Destination(r, op)] = {}]
           ELSE marks

Tidy(r) ==
  /\ pc[r] = "tidy"
  /\ DiscardVolatile(r, at[r])
  /\ IF at[r] \in Cache /\ Destination(r, at[r]) = NoTree
     THEN End(r)
     ELSE Goto(r, "rewrite") /\ UNCHANGED <<memory, at>>
  /\ UNCHANGED <<trees, names, runtime, running, journal, kills, due>>

Rewrite(r) ==
  /\ pc[r] = "rewrite"
  /\ RewriteNames(r, at[r])
  /\ Goto(r, "complete")
  /\ UNCHANGED <<trees, marks, runtime, running, journal, memory, at, kills, due>>

Complete(r) ==
  /\ pc[r] = "complete"
  /\ WriteJournal(r, [memory[r] EXCEPT ![at[r]] = "complete"])
  /\ Advance(r)
  /\ UNCHANGED <<trees, world, kills, due>>

\* discard_runtime_state, after the last operation.
DiscardRuntime(r) ==
  /\ pc[r] = "next"
  /\ at[r] > Ops
  /\ runtime' = runtime \ {From(r)}
  /\ Goto(r, "unlink")
  /\ UNCHANGED <<trees, names, marks, running, journal, memory, at, kills, due>>

Unlink(r) ==
  /\ pc[r] = "unlink"
  /\ journal' = NoJournal
  /\ IF r = "reverse" THEN End(r) ELSE Goto(r, "ready") /\ UNCHANGED <<memory, at>>
  /\ due' = {}
  /\ UNCHANGED <<trees, world, kills>>

Interrupt(r) ==
  /\ pc[r] # "idle"
  /\ kills < MaxKills
  /\ kills' = kills + 1
  /\ End(r)
  /\ UNCHANGED <<trees, world, journal, due>>

-----------------------------------------------------------------------------
(***************************************************************************)
(* The programs whose trees are moved, and the user.                       *)
(***************************************************************************)
\* A program leaves volatile entries in a tree it writes in, and creates
\* the tree if it is not there.
WriteIn(mark, op, side) ==
  LET found == tree[side][op] # NoTree
      id == IF found THEN tree[side][op] ELSE Ops + created + 1
  IN /\ \/ found /\ UNCHANGED <<trees, names>>
        \/ /\ ~found
           /\ created < MaxCreated
           /\ created' = created + 1
           /\ born' = born \cup {id}
           /\ tree' = [tree EXCEPT ![side][op] = id]
           /\ names' = [names EXCEPT ![id] = side]
           /\ UNCHANGED aside
     /\ IF op \in Volatile
        THEN marks' = [marks EXCEPT ![id] = @ \cup {mark}]
        ELSE UNCHANGED marks
     /\ runtime' = runtime \cup {side}

\* The launcher starts the app, the service the daemon.
Launched(r) == IF r = "launcher" THEN "app" ELSE "updater"

\* The program puts its entries in the trees it uses before it counts as
\* running.
Prepare(r) ==
  /\ pc[r] = "ready"
  /\ \E op \in Uses[Launched(r)] : WriteIn(Launched(r), op, "canonical")
  /\ UNCHANGED <<running, journal, runs, kills, due>>

\* What was asked for may need no program, or not start it.
Launch(r) ==
  /\ pc[r] = "ready"
  /\ \/ /\ \A op \in Uses[Launched(r)] : tree["canonical"][op] # NoTree
        /\ running' = running \cup {Launched(r)}
     \/ UNCHANGED running
  /\ End(r)
  /\ UNCHANGED <<trees, names, marks, runtime, journal, kills, due>>

\* A running program writes its state.
Work(p) ==
  /\ p \in running
  /\ \E op \in Uses[p] : WriteIn(p, op, "canonical")
  /\ UNCHANGED <<running, journal, runs, kills, due>>

\* The former program still runs, or is installed again.
FormerWorks ==
  /\ \E op \in Op : WriteIn("former", op, "legacy")
  /\ UNCHANGED <<running, journal, runs, kills, due>>

\* A program removes what it left, or dies and leaves it.
Quit(p) ==
  /\ p \in running
  /\ running' = running \ {p}
  /\ \/ marks' = [id \in Tree |-> marks[id] \ {p}]
     \/ UNCHANGED marks
  /\ UNCHANGED <<trees, names, runtime, journal, runs, kills, due>>

\* The user follows the recovery command printed for a collision.
MoveAside(op) ==
  /\ Careful => running = {}
  /\ \A side \in Side : tree[side][op] # NoTree
  /\ \E side \in Side :
       /\ tree' = [tree EXCEPT ![side][op] = NoTree]
       /\ aside' = aside \cup {tree[side][op]}
  /\ UNCHANGED <<born, created, world, journal, runs, kills, due>>

RunStep(r) ==
  \/ Preflight(r) \/ Record(r) \/ PassComplete(r) \/ PassSkipped(r)
  \/ BeginMoving(r) \/ Look(r) \/ Move(r) \/ Tidy(r) \/ Rewrite(r)
  \/ Complete(r) \/ DiscardRuntime(r) \/ Unlink(r)

Next ==
  \/ \E r \in Runner :
       Start(r) \/ RunStep(r) \/ Prepare(r) \/ Launch(r) \/ Interrupt(r)
  \/ \E p \in Program : Work(p) \/ Quit(p)
  \/ FormerWorks
  \/ \E op \in Op : MoveAside(op)

Spec == Init /\ [][Next]_vars

(***************************************************************************)
(* The user launches again and again, repeats a reversal that was          *)
(* interrupted, closes programs, and resolves collisions.                  *)
(***************************************************************************)
Fairness ==
  /\ \A r \in Runner : SF_vars(Start(r)) /\ WF_vars(RunStep(r)) /\ WF_vars(Launch(r))
  /\ \A op \in Op : WF_vars(MoveAside(op))
  /\ \A p \in Program : WF_vars(Quit(p))

-----------------------------------------------------------------------------
(***************************************************************************)
(* Properties.                                                             *)
(***************************************************************************)
\* The trees with their names, as StateTrees has them: <<id, side, op>>.
Located == {name \in Tree \X Side \X Op : tree[name[2]][name[3]] = name[1]}

Promise == INSTANCE StateTrees WITH located <- Located

\* The renames of the migration, resumed, repeated, reversed and raced by
\* programs that create trees, do no more than move whole trees to free names.
KeepsPromise == Promise!Spec

\* No tree a program ever wrote is overwritten, merged or deleted: it has one
\* name, or the user has set it aside.
NothingLost == Promise!EachTreeOnce

\* An interrupted migration is completed.
MigrationEnds == journal.to # "none" ~> journal.to = "none"
=============================================================================
