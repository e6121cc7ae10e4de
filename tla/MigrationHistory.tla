-------------------------- MODULE MigrationHistory --------------------------
(***************************************************************************)
(* StateMigration with what no lock and no check of the code keeps out:    *)
(* the launcher's run may overlap with the service's or with a reversal,   *)
(* and the user may reverse, or resolve a collision, with programs open.   *)
(* The properties that such an event breaks are claimed until it happens.  *)
(***************************************************************************)
EXTENDS StateMigration

VARIABLE mishaps  \* which of these events have happened

hvars == <<vars, mishaps>>

Mishap == {"overlap", "careless"}

Occurs(event) ==
  CASE event = "overlap" ->   \* two runs are under way
         \E q, r \in Runner : q # r /\ pc'[q] # "idle" /\ pc'[r] # "idle"
    [] event = "careless" ->  \* with a program open, the user reverses, or
                              \* sets a tree aside
         /\ running # {}
         /\ \/ \E r \in Runner : r = "reverse" /\ Start(r)
            \/ \E op \in Op : MoveAside(op)

HInit == Init /\ mishaps = {}

HNext == Next /\ mishaps' = mishaps \cup {event \in Mishap : Occurs(event)}

HSpec == HInit /\ [][HNext]_hvars

HFairSpec == HSpec /\ Fairness

-----------------------------------------------------------------------------
\* A tree that still has paths or volatile entries of the identity it does
\* not bear.
HalfMoved(side, op) ==
  LET id == tree[side][op]
  IN /\ id # NoTree
     /\ \/ names[id] # side /\ op \notin Files
        \/ marks[id] \cap Foreign(side) # {}

(* Until two runs overlap, a half moved tree is named by the journal as    *)
(* being moved there, so that the next run finishes it.                    *)
Resumable ==
  "overlap" \notin mishaps =>
    \A side \in Side, op \in Op :
      HalfMoved(side, op) =>
        journal.to = side /\ journal.status[op] = "moving"

(* Until two runs overlap, a migration that ends without an error leaves   *)
(* nothing behind that it recorded it would move.                          *)
AllMoved ==
  "overlap" \notin mishaps =>
    \A r \in Runner : pc[r] = "unlink" => \A op \in Op : Source(r, op) \notin due

(* Until two runs overlap, or the user reverses or sets a tree aside with  *)
(* a program open, a migration does not take volatile entries (its lock,   *)
(* its pid file) or the runtime directory from a program that runs.        *)
RunningUntouched ==
  [][mishaps = {} =>
       /\ \A p \in running \cap running', id \in Tree :
            p \in marks[id] => p \in marks'[id]
       /\ running \cap running' # {} /\ "canonical" \in runtime =>
            "canonical" \in runtime']_hvars
=============================================================================
