---------------------------- MODULE FileExchange ----------------------------
(***************************************************************************)
(* What the mutation broker promises about the files of the generated app, *)
(* next to a program that writes the same files: a replacement is made of  *)
(* the version that is in place, or the version it displaced is kept and   *)
(* nothing is replaced after it.                                           *)
(***************************************************************************)
EXTENDS Integers

CONSTANTS Files,
          Numbers   \* the numbers of versions; the first ones have 0

VARIABLES file,   \* the version in place under each name
          kept    \* versions displaced without having been read

vars == <<file, kept>>

\* A version has a number of its own, and the number of the version its
\* author had read (its own number when the author read none).
Version == [n: Numbers, base: Numbers]

Init == /\ file = [f \in Files |-> [n |-> 0, base |-> 0]]
        /\ kept = {}

\* Another program writes a file.
Write(f) == \E n \in Numbers :
    /\ file' = [file EXCEPT ![f] = [n |-> n, base |-> n]]
    /\ UNCHANGED kept

\* The version that was read is replaced.
Swap(f) == \E v \in Version :
    /\ kept = {}
    /\ v.base = file[f].n
    /\ file' = [file EXCEPT ![f] = v]
    /\ UNCHANGED kept

\* Another version than the one that was read is displaced.
Conflict(f) == \E v \in Version :
    /\ kept = {}
    /\ v.base # file[f].n
    /\ kept' = {file[f]}
    /\ file' = [file EXCEPT ![f] = v]

Next == \E f \in Files : Write(f) \/ Swap(f) \/ Conflict(f)

Spec == Init /\ [][Next]_vars
=============================================================================
