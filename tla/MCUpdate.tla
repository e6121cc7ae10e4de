------------------------------ MODULE MCUpdate ------------------------------
EXTENDS UpdateFlow

\* Three DMGs, DMG n being version n.
Identity == [dmg \in Dmg |-> dmg]

\* Only newer DMGs are published.
Forward == [dmg \in Dmg |-> dmg..Dmgs \ {dmg}]

\* One of the later DMGs is published in place of DMG 2, and then no other.
Once == [dmg \in Dmg |-> IF dmg = 2 THEN 3..Dmgs ELSE {}]

\* The app bundle of DMG 2 has the version of DMG 1.
Mislabelled == [dmg \in Dmg |-> IF dmg = 2 THEN 1 ELSE dmg]

\* DMG 3 is DMG 2 published again: other bytes, the same version.
Republished == [dmg \in Dmg |-> IF dmg > 2 THEN dmg - 1 ELSE dmg]

(***************************************************************************)
(* A later start for the runs about rollback: DMG 1 and then DMG 2 were    *)
(* built and installed, DMG 1's package is retained for rollback.  The     *)
(* serial runs reach this state.                                           *)
(***************************************************************************)
PackageOf(dmg) == [dmg |-> dmg, ver |-> dmg, build |-> dmg, at |-> dmg]

Retained ==
  [NewDocument EXCEPT
     !.status = "Installed", !.installed = 2, !.dmg = 2, !.dmgVerified = 2,
     !.headers = 2, !.package = 2, !.packageVerified = PackageOf(2),
     !.workspace = 2, !.rollback = 1, !.rollbackVerified = PackageOf(1),
     !.knownGood = 1]

InitRetained ==
  /\ disk = Retained
  /\ mem = [p \in Proc |-> NewDocument]
  /\ pc = [p \in Proc |-> "idle"]
  /\ kind = "none"
  /\ retry = FALSE
  /\ previous = "Idle"
  /\ orphans = {}
  /\ files = [w \in Version |-> IF w <= 2 THEN PackageOf(w) ELSE NoPackage]
  /\ sys = PackageOf(2)
  /\ upstream = 2
  /\ app = FALSE
  /\ builds = 2
  /\ commands = 0
  /\ crashes = 0

SpecRetained == InitRetained /\ [][Next]_vars
=============================================================================
