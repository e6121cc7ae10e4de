---------------------------- MODULE UpdateHistory ----------------------------
(***************************************************************************)
(* UpdateFlow with history variables, and the properties that relate what  *)
(* the updater does to what it or the user did before.                     *)
(***************************************************************************)
EXTENDS UpdateFlow

VARIABLES
  concluded,    \* DMGs the updater built, found installed or found blocked
  dismissed,    \* the last authentication dialog of an update was dismissed
                \* and ChatGPT has not been opened since
  rolledBack,   \* the DMG of the package the last rollback removed, if no
                \* other package was installed since
  wasInstalled, \* builds that have been the installed package
  mishaps       \* what has happened that check.lock does not keep out, or that
                \* nobody owes the updater

history == <<concluded, dismissed, rolledBack, wasInstalled, mishaps>>
hvars == <<vars, history>>

Moves(p, from, to) == pc[p] = from /\ pc'[p] = to

(***************************************************************************)
(* status and rollback take no lock, a package may be installed by hand,   *)
(* a privileged install may outlive its parent, and the DMG served may be  *)
(* an older one again.  A property that such an event can break says so:   *)
(* it is claimed until the event happens, by whichever process, and not    *)
(* for an updater to which it cannot happen.                               *)
(***************************************************************************)
Mishap == {"overlap", "rollback", "cut", "hand", "detached", "older"}

Occurs(event) ==
  CASE event = "overlap" ->   \* two processes are at work
         \E p, q \in Proc : p # q /\ pc'[p] # "idle" /\ pc'[q] # "idle"
    [] event = "rollback" -> pc'["rollback"] # "idle"
    [] event = "cut" ->       \* a process dies while a rollback is at work
         pc["rollback"] # "idle" /\ crashes' # crashes
    [] event = "hand" ->      \* the user installs or removes a package
         commands' # commands /\ UNCHANGED pc
    [] event = "detached" -> orphans' # {}
    [] event = "older" -> upstream' < upstream

HInit ==
  /\ Init
  /\ concluded = {}
  /\ dismissed = FALSE
  /\ rolledBack = None
  /\ wasInstalled = {}
  /\ mishaps = {}

RecordConcluded ==
  concluded' = concluded \cup
    (CASE Moves("flow", "finish", "checkversion") -> {Flow.dmg}
       [] Moves("flow", "match", "prune") /\ ~AlreadyKnown -> {Flow.dmgVerified}
       [] \E p \in {"flow", "status"} :
             pc[p] = "current" /\ disk' # disk /\ disk'.status = "Idle"
          -> {disk'.dmg}
       [] OTHER -> {})

RecordDismissed ==
  dismissed' = (~app' /\ (dismissed \/ Moves("flow", "authorize", "denied")))

RecordRolledBack ==
  rolledBack' = IF sys' = sys THEN rolledBack
                ELSE IF Moves("rollback", "authorize", "installed")
                THEN sys.dmg
                ELSE None

RecordInstalled ==
  wasInstalled' = wasInstalled \cup ({sys'.build} \ {0})

RecordMishaps == mishaps' = mishaps \cup {event \in Mishap : Occurs(event)}

HNext ==
  /\ Next
  /\ RecordConcluded /\ RecordDismissed /\ RecordRolledBack /\ RecordInstalled
  /\ RecordMishaps

HSpec == HInit /\ [][HNext]_hvars

-----------------------------------------------------------------------------
\* The next check of this document ends with "fingerprint unchanged".
WouldSkip(d) ==
  /\ ~InstallIsPending(d)
  /\ ~ShouldRetry(d)
  /\ d.headers = upstream
  /\ d.dmg # None
  /\ HasVerifiedCurrentDmg(d)

(* Until a mishap, a trusted DMG is skipped as unchanged only after the    *)
(* updater has built it, found it installed, or found it blocked by a      *)
(* rollback: an interrupted or failed attempt is never mistaken for a      *)
(* finished one.                                                           *)
NoSkippedUpdate ==
  mishaps = {} /\ At("flow", "idle") /\ WouldSkip(disk) /\ upstream \in Trusted
    => upstream \in concluded

(* Until two processes overlap: after a dismissed dialog the updater asks  *)
(* again on its own account only once ChatGPT has been opened in between.  *)
NoReprompt ==
  [][(/\ "overlap" \notin mishaps
      /\ Moves("flow", "offer", "authorize")
      /\ kind = "reconcile")
      => ~dismissed]_hvars

(* Until a mishap other than a rollback: once a rollback has ended, the    *)
(* DMG whose package it removed is not built again until another package   *)
(* has been installed.                                                     *)
RollbackHonoured ==
  [][(/\ mishaps \subseteq {"rollback"}
      /\ Moves("flow", "match", "wipe")
      /\ At("rollback", "idle"))
      => Flow.dmgVerified # rolledBack]_hvars

(* Until a mishap other than a rollback: a package retained for rollback,  *)
(* whenever a rollback would install it, has been installed before.        *)
KnownGoodWasInstalled ==
  mishaps \subseteq {"rollback"} /\ Bound(files, disk.rollback, disk.rollbackVerified)
    => disk.rollbackVerified.build \in wasInstalled

(* Until a mishap other than a rollback: the version recorded as known     *)
(* good is the version of the package a rollback would install, the one    *)
(* that was installed when the next update was found.                      *)
KnownGoodIsThatVersion ==
  mishaps \subseteq {"rollback"} /\ disk.rollbackVerified # NoPackage
    => disk.knownGood = disk.rollbackVerified.ver

(* Until two processes overlap or a rollback begins: while an update is    *)
(* pending, its package is in place, with the recorded digest.             *)
PendingPackageKept ==
  mishaps \cap {"overlap", "rollback"} = {} /\ At("flow", "idle") /\ InstallIsPending(disk)
    => Bound(files, disk.package, disk.packageVerified)
=============================================================================
