------------------------------ MODULE PageProofs ------------------------------
(***************************************************************************)
(* Proofs about AgentWorkspaces, for every set of profiles, commands and   *)
(* files and any number of clicks and requests in flight: the type of the  *)
(* state, that the program never runs without the permission file that is *)
(* configured, and that what it has started was approved.                  *)
(***************************************************************************)
EXTENDS AgentWorkspaces, TLAPS

Actions == {"get", "set", "refresh", "doctor", "permissionSave",
            "installRuntime", "profileGet", "profileSave", "profileDelete",
            "workspaceStop", "workspaceCleanup", "workspaceOpenViewer",
            "workspaceOpenProfile", "workspaceStart"}
Path == Files \cup Commands \cup {None, Bad}
SomeProfile == Profiles \cup {None}
SomePolicy == Policies \cup {None}
Space == [id : Nat, profile : Profiles, running : BOOLEAN]
Demand == [profile : SomeProfile, space : Nat]
Filled == Fills \cup {{}}
Bundles == {Bundle(policy, fills) : policy \in SomePolicy, fills \in Filled}
CardType == [n : Nat, action : Actions, request : Demand, bundle : Bundles]
StartType == [n : Nat, action : Actions, request : Demand, policy : SomePolicy]
CallType ==
    [id : Nat, action : Actions, key : Kinds, request : Demand, card : Nat,
     acked : BOOLEAN, policy : SomePolicy, fills : Filled, replace : BOOLEAN,
     under : Path, ran : BOOLEAN, done : BOOLEAN, ok : BOOLEAN,
     seen : [profiles : SUBSET Profiles, spaces : SUBSET Space]]
KeysType == [Kinds -> [current : Path, legacy : Path]]
PageType ==
    [open : BOOLEAN, loading : BOOLEAN, active : Actions \cup {None},
     listed : SUBSET Space, profiles : SUBSET Profiles,
     pending : CardType \cup {None}, cards : Nat, editing : BOOLEAN,
     mode : {"create", "edit"}, selected : SomeProfile,
     form : [id : SomeProfile, policy : SomePolicy], field : [Kinds -> Path]]
LeftType == [settings : Nat, starts : Nat]

OutsideOK ==
    /\ readable \in SUBSET Files
    /\ store \in [Profiles -> SomePolicy]
    /\ spaces \in SUBSET Space
    /\ left \in LeftType
HistoryOK ==
    /\ wanted \in Path
    /\ approved \in SUBSET CardType
    /\ starts \in Seq(StartType)
TypeOK ==
    /\ keys \in KeysType /\ calls \in SUBSET CallType /\ page \in PageType
    /\ OutsideOK /\ HistoryOK

\* What the permission key of ks stands for.
MergedIn(ks) == IF ks["permissions"].current # None
                THEN ks["permissions"].current ELSE ks["permissions"].legacy

\* The bridge finds the file that was configured, whatever it has migrated.
PermissionsKept == wanted # None => Merged("permissions") = wanted

Under(c, file) ==
    c.ran /\ ~c.done /\ UsesFile(c) /\ file # None => c.under = file
SameCall(c, d) ==
    /\ c.card = d.card /\ c.action = d.action
    /\ c.request = d.request /\ c.acked = d.acked
Adds(c) ==
    \E n \in CallType :
        /\ calls' = calls \cup {n} /\ SameCall(n, c) /\ Under(n, wanted)

-----------------------------------------------------------------------------
(* The bridge. *)

Outcome == [keys : KeysType, error : BOOLEAN, path : Path]

\* A key that is not set is a path.
LEMMA NonePath == None \in Path
BY DEF Path

\* What a key stands for is a path.
LEMMA MergedType ==
  ASSUME keys \in KeysType, NEW k \in Kinds
  PROVE  Merged(k) \in Path
BY DEF Merged, KeysType

\* A migration that stops anywhere leaves keys.
LEMMA WrittenType ==
  ASSUME keys \in KeysType, NEW i
  PROVE  Written(i) \in KeysType
BY MergedType, NonePath DEF Written, KeysType

\* So does one that fails.
LEMMA FailedType ==
  ASSUME NEW ks \in KeysType
  PROVE  /\ Failed(ks) \in Outcome
         /\ Failed(ks).keys = ks /\ Failed(ks).error
BY NonePath DEF Failed, Outcome

\* Wherever the migration stops, the permission file stays the one it was: the
\* key of today is written before the legacy one is deleted.
LEMMA WrittenKeeps ==
  ASSUME keys \in KeysType, NEW i \in 0..4
  PROVE  MergedIn(Written(i)) = Merged("permissions")
<1> DEFINE k == "permissions"
           now == \E j \in 1..i : Writes[j] = <<k, "current">>
           old == \E j \in 1..i : Writes[j] = <<k, "legacy">>
<1>1. Written(i)[k] = [current |-> IF now THEN Merged(k) ELSE keys[k].current,
                       legacy |-> IF old THEN None ELSE keys[k].legacy]
  BY DEF Written, Kinds
<1>2. old => now
  <2>1. SUFFICES ASSUME NEW j \in 1..i, Writes[j] = <<k, "legacy">>
                 PROVE  now
    OBVIOUS
  <2>2. j = 4
    BY <2>1 DEF Writes
  <2>3. 2 \in 1..i /\ Writes[2] = <<k, "current">>
    BY <2>1, <2>2 DEF Writes
  <2> QED BY <2>3
<1> HIDE DEF now, old
<1> QED BY <1>1, <1>2 DEF MergedIn, Merged

\* What the bridge may find: well-typed keys with the same permission file, and
\* that file unless it failed.
LEMMA Migrates ==
  ASSUME keys \in KeysType, NEW b \in Migrations
  PROVE  /\ b \in Outcome
         /\ MergedIn(b.keys) = Merged("permissions")
         /\ ~b.error => b.path = Merged("permissions")
<1> DEFINE done == [keys |-> Written(4), error |-> FALSE,
                    path |-> Merged("permissions")]
<1>1. Merged("permissions") \in Path
  BY MergedType DEF Kinds
<1>2. done \in Outcome
  BY <1>1, WrittenType DEF Outcome
<1>3. MergedIn(keys) = Merged("permissions")
  BY DEF MergedIn, Merged
<1>4. CASE Rejected
  <2>1. b = Failed(keys)
    BY <1>4 DEF Migrations
  <2> QED BY <2>1, <1>3, FailedType
<1>5. CASE ~Rejected
  <2>1. b = done \/ \E i \in 1..4 : b = Failed(Written(i - 1))
    BY <1>5 DEF Migrations
  <2>2. CASE b = done
    BY <2>2, <1>2, WrittenKeeps
  <2>3. CASE \E i \in 1..4 : b = Failed(Written(i - 1))
    <3>1. PICK i \in 1..4 : b = Failed(Written(i - 1))
      BY <2>3
    <3>2. Written(i - 1) \in KeysType
      BY WrittenType
    <3>3. MergedIn(Written(i - 1)) = Merged("permissions")
      BY WrittenKeeps
    <3> QED BY <3>1, <3>2, <3>3, FailedType
  <2> QED BY <2>1, <2>2, <2>3
<1> QED BY <1>4, <1>5

-----------------------------------------------------------------------------
(* The calls. *)

\* A call as the page makes it has no card.
LEMMA FreshCall ==
  ASSUME NEW id \in Nat, NEW action \in Actions
  PROVE  /\ Call(id, action) \in CallType
         /\ Call(id, action).card = 0
BY NonePath
   DEF Call, CallType, NoRequest, Demand, SomeProfile, SomePolicy, Kinds, Filled

\* A call the bridge has sent is the call it was given, and if the program runs
\* and reads a permission file, it runs under the file that was configured.
LEMMA SentOK ==
  ASSUME TypeOK, PermissionsKept, NEW b \in Migrations, NEW c \in CallType
  PROVE  /\ Sent(b, c) \in CallType /\ Under(Sent(b, c), wanted)
         /\ SameCall(Sent(b, c), c)
<1>1. /\ b \in Outcome
      /\ ~b.error => b.path = Merged("permissions")
  BY Migrates DEF TypeOK
<1> DEFINE s == Sent(b, c)
<1>2. s \in CallType /\ SameCall(s, c)
  BY <1>1, NonePath DEF Sent, CallType, Outcome, SameCall
<1>3. s.ran => ~b.error /\ (UsesFile(c) => s.under = b.path)
  BY <1>1, NonePath DEF Sent, CallType, UsesFile
<1>4. UsesFile(s) = UsesFile(c)
  BY <1>2 DEF UsesFile, SameCall
<1> QED BY <1>1, <1>2, <1>3, <1>4 DEF Under, PermissionsKept

\* A call that needs no program is answered at once.
LEMMA AnsweredOK ==
  ASSUME NEW c \in CallType, NEW ok \in BOOLEAN
  PROVE  /\ Answered(c, ok) \in CallType
         /\ Answered(c, ok).card = c.card /\ Answered(c, ok).done
<1>1. Answered(c, ok) = [[c EXCEPT !.done = TRUE] EXCEPT !.ok = ok]
  BY DEF Answered, CallType
<1> QED BY <1>1 DEF CallType

\* The number of a call is free.
LEMMA FreeIdType == Free # {} => FreeId \in Nat
BY DEF Free, FreeId

\* Making a call keeps the permission file, and adds the call and nothing else.
LEMMA RequestOK ==
  ASSUME TypeOK, PermissionsKept, wanted' = wanted,
         NEW c \in CallType, NEW p, Request(c, p)
  PROVE  /\ keys' \in KeysType /\ PermissionsKept'
         /\ Adds(c)
         /\ page' = [p EXCEPT !.active = c.action]
<1>1. PICK b \in Migrations : /\ keys' = b.keys
                              /\ calls' = calls \cup {Sent(b, c)}
  BY DEF Request
<1>2. page' = [p EXCEPT !.active = c.action]
  BY DEF Request
<1>3. /\ Sent(b, c) \in CallType /\ Under(Sent(b, c), wanted)
      /\ SameCall(Sent(b, c), c)
  BY SentOK
<1>4. keys' \in KeysType /\ MergedIn(keys') = Merged("permissions")
  BY <1>1, Migrates DEF TypeOK, Outcome
<1>5. PermissionsKept'
  BY <1>4 DEF PermissionsKept, Merged, MergedIn
<1> QED BY <1>1, <1>2, <1>3, <1>4, <1>5 DEF Adds

\* The same for a call that takes a free number.
LEMMA AskOK ==
  ASSUME TypeOK, PermissionsKept, wanted' = wanted,
         NEW c \in CallType, NEW p \in PageType, Ask(c, p)
  PROVE  /\ keys' \in KeysType /\ PermissionsKept'
         /\ Adds(c)
         /\ page' \in PageType
         /\ page'.cards = p.cards /\ page'.pending = p.pending
<1> DEFINE n == [c EXCEPT !.id = FreeId]
<1>1. n \in CallType /\ SameCall(n, c)
  BY FreeIdType DEF Ask, CallType, SameCall
<1>2. Request(n, p)
  BY DEF Ask
<1> HIDE DEF n
<1>3. /\ keys' \in KeysType /\ PermissionsKept'
      /\ Adds(n)
      /\ page' = [p EXCEPT !.active = n.action]
  BY <1>1, <1>2, RequestOK
<1>4. Adds(c)
  BY <1>1, <1>3 DEF Adds, SameCall
<1>5. /\ page' \in PageType
      /\ page'.cards = p.cards /\ page'.pending = p.pending
  BY <1>1, <1>3 DEF PageType, CallType
<1> QED BY <1>3, <1>4, <1>5

-----------------------------------------------------------------------------
(* The steps.  Safe is what every step keeps; Harmless is a step that neither *)
(* approves nor starts anything nor shows a card.                             *)

IInv == TypeOK /\ PermissionsKept
Safe == IInv' /\ \A c \in calls' \ calls : Under(c, wanted')
Harmless ==
    /\ approved' = approved /\ starts' = starts
    /\ page'.cards = page.cards /\ page'.pending \in {page.pending, None}
    /\ \A c \in calls' \ calls : c.card = 0

\* A click leaves fewer clicks.
LEMMA SpendType ==
  ASSUME left \in LeftType, Spend("settings") \/ Spend("starts")
  PROVE  left' \in LeftType
BY DEF Spend, LeftType

\* A step that only makes a call without a card is safe.
LEMMA PlainAsk ==
  ASSUME IInv, Quiet, left' \in LeftType, NEW c \in CallType, c.card = 0,
         NEW p \in PageType, p.cards = page.cards, p.pending = page.pending,
         Ask(c, p)
  PROVE  Safe /\ Harmless
<1>1. /\ keys' \in KeysType /\ PermissionsKept'
      /\ Adds(c)
      /\ page' \in PageType
      /\ page'.cards = p.cards /\ page'.pending = p.pending
  BY AskOK DEF IInv, Quiet
<1>2. /\ calls' \in SUBSET CallType
      /\ \A n \in calls' \ calls : n.card = 0 /\ Under(n, wanted')
  BY <1>1 DEF Adds, SameCall, IInv, TypeOK, Quiet
<1> QED BY <1>1, <1>2 DEF Safe, Harmless, IInv, TypeOK, OutsideOK, HistoryOK, Quiet

\* So is one that only changes what the page remembers.
LEMMA PlainPage ==
  ASSUME IInv, Quiet, left' \in LeftType, UNCHANGED <<keys, calls>>,
         page' \in PageType, page'.cards = page.cards,
         page'.pending \in {page.pending, None}
  PROVE  Safe /\ Harmless
BY DEF Safe, Harmless, IInv, TypeOK, OutsideOK, HistoryOK, Quiet,
       PermissionsKept, Merged

\* The page is shown.
LEMMA MountSafe == ASSUME IInv, Mount PROVE Safe /\ Harmless
<1> DEFINE Get(id, k) == [Answered(Call(id, "get"), TRUE) EXCEPT
                              !.key = k, !.under = keys[k].current]
           fresh == Call(3, "refresh")
<1>1. PICK b \in Migrations :
          /\ keys' = b.keys
          /\ calls' = {Get(1, "command"), Get(2, "permissions"), Sent(b, fresh)}
  BY DEF Mount
<1>2. fresh \in CallType /\ fresh.card = 0
  BY FreshCall DEF Actions
<1>3. ASSUME NEW id \in Nat, NEW k \in Kinds
      PROVE  Get(id, k) \in CallType /\ Get(id, k).card = 0 /\ Get(id, k).done
  <2> DEFINE a == Answered(Call(id, "get"), TRUE)
  <2>1. a \in CallType /\ a.card = 0 /\ a.done
    BY FreshCall, AnsweredOK DEF Actions
  <2>2. keys[k].current \in Path
    BY DEF IInv, TypeOK, KeysType
  <2> HIDE DEF a
  <2> QED BY <2>1, <2>2 DEF CallType, a
<1> HIDE DEF Get, fresh
<1>4. /\ Sent(b, fresh) \in CallType /\ Under(Sent(b, fresh), wanted)
      /\ Sent(b, fresh).card = 0
  BY <1>2, SentOK DEF IInv, SameCall
<1>5. /\ calls' \in SUBSET CallType
      /\ \A n \in calls' : n.card = 0 /\ Under(n, wanted)
  BY <1>1, <1>3, <1>4 DEF Under, Kinds
<1>6. keys' \in KeysType /\ MergedIn(keys') = Merged("permissions")
  BY <1>1, Migrates DEF IInv, TypeOK, Outcome
<1>7. PermissionsKept'
  BY <1>6 DEF PermissionsKept, Merged, MergedIn, IInv, Mount, Quiet
<1>8. /\ page' \in PageType
      /\ page'.cards = page.cards /\ page'.pending = page.pending
  BY DEF Mount, PageType, IInv, TypeOK, Actions
<1> QED BY <1>5, <1>6, <1>7, <1>8
        DEF Safe, Harmless, IInv, TypeOK, OutsideOK, HistoryOK, Mount, Quiet

\* The clicks on the settings that only make a call.
LEMMA SettingsSafe ==
  ASSUME IInv, Refresh \/ Reconnect \/ InstallRuntime
  PROVE  Safe /\ Harmless
<1>1. page \in PageType /\ left' \in LeftType /\ Quiet
  BY SpendType DEF IInv, TypeOK, OutsideOK, Refresh, Reconnect, InstallRuntime, Setting
<1>2. PICK action \in {"refresh", "doctor", "installRuntime"} :
          Ask(Call(0, action), page)
  BY DEF Refresh, Reconnect, InstallRuntime
<1>3. Call(0, action) \in CallType /\ Call(0, action).card = 0
  BY FreshCall DEF Actions
<1> QED BY <1>1, <1>2, <1>3, PlainAsk

\* Typing into a field.
LEMMA TypeFieldSafe ==
  ASSUME IInv, NEW k \in Kinds, TypeField(k) PROVE Safe /\ Harmless
<1>1. PICK v \in Path : page' = [page EXCEPT !.field[k] = v]
  BY DEF TypeField, Path
<1>2. /\ page' \in PageType
      /\ page'.cards = page.cards /\ page'.pending = page.pending
  BY <1>1 DEF PageType, IInv, TypeOK
<1>3. left' \in LeftType
  BY SpendType DEF TypeField, Setting, IInv, TypeOK, OutsideOK
<1> QED BY <1>2, <1>3, PlainPage DEF TypeField

\* Setting a key: the file that is configured changes with it, if the value stuck.
LEMMA SetOK ==
  ASSUME IInv, NEW k \in Kinds, NEW v \in Path, NEW id \in Nat,
         NEW others \in SUBSET calls, Set(k, v, id, others)
  PROVE  /\ keys' \in KeysType /\ wanted' \in Path /\ PermissionsKept'
         /\ calls' \in SUBSET CallType
         /\ \A c \in calls' \ calls : c.card = 0 /\ Under(c, wanted')
<1>1. PICK ok, stuck \in BOOLEAN :
        /\ keys' = IF stuck THEN [keys EXCEPT ![k].current = v] ELSE keys
        /\ wanted' = IF stuck /\ k = "permissions" THEN v ELSE wanted
        /\ calls' = others \cup {Answered(Call(id, "set"), ok)}
  BY DEF Set
<1> DEFINE n == Answered(Call(id, "set"), ok)
<1>2. n \in CallType /\ n.card = 0 /\ n.done
  BY FreshCall, AnsweredOK DEF Actions
<1>3. calls' = others \cup {n}
  BY <1>1
<1> HIDE DEF n
<1>4. /\ calls' \in SUBSET CallType
      /\ \A c \in calls' \ calls : c.card = 0 /\ Under(c, wanted')
  BY <1>2, <1>3 DEF IInv, TypeOK, Under
<1>5. CASE stuck
  BY <1>1, <1>4, <1>5
     DEF IInv, TypeOK, HistoryOK, KeysType, PermissionsKept, Merged, Kinds
<1>6. CASE ~stuck
  BY <1>1, <1>4, <1>6 DEF IInv, TypeOK, HistoryOK, PermissionsKept, Merged
<1> QED BY <1>5, <1>6

\* A click that sets a key is safe.
LEMMA SetKeySafe ==
  ASSUME IInv, left' \in LeftType, NEW k \in Kinds, NEW v \in Path,
         NEW p \in PageType, p.cards = page.cards, p.pending = page.pending,
         SetKey(k, v, p)
  PROVE  Safe /\ Harmless
<1>1. FreeId \in Nat /\ Set(k, v, FreeId, calls)
  BY FreeIdType DEF SetKey
<1>2. /\ keys' \in KeysType /\ wanted' \in Path /\ PermissionsKept'
      /\ calls' \in SUBSET CallType
      /\ \A c \in calls' \ calls : c.card = 0 /\ Under(c, wanted')
  BY <1>1, SetOK
<1> QED BY <1>2
        DEF Safe, Harmless, IInv, TypeOK, OutsideOK, HistoryOK, SetKey

\* The buttons that set a key.
LEMMA ApplySafe ==
  ASSUME IInv, RemoveFile \/ \E k \in Kinds : Apply(k)
  PROVE  Safe /\ Harmless
<1>1. left' \in LeftType
  BY SpendType DEF RemoveFile, Apply, Setting, IInv, TypeOK, OutsideOK
<1>2. CASE RemoveFile
  <2> DEFINE p == [page EXCEPT !.field["permissions"] = None]
  <2>1. /\ p \in PageType /\ p.cards = page.cards /\ p.pending = page.pending
    BY NonePath DEF IInv, TypeOK, PageType, Kinds
  <2> QED BY <1>1, <1>2, <2>1, NonePath, SetKeySafe DEF RemoveFile, Kinds
<1>3. CASE \E k \in Kinds : Apply(k)
  <2>1. PICK k \in Kinds : SetKey(k, Trimmed(page.field[k]), page)
    BY <1>3 DEF Apply
  <2>2. page \in PageType /\ Trimmed(page.field[k]) \in Path
    BY NonePath DEF IInv, TypeOK, PageType, Trimmed
  <2> QED BY <1>1, <2>1, <2>2, SetKeySafe
<1> QED BY <1>2, <1>3

\* Saving the permission rules makes the page's own file the one.
LEMMA SavePermissionRulesSafe ==
  ASSUME IInv, SavePermissionRules PROVE Safe /\ Harmless
<1> DEFINE c == Call(FreeId, "permissionSave")
<1>1. PICK b \in Migrations, written, ok, stuck \in BOOLEAN :
        /\ keys' = IF stuck THEN [b.keys EXCEPT !["permissions"].current = OwnFile]
                   ELSE b.keys
        /\ readable' \in {readable \cup {OwnFile}, readable, readable \ {OwnFile}}
        /\ wanted' = IF stuck THEN OwnFile ELSE wanted
        /\ calls' = calls \cup {Answered(c, ok)}
        /\ page' = [page EXCEPT !.active = c.action]
  BY DEF SavePermissionRules
<1>2. /\ b.keys \in KeysType
      /\ MergedIn(b.keys) = Merged("permissions")
  BY Migrates DEF IInv, TypeOK, Outcome
<1>4. c \in CallType /\ c.card = 0 /\ c.action \in Actions
  <2>1. FreeId \in Nat
    BY FreeIdType DEF SavePermissionRules
  <2>2. c \in CallType /\ c.card = 0
    BY <2>1, FreshCall DEF Actions
  <2> QED BY <2>2 DEF CallType
<1>5. /\ Answered(c, ok) \in CallType
      /\ Answered(c, ok).card = 0 /\ Answered(c, ok).done
  BY <1>4, AnsweredOK
<1> HIDE DEF c
<1>6. /\ calls' \in SUBSET CallType
      /\ \A n \in calls' \ calls : n.card = 0 /\ Under(n, wanted')
  BY <1>1, <1>5 DEF IInv, TypeOK, Under
<1>7. /\ OwnFile \in Path /\ OwnFile # None /\ OwnFile \in Files
  BY PageAssumption DEF Path
<1>8. keys' \in KeysType /\ PermissionsKept'
  <2>1. CASE stuck
    <3>1. keys' = [b.keys EXCEPT !["permissions"].current = OwnFile]
          /\ wanted' = OwnFile
      BY <1>1, <2>1
    <3> QED BY <3>1, <1>2, <1>7 DEF KeysType, PermissionsKept, Merged, Kinds
  <2>2. CASE ~stuck
    <3>1. keys' = b.keys /\ wanted' = wanted
      BY <1>1, <2>2
    <3> QED BY <3>1, <1>2 DEF IInv, PermissionsKept, Merged, MergedIn
  <2> QED BY <2>1, <2>2
<1>9. /\ readable' \in SUBSET Files /\ wanted' \in Path
      /\ page' \in PageType
      /\ page'.cards = page.cards /\ page'.pending = page.pending
  BY <1>1, <1>4, <1>7 DEF IInv, TypeOK, OutsideOK, HistoryOK, PageType
<1>10. left' \in LeftType
  BY SpendType DEF SavePermissionRules, Setting, IInv, TypeOK, OutsideOK
<1> QED BY <1>6, <1>8, <1>9, <1>10
        DEF Safe, Harmless, IInv, TypeOK, OutsideOK, HistoryOK, SavePermissionRules

\* Requests name a profile, a workspace or nothing.
LEMMA DemandType ==
  /\ NoRequest \in Demand
  /\ \A p \in SomeProfile : Of(p) \in Demand
  /\ \A n \in Nat : [NoRequest EXCEPT !.space = n] \in Demand
BY DEF NoRequest, Of, Demand, SomeProfile

\* The clicks that change the form, and cancelling a card.
LEMMA FormSafe ==
  ASSUME IInv, CreateProfile \/ EditForm \/ Cancel PROVE Safe /\ Harmless
<1>1. left' \in LeftType
  BY SpendType DEF CreateProfile, EditForm, Cancel, Click, IInv, TypeOK, OutsideOK
<1>2. Quiet /\ UNCHANGED <<keys, calls>>
  BY DEF CreateProfile, EditForm, Cancel
<1>3. /\ page' \in PageType /\ page'.cards = page.cards
      /\ page'.pending \in {page.pending, None}
  <2>1. CASE CreateProfile
    <3>1. page \in PageType
      BY DEF IInv, TypeOK
    <3>2. PICK f \in [id : Profiles, policy : Policies] :
            page' = [page EXCEPT !.selected = None, !.mode = "create",
                                 !.editing = TRUE, !.form = f]
      BY <2>1 DEF CreateProfile
    <3>3. f \in [id : SomeProfile, policy : SomePolicy] /\ None \in SomeProfile
      BY DEF SomeProfile, SomePolicy
    <3>4. page' \in PageType
      BY <3>1, <3>2, <3>3 DEF PageType
    <3> QED BY <3>1, <3>2, <3>4 DEF PageType
  <2>2. CASE EditForm
    BY <2>2 DEF EditForm, IInv, TypeOK, PageType, SomeProfile, SomePolicy
  <2>3. CASE Cancel
    BY <2>3 DEF Cancel, IInv, TypeOK, PageType
  <2> QED BY <2>1, <2>2, <2>3
<1> QED BY <1>1, <1>2, <1>3, PlainPage

\* The requests about profiles.
LEMMA ProfilesSafe ==
  ASSUME IInv, SaveProfile \/ \E p \in Profiles : SelectProfile(p) \/ DeleteProfile(p)
  PROVE  Safe /\ Harmless
<1>1. left' \in LeftType /\ Quiet
  BY SpendType DEF SaveProfile, SelectProfile, DeleteProfile, Click, IInv, TypeOK,
                   OutsideOK
<1>2. page \in PageType
  BY DEF IInv, TypeOK
<1>3. CASE SaveProfile
  <2> DEFINE c == Call(0, "profileSave")
             r == page.mode = "edit" /\ page.selected # None
             n == [c EXCEPT !.request = Of(page.form.id),
                            !.policy = page.form.policy, !.replace = r]
  <2>1. c \in CallType /\ c.card = 0
    BY FreshCall DEF Actions
  <2>2. Of(page.form.id) \in Demand /\ page.form.policy \in SomePolicy
    BY <1>2, DemandType DEF PageType
  <2>3. r \in BOOLEAN
    OBVIOUS
  <2>4. Ask(n, page)
    BY <1>3 DEF SaveProfile
  <2> HIDE DEF c, r
  <2>5. n \in CallType /\ n.card = 0
    BY <2>1, <2>2, <2>3 DEF CallType
  <2> QED BY <1>1, <1>2, <2>4, <2>5, PlainAsk
<1>4. ASSUME NEW p \in Profiles, SelectProfile(p) PROVE Safe /\ Harmless
  <2> DEFINE c == Call(0, "profileGet")
             n == [c EXCEPT !.request = Of(p)]
             q == [page EXCEPT !.selected = p, !.mode = "edit", !.editing = TRUE]
  <2>1. c \in CallType /\ c.card = 0
    BY FreshCall DEF Actions
  <2>2. Of(p) \in Demand
    BY DemandType DEF SomeProfile
  <2>3. Ask(n, q)
    BY <1>4 DEF SelectProfile
  <2> HIDE DEF c
  <2>4. n \in CallType /\ n.card = 0
    BY <2>1, <2>2 DEF CallType
  <2>5. q \in PageType /\ q.cards = page.cards /\ q.pending = page.pending
    BY <1>2 DEF PageType, SomeProfile
  <2> QED BY <1>1, <2>3, <2>4, <2>5, PlainAsk
<1>5. ASSUME NEW p \in Profiles, DeleteProfile(p) PROVE Safe /\ Harmless
  <2> DEFINE c == Call(0, "profileDelete")
             n == [c EXCEPT !.request = Of(p)]
  <2>1. c \in CallType /\ c.card = 0
    BY FreshCall DEF Actions
  <2>2. Of(p) \in Demand
    BY DemandType DEF SomeProfile
  <2>3. Ask(n, page)
    BY <1>5 DEF DeleteProfile
  <2> HIDE DEF c
  <2>4. n \in CallType /\ n.card = 0
    BY <2>1, <2>2 DEF CallType
  <2> QED BY <1>1, <1>2, <2>3, <2>4, PlainAsk
<1> QED BY <1>3, <1>4, <1>5

\* A preview: a call without a card.
LEMMA RequestStartSafe ==
  ASSUME IInv, NEW action \in Actions, NEW request \in Demand,
         RequestStart(action, request)
  PROVE  Safe /\ Harmless
<1> DEFINE c == Call(0, action)
           n == [c EXCEPT !.request = request]
<1>1. left' \in LeftType /\ Quiet /\ page \in PageType
  BY SpendType DEF RequestStart, Click, IInv, TypeOK, OutsideOK
<1>2. c \in CallType /\ c.card = 0
  BY FreshCall
<1>3. Ask(n, page)
  BY DEF RequestStart
<1> HIDE DEF c
<1>4. n \in CallType /\ n.card = 0
  BY <1>2 DEF CallType
<1> QED BY <1>1, <1>3, <1>4, PlainAsk

\* The three buttons that ask for a preview.
LEMMA StartSafe ==
  ASSUME IInv,
         \/ StartWorkspace
         \/ \E p \in Profiles : StartSavedWorkspace(p)
         \/ \E w \in page.listed : StartStoppedWorkspace(w)
  PROVE  Safe /\ Harmless
<1>1. Opens \in Actions /\ Restarts \in Actions
  BY DEF Opens, Restarts, Actions
<1>2. CASE StartWorkspace
  <2>1. Of(page.form.id) \in Demand
    BY DemandType DEF IInv, TypeOK, PageType
  <2> QED BY <1>1, <1>2, <2>1, RequestStartSafe DEF StartWorkspace
<1>3. ASSUME NEW p \in Profiles, StartSavedWorkspace(p) PROVE Safe /\ Harmless
  <2>1. Of(p) \in Demand
    BY DemandType DEF SomeProfile
  <2> QED BY <1>1, <1>3, <2>1, RequestStartSafe DEF StartSavedWorkspace
<1>4. ASSUME NEW w \in page.listed, StartStoppedWorkspace(w) PROVE Safe /\ Harmless
  <2>1. [profile |-> w.profile, space |-> w.id] \in Demand
    BY DEF IInv, TypeOK, PageType, Space, Demand, SomeProfile
  <2> QED BY <1>1, <1>4, <2>1, RequestStartSafe DEF StartStoppedWorkspace
<1> QED BY <1>2, <1>3, <1>4

\* Stopping and deleting workspaces.
LEMMA StopSafe ==
  ASSUME IInv,
         \/ \E w \in page.listed : StopWorkspace(w)
         \/ \E id \in {0} \cup {w.id : w \in page.listed} : DeleteStopped(id)
  PROVE  Safe /\ Harmless
<1>1. left' \in LeftType /\ Quiet /\ page \in PageType
  BY SpendType DEF StopWorkspace, DeleteStopped, Click, IInv, TypeOK, OutsideOK
<1>2. \A w \in page.listed : w.id \in Nat
  BY <1>1 DEF PageType, Space
<1>3. PICK action \in {"workspaceStop", "workspaceCleanup"}, n \in Nat :
          Ask([Call(0, action) EXCEPT !.request.space = n], page)
  BY <1>2 DEF StopWorkspace, DeleteStopped
<1> DEFINE c == Call(0, action)
           d == [c EXCEPT !.request.space = n]
<1>4. c \in CallType /\ c.card = 0
  BY FreshCall DEF Actions
<1>5. Ask(d, page)
  BY <1>3
<1> HIDE DEF c
<1>6. d \in CallType /\ d.card = 0
  BY <1>4 DEF CallType, Demand
<1> QED BY <1>1, <1>5, <1>6, PlainAsk

\* Approving: the call carries the card, and the card is gone from the page.
Approves ==
    /\ page.pending # None /\ page'.pending = None /\ page'.cards = page.cards
    /\ approved' = approved \cup {page.pending} /\ starts' = starts
    /\ \E n \in CallType :
           /\ calls' = calls \cup {n} /\ n.card = page.pending.n
           /\ n.action = page.pending.action /\ n.request = page.pending.request
           /\ n.acked => "unenforced" \in Shown(page.pending)

\* A card shows the acknowledgements that are sent for it.
LEMMA CardShows ==
  ASSUME NEW card \in CardType, Acks(card)
  PROVE  "unenforced" \in Shown(card)
<1>1. PICK policy \in SomePolicy, fills \in Filled :
          card.bundle = Bundle(policy, fills)
  BY DEF CardType, Bundles
<1>2. \A f \in Fields : card.bundle[f] = IF f \in fills THEN Needs(policy) ELSE {}
  BY <1>1 DEF Bundle
<1>3. PICK f \in Fields : "unenforced" \in card.bundle[f]
  BY DEF Acks
<1>4. f \in fills /\ "unenforced" \in Needs(policy)
  BY <1>2, <1>3
<1>5. fills \cap {"missing", "required"} # {}
  BY <1>4, PageAssumption DEF Filled
<1> QED BY <1>2, <1>4, <1>5 DEF Shown, Fields

\* Approving is safe.
LEMMA ApproveSafe == ASSUME IInv, Approve PROVE Safe /\ Approves
<1> DEFINE card == page.pending
           c == Call(0, card.action)
           acks == Acks(card)
           n == [c EXCEPT !.request = card.request, !.card = card.n,
                          !.acked = acks]
           p == [page EXCEPT !.pending = None]
<1>1. left' \in LeftType /\ page \in PageType /\ wanted' = wanted
  BY SpendType DEF Approve, Click, IInv, TypeOK, OutsideOK
<1>2. card \in CardType /\ card # None
  BY <1>1 DEF Approve, PageType
<1>3. c \in CallType
  BY <1>2, FreshCall DEF CardType
<1>4. /\ p \in PageType /\ p.cards = page.cards /\ p.pending = None
  BY <1>1 DEF PageType
<1>5. Ask(n, p) /\ approved' = approved \cup {card}
  BY DEF Approve
<1>6. c.action = card.action
  BY DEF Call
<1> HIDE DEF c
<1>7. /\ n \in CallType /\ n.card = card.n /\ n.action = card.action
      /\ n.request = card.request /\ n.acked = Acks(card)
  <2>1. acks \in BOOLEAN
    BY DEF Acks
  <2> HIDE DEF acks
  <2>2. /\ n \in CallType /\ n.card = card.n /\ n.action = card.action
        /\ n.request = card.request /\ n.acked = acks
    BY <1>2, <1>3, <1>6, <2>1 DEF CallType, CardType
  <2> QED BY <2>2 DEF acks
<1> HIDE DEF n, p
<1>8. /\ keys' \in KeysType /\ PermissionsKept'
      /\ Adds(n)
      /\ page' \in PageType
      /\ page'.cards = p.cards /\ page'.pending = p.pending
  BY <1>1, <1>4, <1>5, <1>7, AskOK DEF IInv
<1>9. Safe
  <2>1. approved' \in SUBSET CardType
    BY <1>2, <1>5 DEF IInv, TypeOK, HistoryOK
  <2>2. /\ calls' \in SUBSET CallType
        /\ \A m \in calls' \ calls : Under(m, wanted')
    BY <1>1, <1>8 DEF Adds, IInv, TypeOK
  <2> QED BY <1>1, <1>8, <2>1, <2>2
          DEF Safe, IInv, TypeOK, OutsideOK, HistoryOK, Approve
<1>10. Approves
  <2>1. PICK m \in CallType : calls' = calls \cup {m} /\ SameCall(m, n)
    BY <1>8 DEF Adds
  <2>2. /\ m.card = card.n /\ m.action = card.action /\ m.request = card.request
        /\ m.acked => "unenforced" \in Shown(card)
    BY <2>1, <1>2, <1>7, CardShows DEF SameCall
  <2>3. starts' = starts
    BY DEF Approve
  <2> HIDE DEF card
  <2>4. \E k \in CallType :
           /\ calls' = calls \cup {k} /\ k.card = card.n
           /\ k.action = card.action /\ k.request = card.request
           /\ k.acked => "unenforced" \in Shown(card)
    BY <2>1, <2>2
  <2> QED BY <1>2, <1>4, <1>5, <1>8, <2>3, <2>4 DEF Approves, card
<1> QED BY <1>9, <1>10

\* The program answers a call, and starts nothing or what the call is for.
Replies(c) ==
    /\ page' = page /\ approved' = approved
    /\ \E n \in CallType : /\ calls' = (calls \ {c}) \cup {n} /\ n.done
                           /\ SameCall(n, c)
    /\ starts' # starts =>
           /\ ~c.done /\ c.card # 0 /\ Satisfied(c)
           /\ starts' = Append(starts, [n |-> c.card, action |-> c.action,
                                        request |-> c.request,
                                        policy |-> store[c.request.profile]])

\* A reply is a call that is done.
LEMMA ReplyType ==
  ASSUME IInv, NEW c \in CallType, NEW ok \in BOOLEAN, NEW fills \in Filled
  PROVE  /\ Reply(c, ok, fills) \in CallType /\ Reply(c, ok, fills).done
         /\ SameCall(Reply(c, ok, fills), c)
<1> DEFINE policy == IF c.request.profile \in Saved
                     THEN store[c.request.profile] ELSE c.policy
           seen == IF c.action = "refresh"
                   THEN [profiles |-> Saved, spaces |-> spaces] ELSE c.seen
           r == [c EXCEPT !.done = TRUE, !.ok = ok, !.fills = fills,
                          !.policy = policy, !.seen = seen]
<1>1. policy \in SomePolicy
  BY DEF IInv, TypeOK, OutsideOK, Saved, CallType
<1>2. seen \in [profiles : SUBSET Profiles, spaces : SUBSET Space]
  BY DEF IInv, TypeOK, OutsideOK, Saved, CallType
<1>3. Reply(c, ok, fills) = r
  BY DEF Reply, CallType
<1> HIDE DEF policy, seen
<1>4. r \in CallType /\ r.done /\ SameCall(r, c)
  BY <1>1, <1>2 DEF CallType, SameCall
<1> QED BY <1>3, <1>4

\* The program's step is safe.
LEMMA BackendSafe ==
  ASSUME IInv, NEW c \in calls, Backend(c) PROVE Safe /\ Replies(c)
<1>1. c \in CallType /\ ~c.done
  BY DEF IInv, TypeOK, Backend
<1>2. PICK ok \in BOOLEAN, fills \in Filled :
          calls' = (calls \ {c}) \cup {Reply(c, ok, fills)}
  <2>1. \A t \in BOOLEAN : (t /\ Agrees(c)) \in BOOLEAN
    OBVIOUS
  <2>2. (IF Previews(c) THEN Fills ELSE {{}}) \subseteq Filled /\ {} \in Filled
    BY DEF Filled
  <2> QED BY <2>1, <2>2 DEF Backend
<1>3. /\ Reply(c, ok, fills) \in CallType /\ Reply(c, ok, fills).done
      /\ SameCall(Reply(c, ok, fills), c)
  BY <1>1, ReplyType
<1>4. /\ calls' \in SUBSET CallType
      /\ \A n \in calls' \ calls : Under(n, wanted')
  BY <1>2, <1>3 DEF IInv, TypeOK, Under
<1>5. Does(c) => c.request.profile \in Profiles
  BY DEF Does, Startable, Saved
<1>6. spaces' \in SUBSET Space
  <2>1. spaces \in SUBSET Space
    BY DEF IInv, TypeOK, OutsideOK
  <2>2. Does(c) => Started(c) \in Space
    BY <1>1, <1>5 DEF Started, Space, CallType, Demand
  <2>3. SpacesAfter(c) \in SUBSET Space
    <3>1. {[w EXCEPT !.running = @ /\ w.id # c.request.space] : w \in spaces}
              \in SUBSET Space
      BY <2>1 DEF Space
    <3> QED BY <2>1, <2>2, <3>1 DEF SpacesAfter, Without
  <2> QED BY <2>1, <2>3 DEF Backend
<1>7. store' \in [Profiles -> SomePolicy]
  <2>1. store \in [Profiles -> SomePolicy] /\ c.policy \in SomePolicy
    BY <1>1 DEF IInv, TypeOK, OutsideOK, CallType
  <2>2. StoreAfter(c) \in [Profiles -> SomePolicy]
    BY <2>1 DEF StoreAfter, SomePolicy
  <2> QED BY <2>1, <2>2 DEF Backend
<1>8. starts' = starts \/ (Does(c) /\ starts' = StartsAfter(c))
  BY DEF Backend, StartsAfter
<1>9. starts' \in Seq(StartType)
  <2> DEFINE e == [n |-> c.card, action |-> c.action, request |-> c.request,
                   policy |-> store[c.request.profile]]
  <2>1. starts \in Seq(StartType)
    BY DEF IInv, TypeOK, HistoryOK
  <2>2. CASE starts' = starts
    BY <2>1, <2>2
  <2>3. CASE Does(c) /\ starts' = StartsAfter(c)
    <3>1. e \in StartType
      BY <1>1, <1>5, <2>3 DEF StartType, CallType, IInv, TypeOK, OutsideOK
    <3>2. starts' = Append(starts, e)
      BY <2>3 DEF StartsAfter
    <3> QED BY <2>1, <3>1, <3>2
  <2> QED BY <1>8, <2>2, <2>3
<1>10. Replies(c)
  BY <1>1, <1>2, <1>3, <1>8 DEF Replies, Does, StartsAfter, Backend
<1> QED BY <1>4, <1>6, <1>7, <1>9, <1>10
        DEF Safe, IInv, TypeOK, OutsideOK, HistoryOK, Backend, PermissionsKept, Merged

\* Workspaces that end by themselves, and changes made elsewhere.
LEMMA ElsewhereSafe ==
  ASSUME IInv,
         \/ \E w \in spaces : Exits(w)
         \/ \E f \in Files : EditFile(f)
         \/ \E p \in Profiles : EditElsewhere(p)
  PROVE  Safe /\ Harmless
<1>1. UNCHANGED <<keys, calls, page, wanted, approved, starts>>
  BY DEF Exits, EditFile, EditElsewhere
<1>2. OutsideOK'
  <2>1. CASE \E w \in spaces : Exits(w)
    BY <2>1 DEF Exits, Without, Space, IInv, TypeOK, OutsideOK
  <2>2. CASE \E f \in Files : EditFile(f)
    BY <2>2, SpendType DEF EditFile, IInv, TypeOK, OutsideOK
  <2>3. CASE \E p \in Profiles : EditElsewhere(p)
    BY <2>3, SpendType DEF EditElsewhere, IInv, TypeOK, OutsideOK, SomePolicy
  <2> QED BY <2>1, <2>2, <2>3
<1> QED BY <1>1, <1>2
        DEF Safe, Harmless, IInv, TypeOK, HistoryOK, PermissionsKept, Merged

\* A refresh of which one call is answered.
LEMMA PartAnsweredSafe ==
  ASSUME IInv, NEW c \in calls, PartAnswered(c) PROVE Safe /\ Harmless
<1>1. /\ page' \in PageType /\ page'.cards = page.cards
      /\ page'.pending = page.pending
  BY DEF PartAnswered, IInv, TypeOK, PageType
<1>2. left' \in LeftType
  BY DEF PartAnswered, IInv, TypeOK, OutsideOK
<1> QED BY <1>1, <1>2, PlainPage DEF PartAnswered

\* A card shown: its number is new.
Shows ==
    /\ approved' = approved /\ starts' = starts
    /\ page'.cards = page.cards + 1 /\ page'.pending.n = page.cards + 1
    /\ \A c \in calls' \ calls : c.card = 0

\* What the page remembers of an answer: at most one card more.
LEMMA ResumedType ==
  ASSUME IInv, NEW c \in CallType
  PROVE  /\ Resumed(c) \in PageType
         /\ \/ Resumed(c).cards = page.cards /\ Resumed(c).pending = page.pending
            \/ /\ Resumed(c).cards = page.cards + 1
               /\ Resumed(c).pending.n = page.cards + 1
<1> DEFINE p == IF c.action \in {"get", "set"} THEN page
                ELSE [page EXCEPT !.active = None]
<1>1. p \in PageType /\ p.cards = page.cards /\ p.pending = page.pending
  BY DEF IInv, TypeOK, PageType
<1>2. CASE c.action = "get"
  <2>1. Resumed(c) = [p EXCEPT !.field[c.key] = c.under]
    BY <1>2 DEF Resumed, Previews, Opens, Restarts
  <2> HIDE DEF p
  <2> QED BY <2>1, <1>1 DEF PageType, CallType
<1>3. CASE c.action = "refresh"
  <2> DEFINE profiles == IF c.ok THEN c.seen.profiles ELSE p.profiles
             listed == IF c.ok THEN c.seen.spaces ELSE p.listed
             q == [p EXCEPT !.loading = FALSE, !.profiles = profiles,
                            !.listed = listed]
  <2>1. /\ profiles \in SUBSET Profiles /\ listed \in SUBSET Space
    BY <1>1 DEF CallType, PageType
  <2>2. Resumed(c) = q
    BY <1>1, <1>3 DEF Resumed, PageType, Previews, Opens, Restarts
  <2> HIDE DEF p, profiles, listed
  <2> QED BY <1>1, <2>1, <2>2 DEF PageType
<1>4. CASE c.action = "profileGet" /\ c.ok
  <2>1. Resumed(c) = [p EXCEPT !.form = Loaded(c)]
    BY <1>4 DEF Resumed, Previews, Opens, Restarts
  <2>2. Loaded(c) \in [id : SomeProfile, policy : SomePolicy]
    BY DEF Loaded, CallType, Demand
  <2> HIDE DEF p
  <2> QED BY <1>1, <2>1, <2>2 DEF PageType
<1>5. CASE c.action = "profileSave" /\ c.ok
  <2>1. Resumed(c) = [p EXCEPT !.selected = c.request.profile, !.editing = FALSE]
    BY <1>5 DEF Resumed, Previews, Opens, Restarts
  <2>2. c.request.profile \in SomeProfile
    BY DEF CallType, Demand
  <2> HIDE DEF p
  <2> QED BY <1>1, <2>1, <2>2 DEF PageType
<1>6. CASE c.action = "permissionSave" /\ c.ok
  <2>1. Resumed(c) = [p EXCEPT !.field["permissions"] = OwnFile]
    BY <1>6 DEF Resumed, Previews, Opens, Restarts
  <2>2. OwnFile \in Path
    BY PageAssumption DEF Path
  <2> HIDE DEF p
  <2> QED BY <1>1, <2>1, <2>2 DEF PageType, Kinds
<1>7. CASE c.action = "installRuntime" /\ c.ok
  <2>1. Resumed(c) = [p EXCEPT !.field["command"] = None]
    BY <1>7 DEF Resumed, Previews, Opens, Restarts
  <2> HIDE DEF p
  <2> DEFINE q == [p EXCEPT !.field["command"] = None]
  <2>2. q \in PageType /\ q.cards = p.cards /\ q.pending = p.pending
    BY <1>1, NonePath DEF PageType, Kinds
  <2> QED BY <1>1, <2>1, <2>2
<1>8. CASE Previews(c) /\ c.ok
  <2> DEFINE card == Card(c)
             n == p.cards + 1
             q == [p EXCEPT !.pending = card, !.cards = n]
  <2>1. Resumed(c) = q
    BY <1>1, <1>8 DEF Resumed, Previews, Opens, Restarts, PageType
  <2>2. card \in CardType /\ card.n = page.cards + 1
    <3>1. Bundle(c.policy, c.fills) \in Bundles
      BY DEF CallType, Bundles
    <3> QED BY <3>1 DEF Card, CardType, CallType, IInv, TypeOK, PageType
  <2>3. n = page.cards + 1 /\ n \in Nat
    BY <1>1 DEF IInv, TypeOK, PageType
  <2> HIDE DEF p, card, n
  <2>4. q \in PageType /\ q.cards = n /\ q.pending = card
    BY <1>1, <2>2, <2>3 DEF PageType
  <2> HIDE DEF q
  <2> QED BY <2>1, <2>2, <2>3, <2>4
<1>9. CASE /\ c.action \notin {"get", "refresh"}
           /\ ~(c.action = "profileGet" /\ c.ok)
           /\ ~(c.action = "profileSave" /\ c.ok)
           /\ ~(c.action = "permissionSave" /\ c.ok)
           /\ ~(c.action = "installRuntime" /\ c.ok)
           /\ ~(Previews(c) /\ c.ok)
  <2>1. Resumed(c) = p
    BY <1>9 DEF Resumed, Previews, Opens, Restarts
  <2> QED BY <1>1, <2>1
<1> QED BY <1>2, <1>3, <1>4, <1>5, <1>6, <1>7, <1>8, <1>9

\* An answer and the call that follows it are safe.
LEMMA AnswerSafe ==
  ASSUME IInv, NEW c \in calls, Answer(c)
  PROVE  Safe /\ (Harmless \/ Shows)
<1> DEFINE next == Continues(c)
           p == Resumed(c)
<1>1. c \in CallType /\ calls \in SUBSET CallType /\ left' \in LeftType /\ Quiet
  BY DEF IInv, TypeOK, OutsideOK, Answer
<1>2. /\ p \in PageType
      /\ \/ p.cards = page.cards /\ p.pending = page.pending
         \/ p.cards = page.cards + 1 /\ p.pending.n = page.cards + 1
  BY <1>1, ResumedType
<1>3. c.id \in Nat
  BY <1>1 DEF CallType
<1> HIDE DEF p
<1>4. /\ keys' \in KeysType /\ PermissionsKept'
      /\ calls' \in SUBSET CallType
      /\ \A n \in calls' \ calls : n.card = 0 /\ Under(n, wanted')
      /\ page' \in PageType
      /\ page'.cards = p.cards /\ page'.pending = p.pending
  <2>1. CASE next = None /\ calls' = calls \ {c} /\ page' = p /\ UNCHANGED keys
    BY <2>1, <1>1, <1>2 DEF IInv, TypeOK, PermissionsKept, Merged, Quiet
  <2>2. CASE Set("command", None, c.id, calls \ {c}) /\ page' = p
    BY <2>2, <1>2, <1>3, NonePath, SetOK DEF Kinds
  <2>3. CASE /\ next \notin {None, "set"}
             /\ \E b \in Migrations :
                    /\ keys' = b.keys
                    /\ calls' = (calls \ {c}) \cup {Sent(b, Call(c.id, next))}
             /\ page' = [p EXCEPT !.active = next]
    <3>1. next \in Actions
      BY <2>3 DEF Continues, Actions
    <3> DEFINE n == Call(c.id, next)
    <3>2. n \in CallType /\ n.card = 0
      BY <1>3, <3>1, FreshCall
    <3> HIDE DEF next
    <3>3. PICK b \in Migrations : /\ keys' = b.keys
                                  /\ calls' = (calls \ {c}) \cup {Sent(b, n)}
      BY <2>3
    <3> HIDE DEF n
    <3>4. /\ Sent(b, n) \in CallType /\ Under(Sent(b, n), wanted)
          /\ Sent(b, n).card = 0
      BY <3>2, SentOK DEF IInv, SameCall
    <3>5. /\ calls' \in SUBSET CallType
          /\ \A m \in calls' \ calls : m.card = 0 /\ Under(m, wanted')
      BY <1>1, <3>3, <3>4 DEF Quiet
    <3>6. keys' \in KeysType /\ MergedIn(keys') = Merged("permissions")
      BY <3>3, Migrates DEF IInv, TypeOK, Outcome
    <3>7. PermissionsKept'
      BY <1>1, <3>6 DEF PermissionsKept, Merged, MergedIn, IInv, Quiet
    <3>8. /\ page' \in PageType
          /\ page'.cards = p.cards /\ page'.pending = p.pending
      BY <2>3, <1>2, <3>1 DEF PageType
    <3> QED BY <3>5, <3>6, <3>7, <3>8
  <2> QED BY <2>1, <2>2, <2>3 DEF Answer, p
<1>5. Safe
  BY <1>1, <1>4 DEF Safe, IInv, TypeOK, OutsideOK, HistoryOK, Quiet
<1>6. Harmless \/ Shows
  BY <1>1, <1>2, <1>4 DEF Harmless, Shows, Quiet
<1> QED BY <1>5, <1>6

-----------------------------------------------------------------------------
(* The theorems. *)

\* At the start.
LEMMA InitInv == ASSUME Init PROVE IInv
<1>1. PICK s \in Scenarios :
          /\ keys = s.keys
          /\ left = [settings |-> s.settings, starts |-> s.starts]
          /\ page = [open |-> s.shown, loading |-> ~s.shown, active |-> None,
                      listed |-> IF s.shown THEN spaces ELSE {},
                      profiles |-> IF s.shown THEN Saved ELSE {},
                      pending |-> None, cards |-> 0, editing |-> FALSE,
                      mode |-> "create", selected |-> None,
                      form |-> [id |-> None, policy |-> "enforced"],
                      field |-> [k \in Kinds |-> IF s.shown THEN keys[k].current
                                                 ELSE None]]
  BY DEF Init
<1>2. keys \in KeysType
  BY <1>1, PageAssumption DEF KeysType, Keys, Kinds, Path, Slots
<1>3. left \in LeftType /\ s.shown \in BOOLEAN
  BY <1>1, PageAssumption DEF LeftType
<1>4. spaces \in SUBSET Space
  <2>1. \A p \in Profiles :
            [id |-> OldSpace, profile |-> p, running |-> FALSE] \in Space
    BY DEF Space, OldSpace
  <2> QED BY <2>1 DEF Init
<1>5. page.field \in [Kinds -> Path]
  BY <1>1, <1>2, NonePath DEF KeysType
<1>6. page \in PageType
  BY <1>1, <1>3, <1>4, <1>5 DEF PageType, Saved, SomeProfile, SomePolicy, Policies
<1>7. wanted \in Path
  BY <1>2, MergedType DEF Init, Kinds
<1>8. /\ readable \in SUBSET Files /\ store \in [Profiles -> SomePolicy]
      /\ approved \in SUBSET CardType /\ starts \in Seq(StartType)
      /\ calls \in SUBSET CallType
  BY DEF Init, SomePolicy
<1> QED BY <1>2, <1>3, <1>4, <1>6, <1>7, <1>8
        DEF IInv, TypeOK, OutsideOK, HistoryOK, PermissionsKept, Init

\* Every step is safe, and is one of these.
LEMMA StepSafe ==
  ASSUME IInv, Next
  PROVE  /\ Safe
         /\ Harmless \/ Shows \/ Approves \/ \E c \in calls : Replies(c)
<1>1. CASE UserAct
  BY <1>1, MountSafe, SettingsSafe, TypeFieldSafe, ApplySafe,
     SavePermissionRulesSafe, FormSafe, ProfilesSafe, StartSafe, ApproveSafe,
     StopSafe DEF UserAct
<1>2. CASE \E c \in calls : Backend(c) \/ Answer(c) \/ PartAnswered(c)
  BY <1>2, BackendSafe, AnswerSafe, PartAnsweredSafe
<1>3. CASE \/ \E w \in spaces : Exits(w)
           \/ \E f \in Files : EditFile(f)
           \/ \E p \in Profiles : EditElsewhere(p)
  BY <1>3, ElsewhereSafe
<1> QED BY <1>1, <1>2, <1>3 DEF Next

\* Nothing changes.
LEMMA StutterSafe ==
  ASSUME IInv, UNCHANGED vars PROVE Safe /\ Harmless
BY DEF vars, Safe, Harmless, IInv, TypeOK, OutsideOK, HistoryOK, PermissionsKept, Merged

\* The type of the state, and that the keys stand for the permission file that
\* was configured last.
THEOREM Typed == Spec => [](TypeOK /\ PermissionsKept)
<1>1. IInv /\ [Next]_vars => IInv'
  BY StepSafe, StutterSafe DEF Safe
<1> QED BY <1>1, InitInv, PTL DEF Spec, IInv

\* The program never runs without the permission file that was configured.
THEOREM RunsUnderPermissions == Spec => UnderPermissions
<1>1. IInv /\ [Next]_vars => IInv'
  BY StepSafe, StutterSafe DEF Safe
<1>2. IInv /\ [Next]_vars =>
        [\A c \in calls' \ calls :
           c.ran /\ ~c.done /\ UsesFile(c) /\ wanted' # None => c.under = wanted']_vars
  BY StepSafe DEF Safe, Under
<1> QED BY <1>1, <1>2, InitInv, PTL DEF Spec, UnderPermissions

-----------------------------------------------------------------------------
(* Cards.  Each is approved once, so one call at most carries it, and that    *)
(* call starts something once at most: ApprovedStarts alone does not say that *)
(* what is about to be started has a card, nor that the card is unused.       *)

Numbers ==
    /\ \A a \in approved : a.n \in 1..page.cards
    /\ page.pending # None =>
           /\ page.pending.n \in 1..page.cards
           /\ \A a \in approved : a.n # page.pending.n
Backed(c) ==
    \E a \in approved : /\ a.n = c.card
                        /\ a.action = c.action /\ a.request = c.request
                        /\ c.acked => "unenforced" \in Shown(a)
Carried ==
    /\ \A c \in calls : c.card # 0 => Backed(c)
    /\ \A c, d \in calls : c.card # 0 /\ c.card = d.card => c = d
Unused ==
    \A c \in calls : c.card # 0 /\ ~c.done =>
        \A i \in DOMAIN starts : starts[i].n # c.card
CardsInv == Numbers /\ Carried /\ Unused /\ ApprovedStarts

\* A harmless step, and one that shows a card.
LEMMA HarmlessCards ==
  ASSUME IInv, CardsInv, Harmless \/ Shows PROVE CardsInv'
<1>1. page.cards \in Nat
  BY DEF IInv, TypeOK, PageType
<1>2. approved' = approved /\ starts' = starts
      /\ \A c \in calls' \ calls : c.card = 0
  BY DEF Harmless, Shows
<1>3. Numbers'
  <2>1. CASE Harmless
    BY <2>1, <1>1 DEF Harmless, CardsInv, Numbers
  <2>2. CASE Shows
    BY <2>2, <1>1 DEF Shows, CardsInv, Numbers
  <2> QED BY <2>1, <2>2
<1>4. Carried'
  BY <1>2 DEF CardsInv, Carried, Backed
<1>5. Unused' /\ ApprovedStarts'
  BY <1>2 DEF CardsInv, Unused, ApprovedStarts
<1> QED BY <1>3, <1>4, <1>5 DEF CardsInv

\* An approval: no call and no start has the number of the card on the page.
LEMMA ApprovesCards ==
  ASSUME IInv, CardsInv, Approves PROVE CardsInv'
<1> DEFINE card == page.pending
<1>1. page.cards \in Nat /\ card # None /\ approved' = approved \cup {card}
      /\ starts' = starts /\ page'.pending = None /\ page'.cards = page.cards
  BY DEF IInv, TypeOK, PageType, Approves
<1>2. /\ card.n \in 1..page.cards
      /\ \A a \in approved : a.n # card.n
  BY <1>1 DEF CardsInv, Numbers
<1>3. PICK n \in CallType :
           /\ calls' = calls \cup {n} /\ n.card = card.n
           /\ n.action = card.action /\ n.request = card.request
           /\ n.acked => "unenforced" \in Shown(card)
  BY DEF Approves
<1>4. \A c \in calls : c.card # 0 => c.card # card.n
  BY <1>2 DEF CardsInv, Carried, Backed
<1>5. \A i \in DOMAIN starts : starts[i].n # card.n
  BY <1>2 DEF CardsInv, ApprovedStarts
<1> HIDE DEF card
<1>6. Numbers'
  BY <1>1, <1>2 DEF CardsInv, Numbers
<1>7. \A c \in calls' : c.card # 0 => Backed(c)'
  <2>1. ASSUME NEW c \in calls, c.card # 0 PROVE Backed(c)'
    <3>1. Backed(c)
      BY <2>1 DEF CardsInv, Carried
    <3> QED BY <3>1, <1>1 DEF Backed
  <2>2. Backed(n)'
    BY <1>1, <1>3 DEF Backed
  <2> QED BY <2>1, <2>2, <1>3
<1>8. \A c, d \in calls' : c.card # 0 /\ c.card = d.card => c = d
  BY <1>3, <1>4 DEF CardsInv, Carried
<1>9. Unused'
  BY <1>1, <1>3, <1>5 DEF CardsInv, Unused
<1>10. ApprovedStarts'
  BY <1>1 DEF CardsInv, ApprovedStarts
<1> QED BY <1>6, <1>7, <1>8, <1>9, <1>10 DEF CardsInv, Carried

\* A reply: what is started has the card of its call, which nothing started had.
LEMMA RepliesCards ==
  ASSUME IInv, CardsInv, NEW c \in calls, Replies(c) PROVE CardsInv'
<1>1. page' = page /\ approved' = approved
  BY DEF Replies
<1>2. PICK n \in CallType : /\ calls' = (calls \ {c}) \cup {n} /\ n.done
                            /\ SameCall(n, c)
  BY DEF Replies
<1>3. Numbers'
  BY <1>1 DEF CardsInv, Numbers
<1>4. Carried'
  <2>1. \A d \in calls' : d.card # 0 => Backed(d)
    <3>1. \A d \in calls : d.card # 0 => Backed(d)
      BY DEF CardsInv, Carried
    <3>2. n.card # 0 => Backed(n)
      BY <3>1, <1>2 DEF Backed, SameCall
    <3> QED BY <3>1, <3>2, <1>2
  <2>2. \A d, e \in calls' : d.card # 0 /\ d.card = e.card => d = e
    <3>1. \A d \in calls \ {c} : c.card # 0 => d.card # c.card
      BY DEF CardsInv, Carried
    <3>2. n.card = c.card
      BY <1>2 DEF SameCall
    <3>3. \A d, e \in calls : d.card # 0 /\ d.card = e.card => d = e
      BY DEF CardsInv, Carried
    <3> QED BY <3>1, <3>2, <3>3, <1>2
  <2>3. \A d : Backed(d)' = Backed(d)
    BY <1>1 DEF Backed
  <2> QED BY <2>1, <2>2, <2>3 DEF Carried
<1>5. CASE starts' = starts
  <2>1. Unused'
    BY <1>2, <1>5 DEF CardsInv, Unused
  <2>2. ApprovedStarts'
    BY <1>1, <1>5 DEF CardsInv, ApprovedStarts
  <2> QED BY <1>3, <1>4, <2>1, <2>2 DEF CardsInv
<1>6. CASE starts' # starts
  <2> DEFINE policy == store[c.request.profile]
             s == [n |-> c.card, action |-> c.action, request |-> c.request,
                   policy |-> policy]
  <2>1. ~c.done /\ c.card # 0 /\ Satisfied(c) /\ starts' = Append(starts, s)
    BY <1>6 DEF Replies
  <2>2. starts \in Seq(StartType)
    BY DEF IInv, TypeOK, HistoryOK
  <2>3. PICK a \in approved : /\ a.n = c.card
                              /\ a.action = c.action /\ a.request = c.request
                              /\ c.acked => "unenforced" \in Shown(a)
    BY <2>1 DEF CardsInv, Carried, Backed
  <2>4. policy = "unenforced" => "unenforced" \in Shown(a)
    BY <2>1, <2>3 DEF Satisfied
  <2>5. \A i \in DOMAIN starts : starts[i].n # c.card
    BY <2>1 DEF CardsInv, Unused
  <2> HIDE DEF policy
  <2>6. /\ s.n = c.card /\ s.action = a.action /\ s.request = a.request
        /\ s.policy = "unenforced" => "unenforced" \in Shown(a)
    BY <2>3, <2>4
  <2> HIDE DEF s
  <2>7. /\ DOMAIN starts' = DOMAIN starts \cup {Len(starts) + 1}
        /\ \A i \in DOMAIN starts : starts'[i] = starts[i]
        /\ starts'[Len(starts) + 1] = s
        /\ Len(starts) + 1 \notin DOMAIN starts
    BY <2>1, <2>2
  <2>8. Unused'
    <3>1. \A d \in calls \ {c} : d.card # 0 => d.card # c.card
      BY DEF CardsInv, Carried
    <3>2. \A d \in calls' : ~d.done => d \in calls \ {c}
      BY <1>2
    <3>3. \A d \in calls : d.card # 0 /\ ~d.done =>
              \A i \in DOMAIN starts : starts[i].n # d.card
      BY DEF CardsInv, Unused
    <3> QED BY <2>6, <2>7, <3>1, <3>2, <3>3 DEF Unused
  <2>9. ApprovedStarts'
    <3>1. \A i \in DOMAIN starts : \E card \in approved :
           /\ card.n = starts[i].n
           /\ card.action = starts[i].action /\ card.request = starts[i].request
           /\ starts[i].policy = "unenforced" => "unenforced" \in Shown(card)
      BY DEF CardsInv, ApprovedStarts
    <3>2. \A i, j \in DOMAIN starts : starts[i].n = starts[j].n => i = j
      BY DEF CardsInv, ApprovedStarts
    <3>3. \A i \in DOMAIN starts' : \E card \in approved :
           /\ card.n = starts'[i].n
           /\ card.action = starts'[i].action /\ card.request = starts'[i].request
           /\ starts'[i].policy = "unenforced" => "unenforced" \in Shown(card)
      BY <2>3, <2>6, <2>7, <3>1
    <3>4. \A i, j \in DOMAIN starts' : starts'[i].n = starts'[j].n => i = j
      BY <2>5, <2>6, <2>7, <3>2
    <3> QED BY <1>1, <3>3, <3>4 DEF ApprovedStarts
  <2> QED BY <1>3, <1>4, <2>8, <2>9 DEF CardsInv
<1> QED BY <1>5, <1>6

\* What the program has started was approved, on a card of its own.
THEOREM StartsApproved == Spec => []ApprovedStarts
<1>1. Init => CardsInv
  BY DEF Init, CardsInv, Numbers, Carried, Unused, ApprovedStarts
<1>2. IInv /\ CardsInv /\ [Next]_vars => IInv' /\ CardsInv'
  <2>1. SUFFICES ASSUME IInv, CardsInv, [Next]_vars PROVE IInv' /\ CardsInv'
    OBVIOUS
  <2>2. IInv'
    BY <2>1, StepSafe, StutterSafe DEF Safe
  <2>3. Harmless \/ Shows \/ Approves \/ \E c \in calls : Replies(c)
    BY <2>1, StepSafe, StutterSafe
  <2> QED BY <2>1, <2>2, <2>3, HarmlessCards, ApprovesCards, RepliesCards
<1>3. CardsInv => ApprovedStarts
  BY DEF CardsInv
<1> QED BY <1>1, <1>2, <1>3, InitInv, PTL DEF Spec
=============================================================================
