---------------------------- MODULE AgentWorkspaces ----------------------------
(***************************************************************************)
(* The Agent Workspaces settings page and its bridge in the main process:  *)
(* what the page remembers of requests that are answered in any order, the *)
(* card on which the user approves a hidden workspace, and the state keys  *)
(* the bridge migrates before it runs agent-workspace-linux.  That program *)
(* is external: it saves profiles, lists, starts and stops workspaces, and *)
(* refuses a start that lacks an acknowledgement its preview asked for.    *)
(* Requests that only show something (status, validation, preview without *)
(* a card, smoke test, viewer) and the pickers are left out.               *)
(***************************************************************************)
EXTENDS Integers, Sequences

CONSTANTS Profiles,   \* profile ids
          Commands,   \* paths of the program
          Files,      \* permission files
          OwnFile,    \* the file the page writes
          None,
          Bad,        \* a key's value that is blank or no string
          Fills,      \* the lists in which a preview may name acknowledgements
          MaxCalls,   \* bound: requests in flight
          Scenarios   \* bounds: the keys at the start, whether the page has been
                      \* shown and answered, and how many clicks on the settings
                      \* and on the profiles and workspaces are left

Kinds == {"command", "permissions"}
Policies == {"enforced", "unenforced"}  \* an unenforced one must be acknowledged

\* missing_acknowledgements, required_acknowledgements, and the parameters and
\* flags with which to approve.
Fields == {"missing", "required", "approve"}

Slots(S) == [current : S \cup {None, Bad}, legacy : S \cup {None, Bad}]
Keys == [command : Slots(Commands), permissions : Slots(Files)]

ASSUME PageAssumption ==
    /\ OwnFile \in Files /\ None \notin Profiles \cup Commands \cup Files
    /\ Bad \notin Commands \cup Files \cup {None}
    /\ \A fills \in Fills :
           fills \subseteq Fields /\ fills \cap {"missing", "required"} # {}
    /\ MaxCalls \in Nat /\ MaxCalls >= 3
    /\ Scenarios \subseteq [keys : Keys, shown : BOOLEAN, settings : Nat, starts : Nat]

VARIABLES keys,      \* global state: a key and its legacy name, for each kind
          readable,  \* the permission files that parse
          store,     \* the saved profiles
          spaces,    \* the workspaces there are
          calls,     \* the requests in flight
          page,      \* what the page remembers
          wanted,    \* the permission file last configured in the state
          approved,  \* the cards the user has approved
          starts,    \* what the program has started, in order
          left       \* clicks of each sort left
vars == <<keys, readable, store, spaces, calls, page, wanted, approved,
          starts, left>>

Opens == "workspaceOpenProfile"
Restarts == "workspaceStart"
OldSpace == 99  \* a workspace from before the page was shown

-----------------------------------------------------------------------------
(* The bridge: migration, then the permission file, then the program. *)

Merged(k) == IF keys[k].current # None THEN keys[k].current ELSE keys[k].legacy

Rejected ==
    \/ \E k \in Kinds : Bad \in {keys[k].current, keys[k].legacy}
    \/ \E k \in Kinds : /\ None \notin {keys[k].current, keys[k].legacy}
                        /\ keys[k].current # keys[k].legacy
    \/ keys["permissions"].legacy # None /\ Merged("permissions") \notin readable

\* Both keys are written before a legacy one is deleted.  A write that does
\* not stick ends the migration; what was written before stays.
Writes == << <<"command", "current">>, <<"permissions", "current">>,
             <<"command", "legacy">>, <<"permissions", "legacy">> >>
Needed(i) ==
    LET k == Writes[i][1] IN
    /\ keys[k].legacy # None
    /\ Writes[i][2] = "current" => keys[k].current = None
Written(i) ==
    [k \in Kinds |->
        [current |-> IF \E j \in 1..i : Writes[j] = <<k, "current">>
                     THEN Merged(k) ELSE keys[k].current,
         legacy |-> IF \E j \in 1..i : Writes[j] = <<k, "legacy">>
                    THEN None ELSE keys[k].legacy]]

Failed(ks) == [keys |-> ks, error |-> TRUE, path |-> None]

\* Mutant: a migration that failed goes on without a permission file.
MigrationsMutant ==
    {[keys |-> Written(4), error |-> FALSE,
      path |-> IF Rejected THEN None ELSE Merged("permissions")]}

Migrations ==
    IF Rejected THEN {Failed(keys)}
    ELSE {Failed(Written(i - 1)) : i \in {j \in 1..4 : Needed(j)}}
         \cup {[keys |-> Written(4), error |-> FALSE,
                path |-> Merged("permissions")]}

NoRequest == [profile |-> None, space |-> 0]
Call(id, action) ==
    [id |-> id, action |-> action, key |-> "command", request |-> NoRequest,
     card |-> 0, acked |-> FALSE, policy |-> None, fills |-> {},
     replace |-> FALSE, under |-> None, ran |-> FALSE, done |-> FALSE, ok |-> FALSE,
     seen |-> [profiles |-> {}, spaces |-> {}]]

\* installRuntime runs npm, whatever the permission file.
UsesFile(c) == c.action # "installRuntime"

\* The call as the bridge with outcome b makes it: run under a file that could
\* be read, or answered with an error.
Sent(b, c) ==
    LET runs == ~b.error /\ (UsesFile(c) /\ b.path # None => b.path \in readable)
    IN [c EXCEPT !.ran = runs, !.done = ~runs,
                 !.under = IF runs /\ UsesFile(c) THEN b.path ELSE None]

\* The answer to get- and set-global-state, and to permissionSave: no program.
Answered(c, ok) == [c EXCEPT !.done = TRUE, !.ok = ok]

-----------------------------------------------------------------------------
(* What the page derives of its state. *)

Runs(p) == \E w \in page.listed : w.running /\ w.profile = p
Active == \E w \in page.listed : w.running
Locked == page.mode = "edit" /\ page.selected # None /\ Runs(page.selected)
Free == {i \in 1..MaxCalls : \A c \in calls : c.id # i}
FreeId == CHOOSE i \in Free : TRUE

Spend(sort) == left[sort] > 0 /\ left' = [left EXCEPT ![sort] = @ - 1]
Setting == page.open /\ Spend("settings")
Click == page.open /\ Spend("starts")
Quiet == UNCHANGED <<readable, store, spaces, wanted, approved, starts>>

\* callAgentWorkspace
Request(c, p) ==
    \E b \in Migrations :
        /\ keys' = b.keys
        /\ calls' = calls \cup {Sent(b, c)}
        /\ page' = [p EXCEPT !.active = c.action]
Ask(c, p) == Free # {} /\ Request([c EXCEPT !.id = FreeId], p)

-----------------------------------------------------------------------------
(* The page is shown: it reads the two keys and refreshes. *)

Mount ==
    /\ ~page.open
    /\ LET Get(id, k) == [Answered(Call(id, "get"), TRUE) EXCEPT
                              !.key = k, !.under = keys[k].current]
       IN \E b \in Migrations :
            /\ keys' = b.keys
            /\ calls' = {Get(1, "command"), Get(2, "permissions"),
                         Sent(b, Call(3, "refresh"))}
    /\ page' = [page EXCEPT !.open = TRUE, !.active = "refresh"]
    /\ Quiet /\ UNCHANGED left

Refresh ==
    /\ Setting /\ ~page.loading
    /\ Ask(Call(0, "refresh"), page)
    /\ Quiet

Reconnect ==
    /\ Setting /\ ~page.loading /\ page.active = None
    /\ Ask(Call(0, "doctor"), page)
    /\ Quiet

TypeField(k) ==
    /\ Setting
    /\ \E v \in (IF k = "command" THEN Commands ELSE Files) \cup {None} :
           page' = [page EXCEPT !.field[k] = v]
    /\ Quiet /\ UNCHANGED <<keys, calls>>

\* set-global-state: it may fail, and unlike the bridge nobody looks whether the
\* value stuck.
Set(k, v, id, others) ==
    \E ok, stuck \in BOOLEAN :
        /\ stuck => ok
        /\ keys' = IF stuck THEN [keys EXCEPT ![k].current = v] ELSE keys
        /\ wanted' = IF stuck /\ k = "permissions" THEN v ELSE wanted
        /\ calls' = others \cup {Answered(Call(id, "set"), ok)}

\* saveCommand, savePermissions, clearPermissions: reconnect follows the answer.
SetKey(k, v, p) ==
    /\ Free # {} /\ Set(k, v, FreeId, calls)
    /\ page' = p
    /\ UNCHANGED <<readable, store, spaces, approved, starts>>

\* A blank field unsets the key.
Trimmed(v) == IF v = Bad THEN None ELSE v
Apply(k) ==
    /\ Setting /\ page.active # "doctor"
    /\ SetKey(k, Trimmed(page.field[k]), page)
RemoveFile ==
    /\ Setting /\ page.active # "doctor" /\ page.field["permissions"] # None
    /\ SetKey("permissions", None, [page EXCEPT !.field["permissions"] = None])

\* savePermissionRules: the bridge writes its own file, which it may spoil, and
\* makes it the one, which may fail or not stick.
SavePermissionRules ==
    /\ Setting /\ page.active # "permissionSave" /\ Free # {}
    /\ LET c == Call(FreeId, "permissionSave") IN
       \E b \in Migrations, written, ok, stuck \in BOOLEAN :
        /\ (stuck => ok) /\ (ok => written) /\ (written => ~b.error)
        /\ keys' = IF stuck THEN [b.keys EXCEPT !["permissions"].current = OwnFile]
                   ELSE b.keys
        /\ readable' \in IF written THEN {readable \cup {OwnFile}}
                         ELSE IF b.error THEN {readable}
                         ELSE {readable, readable \ {OwnFile}}
        /\ wanted' = IF stuck THEN OwnFile ELSE wanted
        /\ calls' = calls \cup {Answered(c, ok)}
        /\ page' = [page EXCEPT !.active = c.action]
    /\ UNCHANGED <<store, spaces, approved, starts>>

InstallRuntime ==
    /\ Setting /\ page.active # "installRuntime"
    /\ Ask(Call(0, "installRuntime"), page)
    /\ Quiet

-----------------------------------------------------------------------------
(* Profiles. *)

Of(p) == [NoRequest EXCEPT !.profile = p]

\* selectProfile: the form keeps the text it had until the profile comes.
SelectProfile(p) ==
    /\ Click /\ p \in page.profiles /\ ~Runs(p)
    /\ Ask([Call(0, "profileGet") EXCEPT !.request = Of(p)],
           [page EXCEPT !.selected = p, !.mode = "edit", !.editing = TRUE])
    /\ Quiet

CreateProfile ==
    /\ Click
    /\ \E f \in [id : Profiles, policy : Policies] :
           page' = [page EXCEPT !.selected = None, !.mode = "create",
                                !.editing = TRUE, !.form = f]
    /\ Quiet /\ UNCHANGED <<keys, calls>>

EditForm ==
    /\ Click /\ page.editing /\ ~Locked
    /\ \E f \in [id : Profiles, policy : Policies] :
           page' = [page EXCEPT !.form = f]
    /\ Quiet /\ UNCHANGED <<keys, calls>>

SaveProfile ==
    /\ Click /\ page.editing /\ page.form.id # None /\ ~Locked
    /\ Ask([Call(0, "profileSave") EXCEPT
                !.request = Of(page.form.id), !.policy = page.form.policy,
                !.replace = page.mode = "edit" /\ page.selected # None], page)
    /\ Quiet

DeleteProfile(p) ==
    /\ Click /\ p \in page.profiles /\ ~Runs(p)
    /\ Ask([Call(0, "profileDelete") EXCEPT !.request = Of(p)], page)
    /\ Quiet

-----------------------------------------------------------------------------
(* Starting: a dry run, a card, and the start the card was for. *)

\* requestStartApproval
RequestStart(action, request) ==
    /\ Click /\ ~Active /\ page.pending = None
    /\ Ask([Call(0, action) EXCEPT !.request = request], page)
    /\ Quiet

StartWorkspace ==
    /\ page.editing /\ page.form.id # None /\ ~Locked
    /\ page.active \notin {Opens, Restarts}
    /\ RequestStart(Opens, Of(page.form.id))
StartSavedWorkspace(p) ==
    /\ p \in page.profiles /\ page.active # Opens
    /\ RequestStart(Opens, Of(p))
StartStoppedWorkspace(w) ==
    /\ ~w.running /\ page.active \notin {Opens, Restarts}
    /\ RequestStart(Restarts, [profile |-> w.profile, space |-> w.id])

\* The acknowledgements the card shows.
Shown(card) ==
    IF card.bundle["missing"] # {} THEN card.bundle["missing"]
    ELSE card.bundle["required"]

\* Mutant: every acknowledgement there is, whatever the preview names.
AcksMutant(card) == TRUE

\* approvalAckParams: the hidden workspace always, the policy if any list of the
\* preview names it.
Acks(card) == "unenforced" \in UNION {card.bundle[f] : f \in Fields}

\* approvePendingStart
Approve ==
    /\ Click /\ page.pending # None
    /\ LET card == page.pending IN
        /\ approved' = approved \cup {card}
        /\ Ask([Call(0, card.action) EXCEPT
                    !.request = card.request, !.card = card.n,
                    !.acked = Acks(card)],
               [page EXCEPT !.pending = None])
    /\ UNCHANGED <<readable, store, spaces, wanted, starts>>

Cancel ==
    /\ Click /\ page.pending # None
    /\ page' = [page EXCEPT !.pending = None]
    /\ Quiet /\ UNCHANGED <<keys, calls>>

StopWorkspace(w) ==
    /\ Click /\ w.running
    /\ Ask([Call(0, "workspaceStop") EXCEPT !.request.space = w.id], page)
    /\ Quiet

\* deleteStoppedWorkspace; cleanupStale names no workspace and means all.
DeleteStopped(id) ==
    /\ Click /\ page.active # "workspaceCleanup"
    /\ \E w \in page.listed : ~w.running /\ id \in {w.id, 0}
    /\ Ask([Call(0, "workspaceCleanup") EXCEPT !.request.space = id], page)
    /\ Quiet

-----------------------------------------------------------------------------
(* agent-workspace-linux runs at some moment between call and answer.  A call *)
(* that takes longer than 15 s is answered as failed, done or not.            *)

Saved == {p \in Profiles : store[p] # None}
Satisfied(c) == store[c.request.profile] = "unenforced" => c.acked
Startable(c) ==
    /\ c.request.profile \in Saved
    /\ c.action = Restarts =>
           \E w \in spaces : w.id = c.request.space /\ ~w.running
Started(c) ==
    [id |-> IF c.action = Restarts THEN c.request.space ELSE c.card,
     profile |-> c.request.profile, running |-> TRUE]
Without(id) == {w \in spaces : w.id # id}

\* What becomes of the workspaces, the profiles and the starts, and what the
\* program answers: a dry run has no card and changes nothing.
Does(c) == c.card # 0 /\ Startable(c) /\ Satisfied(c)
SpacesAfter(c) ==
    CASE c.action \in {Opens, Restarts} /\ Does(c) ->
             Without(Started(c).id) \cup {Started(c)}
      [] c.action = "workspaceStop" ->
             {[w EXCEPT !.running = @ /\ w.id # c.request.space] : w \in spaces}
      [] c.action = "workspaceCleanup" ->
             {w \in spaces : w.running \/ c.request.space \notin {0, w.id}}
      [] OTHER -> spaces
StartsAfter(c) ==
    IF ~Does(c) THEN starts
    ELSE Append(starts, [n |-> c.card, action |-> c.action,
                         request |-> c.request,
                         policy |-> store[c.request.profile]])
StoreAfter(c) ==
    LET p == c.request.profile IN
    CASE c.action = "profileDelete" -> [store EXCEPT ![p] = None]
      [] c.action = "profileSave" /\ (c.replace \/ store[p] = None) ->
             [store EXCEPT ![p] = c.policy]
      [] OTHER -> store
Agrees(c) ==
    CASE c.action \in {Opens, Restarts} ->
             Startable(c) /\ (c.card # 0 => Satisfied(c))
      [] c.action = "profileSave" -> c.replace \/ store[c.request.profile] = None
      [] c.action \in {"profileGet", "profileDelete"} -> c.request.profile \in Saved
      [] OTHER -> TRUE
Previews(c) == c.action \in {Opens, Restarts} /\ c.card = 0
Reply(c, ok, fills) ==
    [c EXCEPT !.done = TRUE, !.ok = ok, !.fills = fills,
              !.policy = IF c.request.profile \in Saved
                         THEN store[c.request.profile] ELSE c.policy,
              !.seen = IF c.action = "refresh"
                       THEN [profiles |-> Saved, spaces |-> spaces] ELSE @]

\* A preview is made without any acknowledgement: what it lists as required it
\* lists as missing too, if it lists what is missing.
Needs(policy) ==
    {"hidden"} \cup IF policy = "unenforced" THEN {"unenforced"} ELSE {}
Bundle(policy, fills) ==
    [f \in Fields |-> IF f \in fills THEN Needs(policy) ELSE {}]

\* It answers, in time or not, or it dies before it does anything.
Backend(c) ==
    /\ ~c.done
    /\ \/ /\ spaces' = SpacesAfter(c)
          /\ starts' = StartsAfter(c)
          /\ store' = StoreAfter(c)
          /\ \E intime \in BOOLEAN,
                fills \in IF Previews(c) THEN Fills ELSE {{}} :
                 calls' = (calls \ {c}) \cup {Reply(c, intime /\ Agrees(c), fills)}
       \/ /\ calls' = (calls \ {c}) \cup {Reply(c, FALSE, {})}
          /\ UNCHANGED <<spaces, starts, store>>
    /\ UNCHANGED <<keys, readable, page, wanted, approved, left>>

\* A workspace ends by itself.
Exits(w) ==
    /\ w.running
    /\ spaces' = Without(w.id) \cup {[w EXCEPT !.running = FALSE]}
    /\ UNCHANGED <<keys, readable, store, calls, page, wanted, approved, starts,
                   left>>

\* The user or another program spoils or repairs a permission file.
EditFile(f) ==
    /\ Spend("settings")
    /\ readable' = IF f \in readable THEN readable \ {f} ELSE readable \cup {f}
    /\ UNCHANGED <<keys, store, spaces, calls, page, wanted, approved, starts>>

\* An agent or another program saves a profile.
EditElsewhere(p) ==
    /\ Spend("starts")
    /\ \E policy \in Policies : store' = [store EXCEPT ![p] = policy]
    /\ UNCHANGED <<keys, readable, spaces, calls, page, wanted, approved, starts>>

-----------------------------------------------------------------------------
(* An answer reaches the page, in any order, and what awaits it goes on.      *)

Card(c) ==
    [n |-> page.cards + 1, action |-> c.action, request |-> c.request,
     bundle |-> Bundle(c.policy, c.fills)]

Loaded(c) == [id |-> c.request.profile, policy |-> c.policy]

\* The finally of callAgentWorkspace clears activeAction, whoever has set it.
Resumed(c) ==
    LET p == IF c.action \in {"get", "set"} THEN page
             ELSE [page EXCEPT !.active = None] IN
    CASE c.action = "get" -> [p EXCEPT !.field[c.key] = c.under]
      [] c.action = "refresh" ->
             [p EXCEPT !.loading = FALSE,
                       !.profiles = IF c.ok THEN c.seen.profiles ELSE @,
                       !.listed = IF c.ok THEN c.seen.spaces ELSE @]
      [] c.action = "profileGet" /\ c.ok -> [p EXCEPT !.form = Loaded(c)]
      [] c.action = "profileSave" /\ c.ok ->
             [p EXCEPT !.selected = c.request.profile, !.editing = FALSE]
      [] c.action = "permissionSave" /\ c.ok ->
             [p EXCEPT !.field["permissions"] = OwnFile]
      [] c.action = "installRuntime" /\ c.ok -> [p EXCEPT !.field["command"] = None]
      [] Previews(c) /\ c.ok ->
             [p EXCEPT !.pending = Card(c), !.cards = @ + 1]
      [] OTHER -> p

\* What the continuation of the answer asks next.
Continues(c) ==
    CASE c.action = "permissionSave" -> "doctor"
      [] c.action = "set" /\ c.ok -> "doctor"
      [] c.action \in {"doctor", "profileDelete", "workspaceStop",
                       "workspaceCleanup", "workspaceOpenViewer"} -> "refresh"
      [] c.action = "profileSave" /\ c.ok -> "refresh"
      [] c.action = "installRuntime" /\ c.ok -> "set"
      [] c.action \in {Opens, Restarts} /\ c.card # 0 ->
             IF c.ok THEN "workspaceOpenViewer" ELSE "refresh"
      [] OTHER -> None

Answer(c) ==
    /\ c.done
    /\ LET next == Continues(c)
           p == Resumed(c)
       IN \/ /\ next = None
             /\ calls' = calls \ {c} /\ page' = p
             /\ UNCHANGED keys
          \/ /\ next = "set"
             /\ Set("command", None, c.id, calls \ {c})
             /\ page' = p
          \/ /\ next \notin {None, "set"}
             /\ \E b \in Migrations :
                    /\ keys' = b.keys
                    /\ calls' = (calls \ {c}) \cup {Sent(b, Call(c.id, next))}
             /\ page' = [p EXCEPT !.active = next]
    /\ Quiet /\ UNCHANGED left

\* One of the three calls of a refresh is answered before the others.
PartAnswered(c) ==
    /\ c.action = "refresh" /\ page.active # None
    /\ page' = [page EXCEPT !.active = None]
    /\ Quiet /\ UNCHANGED <<keys, calls, left>>

-----------------------------------------------------------------------------
Init ==
    /\ readable = Files
    /\ store \in [Profiles -> Policies]
    /\ spaces \in {{}} \cup
           {{[id |-> OldSpace, profile |-> p, running |-> FALSE]} : p \in Profiles}
    /\ calls = {}
    /\ \E s \in Scenarios :
           /\ keys = s.keys
           /\ left = [settings |-> s.settings, starts |-> s.starts]
           /\ page = [open |-> s.shown, loading |-> ~s.shown, active |-> None,
                      listed |-> IF s.shown THEN spaces ELSE {},
                      profiles |-> IF s.shown THEN Saved ELSE {},
                      pending |-> None, cards |-> 0, editing |-> FALSE,
                      mode |-> "create", selected |-> None,
                      form |-> [id |-> None, policy |-> "enforced"],
                      field |-> [k \in Kinds |-> IF s.shown THEN keys[k].current
                                                 ELSE None]]
    /\ wanted = Merged("permissions")
    /\ approved = {} /\ starts = <<>>

UserAct ==
    \/ Mount \/ Refresh \/ Reconnect \/ RemoveFile
    \/ SavePermissionRules \/ InstallRuntime
    \/ \E k \in Kinds : TypeField(k) \/ Apply(k)
    \/ CreateProfile \/ EditForm \/ SaveProfile
    \/ StartWorkspace \/ Approve \/ Cancel
    \/ \E p \in Profiles :
           SelectProfile(p) \/ DeleteProfile(p) \/ StartSavedWorkspace(p)
    \/ \E w \in page.listed : StartStoppedWorkspace(w) \/ StopWorkspace(w)
    \/ \E id \in {0} \cup {w.id : w \in page.listed} : DeleteStopped(id)

Next ==
    \/ UserAct
    \/ \E c \in calls : Backend(c) \/ Answer(c) \/ PartAnswered(c)
    \/ \E w \in spaces : Exits(w)
    \/ \E f \in Files : EditFile(f)
    \/ \E p \in Profiles : EditElsewhere(p)

Spec == Init /\ [][Next]_vars

-----------------------------------------------------------------------------
\* Every start the program has made was approved on a card of its own that
\* showed this request, and, when the profile it started under needs the
\* acknowledgement of an unenforced policy, showed that too: whatever previews
\* raced, whatever was saved between the preview and the approval.
ApprovedStarts ==
    /\ \A i \in DOMAIN starts : \E card \in approved :
           /\ card.n = starts[i].n
           /\ card.action = starts[i].action /\ card.request = starts[i].request
           /\ starts[i].policy = "unenforced" => "unenforced" \in Shown(card)
    /\ \A i, j \in DOMAIN starts : starts[i].n = starts[j].n => i = j

\* Once a permission file has been configured in the state, under the key of today or under
\* the legacy one, the program never runs without it, whatever part of the
\* migration failed and until the user changes the file.
UnderPermissions ==
    [][\A c \in calls' \ calls :
           c.ran /\ ~c.done /\ UsesFile(c) /\ wanted' # None => c.under = wanted']_vars
=============================================================================
