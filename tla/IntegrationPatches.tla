-------------------------- MODULE IntegrationPatches --------------------------
(***************************************************************************)
(* The text patches of two port integrations: remote-mobile-control (the    *)
(* app's remote control, which upstream keeps from Linux) and               *)
(* agent-workspace (a settings page and its bridge in the main process).    *)
(***************************************************************************)
EXTENDS PatchText

-----------------------------------------------------------------------------
(* remote-mobile-control *)

DeviceKey(t) ==
    IF t.client = "new" THEN Keep(t)
    ELSE IF All(t, {"aliases", "anchor", "guard"}, "old") THEN Keep(Put(t, {"client", "guard"}))
    ELSE Warn(t)

ClientRevocationRecovery(t) == Single(t, "predicate")

AppServerArgs(t) ==
    IF t.helper = "new" \/ t.args # "old" THEN Keep(t) ELSE Keep(Put(t, {"helper", "args"}))

\* The file that starts the app server has to be among those of the build.
AppServerLaunch(t) == IF t.helper = "new" \/ t.args = "old" THEN AppServerArgs(t) ELSE Warn(t)

RevokeSetupReset(t) ==
    IF t.reset = "new" \/ t.handler = "none" THEN Keep(t)
    ELSE IF All(t, {"state", "handler", "client"}, "old") THEN Keep(Put(t, {"reset", "handler"}))
    ELSE Warn(t)

LoadGate(t) == Single(t, "gate")

IntegrationSync(t) ==
    IF t.helper = "new" \/ t.list = "none" THEN Keep(t)
    ELSE IF All(t, {"setup", "list"}, "old") THEN Keep(Put(t, {"helper", "list"}))
    ELSE Warn(t)

RemoteControlVisibility(t) == Single(t, "visibility")

\* Replaces whatever copy it knows, wherever it is.
LinuxCopy(t) == Rewrite(t, {"copy", "second"})

RemoteControlCopy(t) == KeepOrWarn(LinuxCopy(t), Sweep(t, {"copy", "second"}).warned)

SshInstallAction(t) == Single(t, "install")

WrappedTabs(t) == Rewrite(t, {"mine", "others"})

RemoteControlSettings(t) ==
    Then(SshInstallAction(LinuxCopy(t)),
         LAMBDA s : IF s.helper = "new" \/ s.sort = "old"
                    THEN Keep(WrappedTabs(Put(s, {"helper"})))
                    ELSE Warn(s))

\* The interval is one of the bundle's fifteen-second constants: the first.
RefreshInterval(t) ==
    IF t.interval = "old" THEN Keep(Put(t, {"interval"}))
    ELSE Single(t, "constant")

ConnectionsRefresh(t) ==
    IF t.effect = "new" THEN Keep(t)
    ELSE Then(RefreshInterval(t), LAMBDA s : Single(s, "effect"))

NativeBackendPreference(t) == t.preference = "old"

ChromeBridge(t) ==
    IF NativeBackendPreference(t) THEN Keep(t) ELSE Together(t, {"backends", "reader"})

UnknownConversation == {"turnStarted", "itemStarted", "itemCompleted", "turnCompleted"}

\* All the handlers of events for a conversation that is not loaded, or none.
\* A bundle whose runtime status it does not know is only reported.
ConversationHydration(t) ==
    IF t.queue = "new" \/ Has(t, UnknownConversation, "odd")
    THEN KeepOrWarn(t, t.queue # "new" \/ t.status = "odd")
    ELSE LET done == Rewrite(t, UnknownConversation)
         IN KeepOrWarn(IF done.turnStarted = "new" THEN Put(done, {"queue"}) ELSE done,
                       t.status = "odd")

CompletedItemRecovery(t) == Single(t, "drop")

TerminalStatusRecovery(t) == TogetherIf(t, {"status", "pending", "call"}, "status")

StatusReadGuard(t) == Single(t, "read")

StatusWait(t) == Single(t, "wait")

EnableForHostParams(t) == Single(t, "params")

\* Two rewrites in one region of the bundle; the first stays when the second
\* finds nothing it knows.
EnablementBridge(t) ==
    LET connect(s) == Demand(s, "connect")
        bridge(s) ==
            IF s.anchors = "none" THEN KeepOrWarn(s, ~All(s, {"bridge", "connect"}, "new"))
            ELSE IF s.anchors = "odd" \/ s.bridge \notin {"old", "new"} THEN Warn(s)
            ELSE connect(Rewrite(s, {"bridge"}))
    IN Then(EnableForHostParams(t), bridge)

ActiveStatus(t) == Single(t, "status")

ReasoningSummary(t) ==
    IF t.summary = "new" THEN Keep(t)
    ELSE IF All(t, {"resolver", "host"}, "old") THEN Keep(Put(t, {"summary"}))
    ELSE Warn(t)

-----------------------------------------------------------------------------
(* agent-workspace *)

BridgeEntries == {"pickApp", "pickMount", "pickData", "copyData"}

EnsureBridgeEntries(t) == Put(t, BridgeEntries)

\* An older bridge is replaced when its end can be found.
ReplaceActionBridge(t) == IF t.end = "old" THEN Put(t, {"action"}) ELSE t

MainBridge(t) ==
    CASE t.aliases = "none" -> Warn(t)
      [] t.action # "none" -> Keep(ReplaceActionBridge(EnsureBridgeEntries(t)))
      [] t.handler # "old" -> Warn(t)
      [] OTHER -> Keep(Put(EnsureBridgeEntries(t), {"action"}))

\* The React the page runs on: that of the settings bundles, or the app's.
WorkspaceSettingsAsset(t) == t.react \in {"settings", "shared"} /\ t.request = "old"

WorkspaceCatalog(t) == MustTogether(t, {"slugs", "items"})

WorkspaceLabels(t) == Then(Must(t, {"nav"}), LAMBDA s : Must(s, {"title"}))

WorkspaceRoute(t) == Must(t, {"route"})

\* A bundle has a part of the page when it has both its places.
HasPart(t, ps) == \A p \in ps : t[p] # "none"

WorkspacePage(t) ==
    LET part(s, ps) == IF HasPart(s, ps) THEN MustTogether(s, ps) ELSE Keep(s)
    IN IF ~HasPart(t, {"order", "list"}) /\ ~HasPart(t, {"icon", "cases"}) THEN Throw(t)
       ELSE Then(part(t, {"order", "list"}), LAMBDA s : part(s, {"icon", "cases"}))

\* Every part has to be found in one of the bundles.
WorkspaceBundles(t) ==
    IF ~HasPart(t, {"order", "list"}) \/ ~HasPart(t, {"icon", "cases"}) THEN Throw(t)
    ELSE Then(Then(WorkspaceLabels(t), WorkspaceRoute),
              LAMBDA s : Then(WorkspacePage(s), WorkspaceCatalog))

\* Nothing is written when anything threw.
WorkspaceSettings(t) ==
    IF ~WorkspaceSettingsAsset(t) \/ WorkspaceBundles(t).threw THEN Warn(t)
    ELSE Keep(Put(WorkspaceBundles(t).text, {"page"}))
=============================================================================
