-------------------------------- MODULE MCTexts --------------------------------
(***************************************************************************)
(* The patches and the texts each of them is tried on.                      *)
(***************************************************************************)
EXTENDS TextPatching

\* A patch whose places have the usual forms, and what sets others apart.
Row(seams, helpers, given) ==
    [seams |-> seams, helpers |-> helpers, given |-> given, moot |-> {}, others |-> {},
     free |-> {}, shapes |-> {seams}, loose |-> {}, quiet |-> FALSE, forms |-> <<>>]

With(row, forms) == [row EXCEPT !.forms = forms]

Free(row, seams) == [row EXCEPT !.free = seams]

Moot(row, places) == [row EXCEPT !.moot = places]

Others(row, places) == [row EXCEPT !.others = places]

Shapes(row, shapes) == [row EXCEPT !.shapes = shapes]

Quiet(row) == [row EXCEPT !.quiet = TRUE]

WebviewTable == [
    SettingsSearchVisibility |-> Row({"search"}, {}, {}),
    OpaqueWindowsDefault |-> Row({"theme"}, {}, {}),
    WindowControlsSafeArea |-> Row({"inset", "header", "slot"}, {}, {}),
    TooltipWindowControlsCollision |-> Row({"middleware", "second"}, {}, {}),
    ThreadSidePanelNativeTooltip |-> Row({"title"}, {}, {}),
    AppSunset |-> Row({"gate"}, {}, {}),
    BrowserUseAvailability |-> Row({"available"}, {}, {}),
    BrowserUseExternalAvailability |-> Row({"available"}, {}, {}),
    BrowserUseHiddenHostOwnership |-> Row({"ownership"}, {}, {}),
    ChatSearchHydration |-> 
        Shapes(Free(Row({"request", "keys", "handler", "route", "cache"}, {"helper"}, {}), {"keys"}),
               {{"request", "route"}, {"request", "keys", "handler", "cache"}}),
    BrowserUseWebviewRemountStore |-> Row(RemountStoreSeams, {}, {}),
    BrowserUseWebviewHostRecovery |-> Row({"component", "lifecycle", "effect"}, {}, {}),
    AppServerFeatureEnablement |->
        Shapes(With(Row({"array", "static", "loop"}, {}, {"sync"}),
                    [static |-> {"none", "old", "good"}, loop |-> Fresh \cup {"good"}]),
               {{"static"}, {"loop"}}),
    AutomationUpdateEagerTool |-> Row({"tools"}, {}, {}),
    AppServerBackfillWait |-> Quiet(Others(Row({"parser", "timeout"}, {"helper"}, {}), {"anchor", "class"})),
    I18nGate |-> Row({"gate"}, {}, {}),
    ConfigWriteVersionConflict |-> Row({"write", "second"}, {}, {}),
    SubagentNicknameMetadata |-> Row({"shape", "nickname"}, {}, {"spawn"}),
    LocalEnvironmentActionModalDraft |-> Row({"modal", "memo", "payload", "fields"}, {}, {}),
    BrowserPagePreloadBundle |-> Row({"highlight"}, {}, {"file"}),
    PersistentRateLimitFooter |->
        Quiet(Shapes(Others(Row({"controls", "home", "goal", "row"}, {"helper"}, {"current"}),
                            {"composer", "permissions", "latest", "status"}),
                     {{"home", "goal", "row"}, {"controls"}})),
    FastModeModelGuard |-> Row({"tiers", "second"}, {}, {}),
    SkillsListDedupe |-> Quiet(Row({"list", "flatten"}, {"helper"}, {}))]

IntegrationTable == [
    DeviceKey |-> Row({"guard"}, {"client"}, {"aliases", "anchor"}),
    ClientRevocationRecovery |-> Row({"predicate"}, {}, {}),
    AppServerLaunch |-> Row({"args"}, {"helper"}, {}),
    RevokeSetupReset |-> Row({"handler"}, {"reset"}, {"state", "client"}),
    LoadGate |-> Row({"gate"}, {}, {}),
    IntegrationSync |-> Row({"list"}, {"helper"}, {"setup"}),
    RemoteControlVisibility |-> Row({"visibility"}, {}, {}),
    RemoteControlCopy |-> Row({"copy", "second"}, {}, {}),
    RemoteControlSettings |->
        Others(Free(Row({"install", "mine", "others"}, {"helper"}, {"sort"}), {"install"}),
               {"copy", "second"}),
    ConnectionsRefresh |-> With(Others(Row({"interval", "effect"}, {}, {}), {"constant"}),
                                [constant |-> Fresh]),
    ChromeBridge |-> Moot(Row({"backends", "reader"}, {}, {}), {"preference"}),
    ConversationHydration |->
        With(Others(Row(UnknownConversation, {}, {"status"}), {"queue"}),
             [status |-> {"old", "odd"}, queue |-> Added]),
    CompletedItemRecovery |-> Row({"drop"}, {}, {}),
    TerminalStatusRecovery |-> Row({"status", "pending", "call"}, {}, {}),
    StatusReadGuard |-> Row({"read"}, {}, {}),
    StatusWait |-> Row({"wait"}, {}, {}),
    EnablementBridge |-> With(Row({"params", "bridge", "connect"}, {}, {"anchors"}), [anchors |-> Fresh]),
    ActiveStatus |-> Row({"status"}, {}, {}),
    ReasoningSummary |-> Row({}, {"summary"}, {"resolver", "host"}),
    MainBridge |-> With(Row({"action"}, BridgeEntries, {"aliases", "handler", "end"}),
                        [action |-> {"none", "old"}]),
    WorkspaceSettings |->
        With(Row({"slugs", "items", "nav", "title", "route", "order", "list", "icon", "cases"},
                 {"page"}, {"react", "request"}),
             [p \in {"slugs", "items", "nav", "title", "route"} |-> {"none", "old"}]
             @@ [react |-> {"none", "settings"}]),
    KeybindsSettingsIndex |->
        With(Row({"route", "icon", "order", "group", "visibility", "redirect"}, {"runtime"}, {}),
             [p \in {"order", "group", "visibility"} |-> {"odd", "old"}]),
    LinuxDesktopSettingsIndex |-> Row({"route", "array", "split", "objects"}, {}, {}),
    LinuxShortcutPhysicalKeyFallback |-> Quiet(Row({"keys"}, {}, {})),
    KeybindsSettingsAssets |->
        With(Row({"route", "other", "sections", "group", "visibility", "nav", "title", "icon"},
                 {"page", "bridge"}, {"native", "runtime", "request", "parts"}),
             [p \in {"sections", "group", "visibility", "nav", "icon"} |-> {"none", "old"}]
             @@ [title |-> {"old"}, runtime |-> {"none", "one", "two"}])]

MainTable == [
    AutomationSchedule |->
        Shapes(With(Row(ScheduleSeams \cup {"block"}, {"helper"}, {}),
                    [p \in ScheduleSeams |-> Fresh \cup {"renamed"}]),
               {{"block"}, ScheduleSeams}),
    AvatarOverlay |->
        With(Free(Row(AvatarSteps \cup {"policy", "size", "options"}, {"methods"}, {"route", "aliases"}),
                  {"startDrag", "endDrag", "layout", "size", "options", "tray"}),
             [p \in AvatarSteps |-> {"odd", "old"}]),
    BootstrapBundles |->
        With(Row({"lock", "handler"}, {}, {"entry", "bundles"}), [bundles |-> {"one", "two"}]),
    ProjectlessDocumentsAssets |-> Row({"resolver"}, {"helper"}, {}),
    ChromePluginAutoInstall |-> Row({"gate", "second"}, {}, {"external"}),
    ChromeNativeHostRuntime |->
        Shapes(With(Free(Row(RuntimeVariants \cup {"isolation", "resolver"}, {"runtime"}, {"aliases"}),
                         {"isolation"}),
                    [p \in RuntimeVariants |-> {"none", "old"}]),
               {RuntimeVariants \cup {"isolation"}, {"resolver"}}),
    SettingsPersistence |-> Row({"state"}, {"helper"}, {"aliases"}),
    LaunchActions |->
        Shapes(Row({"handler", "second", "startup"}, {"quit", "socket", "prewarm"}, {"launching"}),
               {{"handler", "startup"}, {"second", "startup"}}),
    Authority |-> Row({"controller", "feature"}, {"runtime"}, {}),
    DisableOrdering |-> Row({"mutation"}, {}, {"dispatch"}),
    AvatarCursor |-> Row({"registration"}, {"bridge"}, {}),
    PluginGate |-> 
        Shapes(Row({"selector", "gate", "loose"}, {}, {"literal", "mention"}), {{"gate"}, {"loose"}}),
    FeatureOverride |-> Row({"override", "variable"}, {}, {}),
    RendererAvailability |-> Row({"selection"}, {}, {}),
    HostPlatform |-> Row({"host"}, {}, {}),
    InstallFlow |-> Row({"detail"}, {}, {}),
    NativeDesktopApps |-> Row({"apps", "icon"}, {"helper"}, {"aliases", "mention"})]

ShellTable == [
    QuitGuard |-> With(Row({}, {"guard"}, {"prefix"}), [prefix |-> Fresh]),
    WillQuitDrainTimeout |-> Row({"listener", "second"}, {"drain"}, {}),
    ExplicitQuitPromptBypass |-> Row({"before", "accepted"}, {}, {}),
    ExplicitTrayQuit |-> Row({"tray"}, {}, {}),
    ExplicitIpcQuit |-> Row({"message"}, {}, {}),
    NotificationActions |-> Row({"factory"}, {"bridge"}, {}),
    Tray |-> With(Row(TraySeams, {"register"}, {"factory", "wrapper"}),
                  [register |-> {"none", "new", "odd"}]),
    BuildInfoTray |-> With(Row({"menu", "help", "request"}, {"helper"}, {"keys", "aliases"}),
                           [request |-> {"none", "nested"}]),
    SingleInstance |-> Moot(Row({"lock", "handler"}, {}, {}), {"handover"}),
    WindowOptions |-> Row({"menubar", "parent", "focusable"}, {}, {"ready", "asset"}),
    NativeTitlebar |-> Row({"titlebar", "zoom", "sync"}, {"helper"}, {"aliases"}),
    WindowMenu |-> Row({"menu"}, {}, {}),
    ApplicationMenu |-> Quiet(Row({"menu"}, {}, {})),
    AppReloadShortcuts |-> Row({"enabled", "handler", "second"}, {"reload"}, {}),
    ReadyToShowHook |->
        With(Others(Row({}, {"icon", "repaint", "helper"}, {"ready", "maximize", "guard"}), {"asset"}),
             [maximize |-> Fresh, guard |-> {"none", "held"}]),
    OpaqueBackground |-> Row({"surface", "function"}, {}, {}),
    WorkerFileManager |-> Row({"block"}, {}, {"aliases", "worker"}),
    X11ProjectPicker |-> Row({"picker"}, {}, {}),
    TerminalUserPath |-> Row({"builder"}, {"helper"}, {"session"}),
    TerminalHostEnvironment |-> Row({"builder"}, {"helper"}, {}),
    HostProcessEnvironment |-> Row({"shell", "cli"}, {"helper"}, {}),
    GitOriginsSourceFallback |-> Row({"guard"}, {}, {}),
    OwlFeatureBindingFallback |->
        With(Row({"loader"}, {}, {"owl"}), [loader |-> {"odd", "old", "safe"}]),
    RemoteControlConfigPreservation |-> Row({"stripper"}, {}, {}),
    XdgDocumentsDir |-> Row({"resolver"}, {"helper"}, {"fs"}),
    FeatureEnablementHandler |-> Row({"internal", "fetch"}, {}, {}),
    BundledPluginCopyPermissions |-> Row(CopySeams, {"helpers"}, {}),
    ReconcileStaleSnapshot |-> Row(ReconcileSeams, {"marker"}, {"queue"}),
    NodeReplApproval |-> Free(Row({"hashes", "config"}, {"helper"}, {"aliases"}), {"config"}),
    NodeReplSecurityContext |-> Row({}, {}, ProducerParts),
    BrowserRouteLiveness |-> Row({"route"}, {}, {}),
    BrowserSocketDirectory |-> Row({"directory", "listener"}, {"helper"}, {}),
    ExternalOpenEnv |-> Row({"require", "second"}, {"helper"}, {})]

Rows == WebviewTable @@ IntegrationTable @@ MainTable @@ ShellTable

\* The seams a patch passes over in silence as soon as it has rewritten another
\* one: it asks whether anything was rewritten (patchedAny in
\* applyLinuxExplicitQuitPromptBypassPatch), or calls a step that says nothing
\* of what it does not know.
LooseSeams == [
    WindowControlsSafeArea |-> {"inset"},
    TooltipWindowControlsCollision |-> {"middleware", "second"},
    AppServerBackfillWait |-> {"parser", "timeout"},
    ConfigWriteVersionConflict |-> {"write", "second"},
    SubagentNicknameMetadata |-> {"shape", "nickname"},
    PersistentRateLimitFooter |-> {"controls", "home", "goal", "row"},
    FastModeModelGuard |-> {"tiers", "second"},
    RemoteControlCopy |-> {"copy", "second"},
    RemoteControlSettings |-> {"mine", "others"},
    ConnectionsRefresh |-> {"interval"},
    KeybindsSettingsIndex |-> {"redirect"},
    LinuxDesktopSettingsIndex |-> {"array", "split", "objects"},
    AvatarOverlay |-> {"size", "options"},
    ChromePluginAutoInstall |-> {"gate", "second"},
    FeatureOverride |-> {"override", "variable"},
    WillQuitDrainTimeout |-> {"second"},
    ExplicitQuitPromptBypass |-> {"before", "accepted"},
    BuildInfoTray |-> {"menu"},
    WindowOptions |-> {"menubar", "parent"},
    NativeTitlebar |-> {"zoom"},
    AppReloadShortcuts |-> {"second"},
    ExternalOpenEnv |-> {"require", "second"}]

MCTable ==
    [p \in DOMAIN Rows |->
        IF p \in DOMAIN LooseSeams THEN [Rows[p] EXCEPT !.loose = LooseSeams[p]] ELSE Rows[p]]
=============================================================================
