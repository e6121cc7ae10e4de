------------------------------ MODULE TextPatching ------------------------------
(***************************************************************************)
(* What the text patches promise together.  A build applies a patch to the  *)
(* text upstream ships, and a later build may apply it again to what the    *)
(* first one left.  The run chooses a patch and every text it can meet.     *)
(***************************************************************************)
EXTENDS WebviewPatches, SettingsPatches, IntegrationPatches, ComputerUsePatches,
        MainPatches, ShellPatches, FiniteSetsExt, TLC

\* For every patch
\*   seams    what it rewrites
\*   helpers  what it adds for them
\*   given    what it only reads, and cannot do without
\*   moot     what it reads to see that there is nothing to do
\*   others   what else it looks at
\*   free     the seams that use none of the helpers
\*   shapes   the sets of seams of which a bundle has one (all of them, unless
\*            upstream has written the same thing in several ways)
\*   loose    the seams it leaves in a shape it does not know, without a word,
\*            when it has rewritten another one
\*   quiet    whether it is applied to bundles of any kind, and says nothing of
\*            one in which it knows no seam
\*   forms    the forms of the places that are not found in the usual ones
CONSTANT Table

VARIABLES patch, text, original, said, round

vars == <<patch, text, original, said, round>>

Places(p) ==
    UNION {Table[p].seams, Table[p].helpers, Table[p].given, Table[p].moot, Table[p].others}

Forms(p, x) ==
    CASE x \in DOMAIN Table[p].forms -> Table[p].forms[x]
      [] x \in Table[p].seams -> Fresh
      [] x \in Table[p].helpers -> Added
      [] OTHER -> {"none", "old"}

\* Every text the patch can be given.
Texts(p) ==
    FoldSet(LAMBDA x, ts : {t @@ (x :> f) : t \in ts, f \in Forms(p, x)}, {<<>>}, Places(p))

Outcome(p, t) ==
    CASE p = "SettingsSearchVisibility" -> SettingsSearchVisibility(t)
      [] p = "OpaqueWindowsDefault" -> OpaqueWindowsDefault(t)
      [] p = "WindowControlsSafeArea" -> WindowControlsSafeArea(t)
      [] p = "TooltipWindowControlsCollision" -> TooltipWindowControlsCollision(t)
      [] p = "ThreadSidePanelNativeTooltip" -> ThreadSidePanelNativeTooltip(t)
      [] p = "AppSunset" -> AppSunset(t)
      [] p = "BrowserUseAvailability" -> BrowserUseAvailability(t)
      [] p = "BrowserUseExternalAvailability" -> BrowserUseExternalAvailability(t)
      [] p = "BrowserUseHiddenHostOwnership" -> BrowserUseHiddenHostOwnership(t)
      [] p = "ChatSearchHydration" -> ChatSearchHydration(t)
      [] p = "BrowserUseWebviewRemountStore" -> BrowserUseWebviewRemountStore(t)
      [] p = "BrowserUseWebviewHostRecovery" -> BrowserUseWebviewHostRecovery(t)
      [] p = "AppServerFeatureEnablement" -> AppServerFeatureEnablement(t)
      [] p = "AutomationUpdateEagerTool" -> AutomationUpdateEagerTool(t)
      [] p = "AppServerBackfillWait" -> AppServerBackfillWait(t)
      [] p = "I18nGate" -> I18nGate(t)
      [] p = "ConfigWriteVersionConflict" -> ConfigWriteVersionConflict(t)
      [] p = "SubagentNicknameMetadata" -> SubagentNicknameMetadata(t)
      [] p = "LocalEnvironmentActionModalDraft" -> LocalEnvironmentActionModalDraft(t)
      [] p = "BrowserPagePreloadBundle" -> BrowserPagePreloadBundle(t)
      [] p = "PersistentRateLimitFooter" -> PersistentRateLimitFooter(t)
      [] p = "FastModeModelGuard" -> FastModeModelGuard(t)
      [] p = "SkillsListDedupe" -> SkillsListDedupe(t)
      [] p = "DeviceKey" -> DeviceKey(t)
      [] p = "ClientRevocationRecovery" -> ClientRevocationRecovery(t)
      [] p = "AppServerLaunch" -> AppServerLaunch(t)
      [] p = "RevokeSetupReset" -> RevokeSetupReset(t)
      [] p = "LoadGate" -> LoadGate(t)
      [] p = "IntegrationSync" -> IntegrationSync(t)
      [] p = "RemoteControlVisibility" -> RemoteControlVisibility(t)
      [] p = "RemoteControlCopy" -> RemoteControlCopy(t)
      [] p = "RemoteControlSettings" -> RemoteControlSettings(t)
      [] p = "ConnectionsRefresh" -> ConnectionsRefresh(t)
      [] p = "ChromeBridge" -> ChromeBridge(t)
      [] p = "ConversationHydration" -> ConversationHydration(t)
      [] p = "CompletedItemRecovery" -> CompletedItemRecovery(t)
      [] p = "TerminalStatusRecovery" -> TerminalStatusRecovery(t)
      [] p = "StatusReadGuard" -> StatusReadGuard(t)
      [] p = "StatusWait" -> StatusWait(t)
      [] p = "EnablementBridge" -> EnablementBridge(t)
      [] p = "ActiveStatus" -> ActiveStatus(t)
      [] p = "ReasoningSummary" -> ReasoningSummary(t)
      [] p = "MainBridge" -> MainBridge(t)
      [] p = "WorkspaceSettings" -> WorkspaceSettings(t)
      [] p = "KeybindsSettingsIndex" -> KeybindsSettingsIndex(t)
      [] p = "LinuxDesktopSettingsIndex" -> LinuxDesktopSettingsIndex(t)
      [] p = "LinuxShortcutPhysicalKeyFallback" -> LinuxShortcutPhysicalKeyFallback(t)
      [] p = "KeybindsSettingsAssets" -> KeybindsSettingsAssets(t)
      [] p = "AutomationSchedule" -> AutomationSchedule(t)
      [] p = "AvatarOverlay" -> AvatarOverlay(t)
      [] p = "BootstrapBundles" -> BootstrapBundles(t)
      [] p = "ProjectlessDocumentsAssets" -> ProjectlessDocumentsAssets(t)
      [] p = "ChromePluginAutoInstall" -> ChromePluginAutoInstall(t)
      [] p = "ChromeNativeHostRuntime" -> ChromeNativeHostRuntime(t)
      [] p = "SettingsPersistence" -> SettingsPersistence(t)
      [] p = "LaunchActions" -> LaunchActions(t)
      [] p = "Authority" -> Authority(t)
      [] p = "DisableOrdering" -> DisableOrdering(t)
      [] p = "AvatarCursor" -> AvatarCursor(t)
      [] p = "PluginGate" -> PluginGate(t)
      [] p = "FeatureOverride" -> FeatureOverride(t)
      [] p = "RendererAvailability" -> RendererAvailability(t)
      [] p = "HostPlatform" -> HostPlatform(t)
      [] p = "InstallFlow" -> InstallFlow(t)
      [] p = "NativeDesktopApps" -> NativeDesktopApps(t)
      [] p = "QuitGuard" -> QuitGuard(t)
      [] p = "WillQuitDrainTimeout" -> WillQuitDrainTimeout(t)
      [] p = "ExplicitQuitPromptBypass" -> ExplicitQuitPromptBypass(t)
      [] p = "ExplicitTrayQuit" -> ExplicitTrayQuit(t)
      [] p = "ExplicitIpcQuit" -> ExplicitIpcQuit(t)
      [] p = "NotificationActions" -> NotificationActions(t)
      [] p = "Tray" -> Tray(t)
      [] p = "BuildInfoTray" -> BuildInfoTray(t)
      [] p = "SingleInstance" -> SingleInstance(t)
      [] p = "WindowOptions" -> WindowOptions(t)
      [] p = "NativeTitlebar" -> NativeTitlebar(t)
      [] p = "WindowMenu" -> WindowMenu(t)
      [] p = "ApplicationMenu" -> ApplicationMenu(t)
      [] p = "AppReloadShortcuts" -> AppReloadShortcuts(t)
      [] p = "ReadyToShowHook" -> ReadyToShowHook(t)
      [] p = "OpaqueBackground" -> OpaqueBackground(t)
      [] p = "WorkerFileManager" -> WorkerFileManager(t)
      [] p = "X11ProjectPicker" -> X11ProjectPicker(t)
      [] p = "TerminalUserPath" -> TerminalUserPath(t)
      [] p = "TerminalHostEnvironment" -> TerminalHostEnvironment(t)
      [] p = "HostProcessEnvironment" -> HostProcessEnvironment(t)
      [] p = "GitOriginsSourceFallback" -> GitOriginsSourceFallback(t)
      [] p = "OwlFeatureBindingFallback" -> OwlFeatureBindingFallback(t)
      [] p = "RemoteControlConfigPreservation" -> RemoteControlConfigPreservation(t)
      [] p = "XdgDocumentsDir" -> XdgDocumentsDir(t)
      [] p = "FeatureEnablementHandler" -> FeatureEnablementHandler(t)
      [] p = "BundledPluginCopyPermissions" -> BundledPluginCopyPermissions(t)
      [] p = "ReconcileStaleSnapshot" -> ReconcileStaleSnapshot(t)
      [] p = "NodeReplApproval" -> NodeReplApproval(t)
      [] p = "NodeReplSecurityContext" -> NodeReplSecurityContext(t)
      [] p = "BrowserRouteLiveness" -> BrowserRouteLiveness(t)
      [] p = "BrowserSocketDirectory" -> BrowserSocketDirectory(t)
      [] p = "ExternalOpenEnv" -> ExternalOpenEnv(t)

-----------------------------------------------------------------------------
Init ==
    /\ patch \in DOMAIN Table
    /\ text \in Texts(patch)
    /\ original = text
    /\ said = "nothing"
    /\ round = 0

\* A patch that threw leaves the text as it was: the engine writes the text a
\* patch returns.
Apply ==
    LET out == Outcome(patch, text)
    IN /\ round < 2
       /\ round' = round + 1
       /\ text' = IF out.threw THEN text ELSE out.text
       /\ said' = IF out.threw THEN "threw" ELSE IF out.warned THEN "warned" ELSE "nothing"
       /\ UNCHANGED <<patch, original>>

Next == Apply

Spec == Init /\ [][Next]_vars

-----------------------------------------------------------------------------
\* A bundle that has every piece the patch is for.
Complete ==
    /\ \A x \in Table[patch].given : original[x] # "none"
    /\ \A x \in Table[patch].moot : original[x] = "none"
    /\ \E S \in Table[patch].shapes : \A x \in S : original[x] # "none"

\* Seams that were all rewritten; a loose one may still be what it was, if it
\* was not known, but not all of them.
Whole(S) ==
    /\ \A x \in S : text[x] \in Seam => x \in Table[patch].loose /\ text[x] = "odd"
    /\ S = {} \/ \E x \in S : text[x] \notin Seam

Unconcerned ==
    Table[patch].quiet /\ \A x \in Table[patch].seams : text[x] = original[x]

\* A patch that said nothing of such a bundle has rewritten one of its shapes,
\* every seam of it, and what it only read is still what upstream wrote: a build
\* never takes a feature for patched that was left halfway, or broken, in
\* silence.  The loose seams are what the code excepts from this: a patch that
\* only asks whether it has rewritten anything is silent about the rest.
Honest ==
    round = 1 /\ said = "nothing" /\ Complete
      => /\ Unconcerned \/ \E S \in Table[patch].shapes : Whole(S)
         /\ \A x \in Table[patch].given : text[x] = original[x]

\* The steps of the avatar overlay go on in a bundle without a pointer policy,
\* and what they write calls methods that come with that policy.
AvatarWithoutPolicy == patch = "AvatarOverlay" /\ original.policy = "none"

\* A rewritten piece calls what the patch adds: no bundle is left with the call
\* and without the helper, whatever else the patch met in it.
HelperIn ==
    \/ AvatarWithoutPolicy
    \/ \A x \in Table[patch].seams \ Table[patch].free : text[x] # "new"
    \/ \A x \in Table[patch].helpers : text[x] = "new"

\* The texts in which a second run finds what the first one passed over: it
\* takes the next fifteen-second constant for the interval, or the resolver or
\* the gate of another shape.
PassedOver ==
    CASE patch = "ConnectionsRefresh" -> original.interval = "old" /\ original.constant = "old"
      [] patch = "ChromeNativeHostRuntime" -> original.resolver = "old"
      [] patch = "PluginGate" -> original.gate = "old" /\ original.loose = "old"
      [] OTHER -> FALSE

\* Applied again, to a tree that was patched before, a patch leaves its own
\* text alone: nothing is wrapped twice and no helper is added twice.
Settled == [][round = 1 /\ ~PassedOver => text' = text]_vars
=============================================================================
