---------------------------- MODULE SettingsPatches ----------------------------
(***************************************************************************)
(* src/scripts/patches/impl/keybinds-settings.js: the Linux desktop page in *)
(* the app's settings.  The page is one generated file, reached through     *)
(* four rewrites in upstream's bundles and importing what a fifth adds.     *)
(***************************************************************************)
EXTENDS PatchText

KeybindsSettingsSections(t) == Must(t, {"slug"})

\* The settings that are shown whatever the platform.
LinuxDesktopSettingsVisibility(t) == Only(t, {"visibility", "second"})

\* The lists of sections, in the three shapes upstream has had.
LinuxDesktopSettingsSections(t) == Keep(Rewrite(t, {"array", "split", "objects"}))

LinuxDesktopSettingsNavigationGroup(t) == Only(t, {"group", "second"})

\* The title goes after the title of the general settings.
SettingsSectionTitle(t) == Must(t, {"title"})

SharedLabels(t) == Then(Must(t, {"nav"}), SettingsSectionTitle)

KeybindsSettingsShared(t) == SharedLabels(t)

LinuxDesktopSettingsShared(t) == SharedLabels(t)

LinuxShortcutPhysicalKeyFallback(t) == Keep(Rewrite(t, {"keys"}))

\* The runtime is appended, or replaces the one an earlier run appended.
LinuxKeybindOverridesRuntime(t) == Keep(Put(t, {"runtime"}))

KeybindsSettingsIndex(t) ==
    Then(Must(t, {"route", "icon", "order", "group", "visibility"}),
         LAMBDA s : LinuxKeybindOverridesRuntime(Rewrite(s, {"redirect"})))

LinuxDesktopSettingsRoute(t) == Must(t, {"route"})

LinuxDesktopSettingsIcon(t) == Only(t, {"icon", "second"})

LinuxDesktopSettingsIndex(t) ==
    Then(LinuxDesktopSettingsRoute(t), LinuxDesktopSettingsSections)

-----------------------------------------------------------------------------
(* The page as a whole: t now stands for the bundles of the app together.   *)
(*   native    upstream's keyboard shortcuts page and its route             *)
(*   runtime   how many route bundles name the React they run on            *)
(*   route     the route bundle, other a second one                         *)
(*   parts     upstream's controls (row, layout, section, group), which the *)
(*             page imports when they are there                             *)
(*   bridge    the exports that lend that React to the page                 *)

NativeShortcuts(t) == t.native = "old"

\* A module of the app is only lent when exactly one can be told apart.
RouteRuntime(t) == t.runtime = "one" /\ \E p \in {"route", "other"} : t[p] # "none"

BridgeExports(t) == Put(t, {"bridge"})

\* Upstream's control, unless this build has none that the page can use.
FallbackComponents(t) == IF t.parts = "old" THEN t ELSE Put(t, {"parts"})

SettingsAssetDependencies(t) ==
    IF RouteRuntime(t) /\ t.request = "old"
    THEN Keep(FallbackComponents(BridgeExports(t)))
    ELSE Throw(t)

\* A bundle that only may be patched: the exception is written as a warning
\* and the others go on.
Optionally(t, result) == IF result.threw THEN Warn(t) ELSE result

\* Every route bundle there is, and at least one.
RouteAndNavigation(t) ==
    IF t.other = "none" THEN Must(t, {"route"})
    ELSE Must(t, IF t.route = "none" THEN {"other"} ELSE {"route", "other"})

Catalog(t) ==
    Then(Optionally(t, Keep(Rewrite(t, {"sections"}))),
         LAMBDA s : Must(s, {"group"}))

Shown(t) == Then(Must(t, {"visibility"}), LAMBDA s : Optionally(s, SharedLabels(s)))

Reached(t) == Then(Must(t, {"icon"}), RouteAndNavigation)

\* Everything is computed before anything is written.
PageAndBundles(t) ==
    Then(Then(Then(SettingsAssetDependencies(t), Catalog), Shown),
         LAMBDA s : Then(Reached(s), LAMBDA r : Keep(Put(r, {"page"}))))

\* An exception anywhere leaves the app as it was, with a warning.
KeybindsSettingsAssets(t) ==
    IF NativeShortcuts(t) /\ ~PageAndBundles(t).threw THEN PageAndBundles(t) ELSE Warn(t)
=============================================================================
