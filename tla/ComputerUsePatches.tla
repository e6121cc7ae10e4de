-------------------------- MODULE ComputerUsePatches --------------------------
(***************************************************************************)
(* The text patches of src/scripts/patches/impl/computer-use.js, and the    *)
(* contract by which a build tells beforehand whether a bundle is one its   *)
(* patch can work on (the functions called matches...Contract).             *)
(***************************************************************************)
EXTENDS PatchText

\* The controller of the bundled plugins: one function, whose list of plugins
\* and marketplace can be told.
PluginController(t) == t.controller = "old"

DesktopFeatureEvent(t) == t.feature = "old"

AuthorityParts == {"runtime", "controller", "feature"}

AuthorityIntegrated(t) == All(t, {"controller", "feature"}, "new")

AuthorityComplete(t) == t.runtime = "new" /\ AuthorityIntegrated(t)

Authority(t) ==
    IF AuthorityComplete(t) THEN Keep(t)
    ELSE IF Has(t, AuthorityParts, "new") \/ ~PluginController(t) \/ ~DesktopFeatureEvent(t)
    THEN Throw(t)
    ELSE Keep(Put(t, AuthorityParts))

AuthorityContract(t) == ~Authority(t).threw

\* The write that turns the plugin off has to come after the message that
\* takes its permission away, from the one object that sends such messages.
PluginConfigMutations(t, form) == t.mutation = form

FeatureDispatches(t) == t.dispatch = "old"

DisableOrdered(t) == FeatureDispatches(t) /\ PluginConfigMutations(t, "new")

DisableOrdering(t) ==
    IF DisableOrdered(t) THEN Keep(t)
    ELSE IF FeatureDispatches(t) /\ PluginConfigMutations(t, "old") THEN Keep(Put(t, {"mutation"}))
    ELSE Throw(t)

DisableOrderingContract(t) == ~DisableOrdering(t).threw

CursorRegistration(t) == t.registration = "old"

CursorComplete(t) == All(t, {"bridge", "registration"}, "new")

AvatarCursor(t) ==
    IF CursorComplete(t) THEN Keep(t)
    ELSE IF t.bridge = "new" THEN Throw(t)
    ELSE IF CursorRegistration(t) THEN Keep(Put(t, {"bridge", "registration"}))
    ELSE Warn(t)

AvatarCursorContract(t) == CursorComplete(t) \/ (t.bridge # "new" /\ CursorRegistration(t))

MarketplaceSelector(t) == Rewrite(t, {"selector"})

\* A gate is known by its name; a bundle has gates of one shape or of the
\* looser one, which is only looked for when none of the first was rewritten.
PluginGate(t) ==
    LET s == MarketplaceSelector(t)
        gates == {"gate", "loose"}
        known == ~Has(s, gates, "odd") /\ (Has(s, gates, "new") \/ s.selector = "new")
    IN CASE t.literal = "none" -> Warn(t)
         [] s.gate = "old" -> Keep(Put(s, {"gate"}))
         [] s.loose = "old" -> Keep(Put(s, {"loose"}))
         [] known \/ s.mention = "none" -> Keep(s)
         [] OTHER -> Throw(t)

\* Takes out what earlier builds put in.
FeatureOverride(t) == Known(t, {"override", "variable"})

FeatureContract(t) == ~Has(FeatureOverride(t).text, {"override", "variable"}, "odd")

SettingsContract(t) == t.selection \in {"old", "new"}

RendererAvailability(t) == Demand(t, "selection")

HostPlatformContract(t) == t.host \in {"old", "new"}

HostPlatform(t) == Demand(t, "host")

InstallFlowContract(t) == t.detail \in {"old", "new"}

InstallFlow(t) == Demand(t, "detail")

HandlerValue(t, h) == t[h] # "none"

NativeDesktopApps(t) ==
    IF t.helper = "new" THEN Keep(t)
    ELSE IF ~HandlerValue(t, "apps") THEN KeepOrWarn(t, t.mention # "none")
    ELSE IF t.aliases = "none" THEN Warn(t)
    ELSE Keep(Put(t, {"helper", "apps", "icon"}))

NativeDesktopAppsContract(t) ==
    IF t.helper = "new" THEN All(t, {"apps", "icon"}, "new")
    ELSE HandlerValue(t, "apps") /\ t.aliases = "old"
=============================================================================
