------------------------------ MODULE MainPatches ------------------------------
(***************************************************************************)
(* The text patches of the main process kept directly in                    *)
(* src/scripts/patches/impl: the automation schedule, the avatar overlay,   *)
(* the bootstrap, projectless documents, the Chrome plugin and the actions  *)
(* a second launch hands over.                                              *)
(***************************************************************************)
EXTENDS PatchText

(* automation-schedule.js *)

ScheduleSeams == {"time", "parser", "summary"}

\* The helper functions as one block, replaced as a whole.
AutomationHelperBlock(t) == t.block = "old"

\* Two variants of a later bundle, each with three seams: the text as it was
\* minified then, and the same with names the patch reads from the bundle.
CurrentMultiTime(t) == All(t, ScheduleSeams, "old")

GenericMultiTime(t) == \A p \in ScheduleSeams : t[p] \in {"old", "renamed"}

AutomationSchedule(t) ==
    CASE t.helper = "new" -> Keep(t)
      [] AutomationHelperBlock(t) -> Keep(Put(t, {"helper", "block"}))
      [] CurrentMultiTime(t) \/ GenericMultiTime(t) -> Keep(Put(t, ScheduleSeams \cup {"helper"}))
      [] OTHER -> Warn(t)

-----------------------------------------------------------------------------
(* avatar-overlay.js *)

\* The methods are those of the overlay's class, which comes after its route.
AvatarMethod(t, m) == t[m] = "old"

\* Every step is taken or reported, whatever became of the others.
AvatarSteps == {"startDrag", "endDrag", "layout", "show", "cleanup", "tray"}

\* The setter of the element size is reported only when it is missing, and the
\* window options and the flag of a new window never are.
AvatarQuiet(t) ==
    KeepOrWarn(Rewrite(t, {"size", "options"}), t.size = "none")

AvatarPolicyUnknown(t) == t.methods # "new" /\ t.policy = "odd"

\* The new methods come with the pointer policy: a policy in another shape is
\* given up on, but a bundle that holds no such policy goes on without them.
AvatarOverlay(t) ==
    IF t.route = "none" THEN Keep(t)
    ELSE IF t.aliases = "none" \/ AvatarPolicyUnknown(t) THEN Warn(t)
    ELSE LET start == IF t.methods # "new" /\ t.policy = "old"
                      THEN Put(t, {"policy", "methods"}) ELSE t
             quiet == AvatarQuiet(start)
             steps == {m \in AvatarSteps : AvatarMethod(quiet.text, m)}
         IN KeepOrWarn(Put(quiet.text, steps),
                       quiet.warned \/ \E m \in AvatarSteps \ steps : t[m] # "new")

-----------------------------------------------------------------------------
(* bootstrap.js *)

\* The bundle of the bootstrap has to be the one its entry names.
BootstrapBundle(t) == t.entry = "old" /\ t.bundles = "one"

BootstrapMultiInstance(t) == Single(t, "lock")

BootstrapFailureExit(t) == Demand(t, "handler")

BootstrapBundles(t) ==
    IF ~BootstrapBundle(t) THEN Throw(t)
    ELSE Then(BootstrapMultiInstance(t), BootstrapFailureExit)

-----------------------------------------------------------------------------
(* projectless-documents.js *)

ProjectlessDocuments(t) ==
    IF t.helper = "new" \/ t.resolver = "none" THEN Keep(t)
    ELSE IF t.resolver = "odd" THEN Warn(t)
    ELSE Keep(Put(t, {"helper", "resolver"}))

\* A build has to hold a bundle to patch.
ProjectlessDocumentsAssets(t) == IF t.resolver = "none" THEN Warn(t) ELSE ProjectlessDocuments(t)

-----------------------------------------------------------------------------
(* chrome-plugin.js *)

\* A bundle that speaks of external browsers and has no gate the patch knows
\* must not be built.
ChromePluginAutoInstall(t) ==
    CASE Has(t, {"gate", "second"}, "old") \/ Has(t, {"gate", "second"}, "new") ->
             Keep(Rewrite(t, {"gate", "second"}))
      [] t.external # "none" -> Throw(t)
      [] OTHER -> Warn(t)

ChromeAppServerSourcePath(t) == Single(t, "isolation")

\* The three paths of one resolver, each rewritten where it is found.
ModernChromeRuntime(t) == Rewrite(t, {"codexPath", "nodePath", "replPath"})

ChromeCodexAppServer(t) == Rewrite(t, {"codexServer"})

ChromeAppServer(t) == Rewrite(t, {"server"})

RuntimeVariants == {"codexPath", "nodePath", "replPath", "codexServer", "server"}

\* Every variant is taken that fits, and the helper goes in with the first of
\* them.  The resolvers of older bundles are only looked for by a run that has
\* changed nothing, the path of the app server included.
ChromeNativeHostRuntime(t) ==
    LET path == ChromeAppServerSourcePath(t)
        taken == ChromeAppServer(ChromeCodexAppServer(ModernChromeRuntime(path.text)))
    IN CASE t.runtime = "new" /\ t.isolation = "new" -> Keep(t)
         [] t.runtime # "new" /\ t.aliases = "none" -> Warn(t)
         [] taken # path.text -> [path EXCEPT !.text = Put(taken, {"runtime"})]
         [] path.text # t -> path
         [] t.resolver = "old" -> [path EXCEPT !.text = Put(t, {"runtime", "resolver"})]
         [] OTHER -> Warn(t)

-----------------------------------------------------------------------------
(* launch-actions.js *)

\* The helper goes in before the hook is looked for, and stays without it.
SettingsPersistence(t) ==
    CASE t.state = "none" -> Keep(t)
      [] t.helper # "new" /\ t.aliases = "none" -> Warn(t)
      [] OTHER -> Then(Keep(Put(t, {"helper"})), LAMBDA s : Single(s, "state"))

\* Of the handlers in the bundle, the first that opens a window the way the
\* patch knows and whose surroundings name what the new handler needs.
LaunchHandlers(t) == {h \in {"handler", "second"} : t[h] = "old"}

SemanticLaunchAction(t) ==
    LET h == IF t.handler = "old" THEN "handler" ELSE "second"
    IN Put(t, {h, "quit", "socket", "prewarm"})

\* Mutant: the patch does not look for its own work.
LaunchActionArgsMutant(t) ==
    IF LaunchHandlers(t) # {} THEN Keep(SemanticLaunchAction(t))
    ELSE KeepOrWarn(t, t.launching # "none" /\ t.quit # "new")

LaunchActionArgs(t) ==
    CASE t.quit = "new" /\ t.socket = "new" -> Keep(t)
      [] LaunchHandlers(t) # {} -> Keep(SemanticLaunchAction(t))
      [] OTHER -> KeepOrWarn(t, t.launching # "none")

HotkeyWindowPrewarm(t) == IF t.prewarm = "none" THEN Keep(t) ELSE Demand(t, "startup")

LaunchActions(t) == Then(LaunchActionArgs(t), HotkeyWindowPrewarm)
=============================================================================
