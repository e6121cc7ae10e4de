----------------------------- MODULE ShellPatches -----------------------------
(***************************************************************************)
(* The text patches of src/scripts/patches/impl/main-process: the quit      *)
(* sequence, notifications, the tray, windows, the host's file manager and  *)
(* terminal, and the browser the app drives.                                *)
(***************************************************************************)
EXTENDS PatchText

(* quit-lifecycle.js *)

QuitGuard(t) ==
    IF t.guard = "new" THEN Keep(t)
    ELSE IF t.prefix = "old" THEN Keep(Put(t, {"guard"}))
    ELSE KeepOrWarn(t, t.prefix = "odd")

\* A listener counts when its two ways to drain name the same parts.
WillQuitDrain(t, l) == t[l] = "old"

WillQuitListeners(t) == {l \in {"listener", "second"} : WillQuitDrain(t, l)}

WillQuitDrainTimeout(t) ==
    IF t.drain = "new" THEN Keep(t)
    ELSE IF t.listener = "old" /\ WillQuitListeners(t) = {"listener"}
    THEN Keep(Put(t, {"drain", "listener"}))
    ELSE Warn(t)

\* The condition before the prompt and the answer to it are independent.
ExplicitQuitPromptBypass(t) ==
    KeepOrWarn(Rewrite(t, {"before", "accepted"}),
               ~Has(t, {"before", "accepted"}, "old") /\ t.before = "odd")

ExplicitTrayQuit(t) == Single(t, "tray")

ExplicitIpcQuit(t) == Single(t, "message")

-----------------------------------------------------------------------------
(* notifications.js *)

NotificationActions(t) ==
    IF t.bridge = "new" THEN Keep(t)
    ELSE IF t.factory = "old" THEN Keep(Put(t, {"bridge", "factory"}))
    ELSE Warn(t)

-----------------------------------------------------------------------------
(* tray.js *)

\* The one constructor of a tray, the one factory around it, and the class of
\* the wrapper that factory makes.
TrayConstructor(t) == t.constructor \in {"old", "new"}

TrayFactory(t) == t.factory = "old"

TrayWrapper(t) == t.wrapper = "old"

TrayReadiness(t) == t.ready \in {"old", "new"}

TraySeams == {"close", "ready", "icon", "constructor"}

\* All of the tray or nothing of it.  The helper may be there already: the
\* quit guard brings it.
Tray(t) ==
    IF /\ Has(t, {"close"}, "old") \/ Has(t, {"close"}, "new")
       /\ TrayConstructor(t) /\ TrayFactory(t) /\ TrayWrapper(t) /\ TrayReadiness(t)
       /\ t.icon \in {"old", "new"}
       /\ t.register # "odd"
    THEN Keep(Put(t, TraySeams \cup {"register"}))
    ELSE Warn(t)

\* One handler for the page's requests, moved out of a list it does not
\* belong to and put before the first of the keys it knows.
BuildInfoRequestHandler(t) ==
    IF t.request = "nested" THEN [t EXCEPT !.request = IF t.keys = "old" THEN "new" ELSE "none"]
    ELSE IF t.request = "none" /\ t.keys = "old" THEN Put(t, {"request"})
    ELSE t

\* The help menu is only written to when the helper is in, or can be: it goes
\* before the class of the tray's menu, or before the help menu itself.
BuildInfoHelpers(t) == t.helper = "new" \/ t.menu \in {"old", "new"} \/ t.help \in {"old", "new"}

BuildInfoTray(t) ==
    LET menus == Rewrite(t, {"menu"} \cup (IF BuildInfoHelpers(t) THEN {"help"} ELSE {}))
        done == BuildInfoRequestHandler(menus)
        warned == t.help = "odd" \/ (t.menu \notin {"old", "new"} /\ t.help = "none")
    IN CASE t.helper # "new" /\ t.aliases = "none" -> Warn(t)
         [] done = t \/ t.helper = "new" -> KeepOrWarn(done, warned)
         [] BuildInfoHelpers(t) -> KeepOrWarn(Put(done, {"helper"}), warned)
         [] OTHER -> Warn(t)

\* In later bundles bootstrap.js takes the lock and hands the arguments over.
SingleInstance(t) ==
    LET unknown(p) == t[p] \notin {"old", "new"} /\ t.handover = "none"
    IN KeepOrWarn(Rewrite(t, {"lock", "handler"}), unknown("lock") \/ unknown("handler"))

-----------------------------------------------------------------------------
(* window.js *)

DefinedWindowOptions(t) == Rewrite(t, {"parent"})

\* A window of the primary appearance whose option cannot be told from it
\* must not be built.
PrimaryFocusable(t) ==
    IF t.focusable = "new" THEN Keep(t)
    ELSE IF t.focusable = "odd" THEN Throw(t)
    ELSE Keep(Rewrite(t, {"focusable"}))

\* Without an icon among the assets the option that names it is left alone.
WindowIcon(t) ==
    IF t.asset = "none" THEN Keep(t)
    ELSE KeepOrWarn(Rewrite(t, {"menubar"}), t.menubar \notin {"old", "new"} /\ t.ready = "none")

WindowOptions(t) ==
    LET icon == WindowIcon(t)
    IN Then(Keep(DefinedWindowOptions(icon.text)),
            LAMBDA s : LET done == PrimaryFocusable(s)
                       IN [done EXCEPT !.warned = icon.warned])

\* The helper goes in after the one upstream has, whose names it takes.  What
\* follows is done whether or not the primary title bar was just rewritten.
NativeTitlebar(t) ==
    LET start == IF t.titlebar = "old" THEN Put(t, {"titlebar", "helper"}) ELSE t
    IN CASE t.titlebar \notin {"old", "new"} -> Warn(t)
         [] t.titlebar = "old" /\ t.aliases = "none" -> Warn(t)
         [] t.titlebar = "new" /\ t.helper = "none" -> Warn(t)
         [] OTHER -> KeepOrWarn(Rewrite(start, {"zoom", "sync"}), t.sync = "odd")

WindowMenu(t) == Single(t, "menu")

ApplicationMenu(t) == Keep(Rewrite(t, {"menu"}))

\* One item of the menu and one handler that speak of the same browser.
AppReloadShortcuts(t) ==
    IF t.reload = "new" THEN Keep(t)
    ELSE IF All(t, {"enabled", "handler"}, "old") /\ t.second # "old"
    THEN Keep(Put(t, {"enabled", "handler", "reload"}))
    ELSE Warn(t)

\* Three patches work on the hook that shows a window (`w.once(...)`).  Upstream
\* may run it under a condition, the window having been maximized before:
\*   held   the condition stands right before the hook
\*   cut    the icon was put between the two, which frees the hook of it
\*   off    the hook never runs
SetIcon(t) ==
    CASE t.icon = "new" \/ t.asset = "none" -> Keep(t)
      [] t.ready = "none" -> Warn(t)
      [] OTHER -> Keep([Put(t, {"icon"}) EXCEPT !.guard = IF @ = "held" THEN "cut" ELSE @])

\* The condition is read from the text before the icon, which has to be near.
MaximizedState(t) == IF t.guard = "cut" /\ t.repaint = "none" THEN "held" ELSE "off"

ReadyToShowWindowState(t) ==
    IF t.maximize = "old"
    THEN Keep(IF t.guard \in {"held", "off"} THEN t ELSE [t EXCEPT !.guard = MaximizedState(t)])
    ELSE KeepOrWarn(t, t.maximize = "odd")

\* A condition right before the hook stays with the hook.
ResizeRepaint(t) == IF t.ready = "none" THEN Keep(t) ELSE Keep(Put(t, {"repaint", "helper"}))

\* In the order of the catalogue (70, 75, 78).
ReadyToShowHook(t) == Then(Then(SetIcon(t), ReadyToShowWindowState), ResizeRepaint)

OpaqueBackground(t) ==
    IF \A p \in {"surface", "function"} : t[p] \in {"old", "new"}
    THEN Keep(Rewrite(t, {"surface", "function"}))
    ELSE Warn(t)

-----------------------------------------------------------------------------
(* misc.js *)

FileManagerBlock(t) == t.block = "old"

FileManager(t) ==
    IF t.block = "new" THEN Keep(t)
    ELSE IF FileManagerBlock(t) /\ t.aliases = "old" THEN Keep(Put(t, {"block"}))
    ELSE Warn(t)

X11ProjectPicker(t) == Single(t, "picker")

\* The worker may be missing from a build; otherwise as for the main bundle.
WorkerFileManager(t) == IF t.worker = "none" THEN Warn(t) ELSE FileManager(t)

TerminalUserPath(t) ==
    CASE All(t, {"helper", "builder"}, "new") -> Keep(t)
      [] t.builder = "old" /\ t.session = "none" -> Warn(t)
      [] t.builder \in {"old", "new"} -> Keep(Put(t, {"helper", "builder"}))
      [] OTHER -> KeepOrWarn(t, t.builder = "odd")

TerminalHostEnvironment(t) ==
    IF t.helper = "new" THEN Keep(t)
    ELSE IF t.builder = "old" THEN Keep(Put(t, {"helper", "builder"}))
    ELSE KeepOrWarn(t, t.builder = "odd")

\* A bundle holds the loader of the login shell, the starter of the CLI, both
\* or neither, and those it holds are all rewritten or none is.
HostProcessEnvironment(t) ==
    CASE t.helper = "new" \/ All(t, {"shell", "cli"}, "none") -> Keep(t)
      [] Has(t, {"shell", "cli"}, "odd") -> Warn(t)
      [] OTHER -> Keep(Put(Rewrite(t, {"shell", "cli"}), {"helper"}))

GitOriginsSourceFallback(t) == Single(t, "guard")

\* A bundle whose loader copes with the missing binding by itself is done.
OwlFeatureBindingFallback(t) ==
    CASE t.owl = "none" \/ t.loader \in {"new", "safe"} -> Keep(t)
      [] OTHER -> Demand(t, "loader")

RemoteControlConfigPreservation(t) == Single(t, "stripper")

XdgDocumentsDir(t) ==
    CASE t.helper = "new" -> Keep(t)
      [] t.fs = "none" -> Warn(t)
      [] t.resolver = "old" -> Keep(Put(t, {"helper", "resolver"}))
      [] OTHER -> KeepOrWarn(t, t.resolver = "odd")

\* Mutant: silent as soon as one of the two is rewritten.
FeatureEnablementHandlerMutant(t) == Known(t, {"internal", "fetch"})

FeatureEnablementHandler(t) ==
    KeepOrWarn(Rewrite(t, {"internal", "fetch"}), Has(t, {"internal", "fetch"}, "odd"))

-----------------------------------------------------------------------------
(* browser.js *)

CopySeams == {"copy", "stage", "parent"}

\* Each helper by its name, every seam once, and all of one function.
CopyPermissionsContract(t) == All(t, CopySeams \cup {"helpers"}, "new")

\* The seams are looked for in this order; a bundle without the feature of
\* one is left alone without a word.
BundledPluginCopyPermissions(t) ==
    LET absent(p) == t[p] # "old"
        first == CHOOSE p \in CopySeams :
                     absent(p) /\ CASE p = "copy" -> TRUE
                                    [] p = "stage" -> ~absent("copy")
                                    [] OTHER -> ~absent("copy") /\ ~absent("stage")
    IN CASE CopyPermissionsContract(t) -> Keep(t)
         [] t.helpers = "new" -> Throw(t)
         [] All(t, CopySeams, "old") -> Keep(Put(t, CopySeams \cup {"helpers"}))
         [] OTHER -> KeepOrWarn(t, t[first] = "odd")

ReconcileSeams == {"snapshot", "hash", "worker", "boundary"}

\* All of the reconciler in the order the patch knows, or nothing.
ReconcileStaleSnapshot(t) ==
    CASE t.marker = "new" \/ t.queue = "none" -> Keep(t)
      [] t.queue = "old" /\ All(t, ReconcileSeams, "old") -> Keep(Put(t, ReconcileSeams \cup {"marker"}))
      [] OTHER -> Warn(t)

\* Two independent rewrites; the trusted hashes bring their helper along.
NodeReplApproval(t) ==
    LET hashes == t.hashes = "old" /\ t.aliases = "old"
        ps == (IF hashes THEN {"hashes", "helper"} ELSE {})
              \cup (IF t.config = "old" THEN {"config"} ELSE {})
    IN KeepOrWarn(Put(t, ps), \/ ~hashes /\ t.hashes \in {"old", "odd"}
                              \/ t.config = "odd")

ProducerParts == {"keys", "builder", "environment", "producer", "service", "fields", "modes"}

\* What of the producer is not there exactly once, if anything.
ProducerContractFailure(t) == {p \in ProducerParts : t[p] # "old"}

\* A required patch that changes nothing: it refuses a bundle without the
\* contract.
NodeReplSecurityContext(t) == IF ProducerContractFailure(t) = {} THEN Keep(t) ELSE Throw(t)

BrowserRouteLiveness(t) == Single(t, "route")

BrowserSocketDirectory(t) ==
    LET done == t.helper = "new" /\ t.listener = "new"
    IN CASE done -> Keep(t)
         [] t.helper = "new" \/ t.listener = "new" -> Warn(t)
         [] All(t, {"directory", "listener"}, "old") -> Keep(Put(t, {"helper", "directory", "listener"}))
         [] OTHER -> KeepOrWarn(t, Has(t, {"directory", "listener"}, "odd"))

ExternalOpenEnv(t) ==
    IF ~Has(t, {"require", "second"}, "old") /\ ~Has(t, {"require", "second"}, "new")
    THEN Warn(t)
    ELSE Keep(Put(Rewrite(t, {"require", "second"}), {"helper"}))
=============================================================================
