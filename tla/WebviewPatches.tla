---------------------------- MODULE WebviewPatches ----------------------------
(***************************************************************************)
(* The text patches of src/scripts/patches/impl/webview/index.js, one       *)
(* operator each.                                                           *)
(***************************************************************************)
EXTENDS PatchText

SettingsSearchVisibility(t) == Single(t, "search")

OpaqueWindowsDefault(t) == Single(t, "theme")

\* The two halves of the header layout; a bundle with only one of them
\* patched, or with a half that is not known, is a miss (null in the code).
HeaderSlotMiss(t) == ~All(t, {"header", "slot"}, "new") /\ ~All(t, {"header", "slot"}, "old")

HeaderSlotSafeArea(t) == IF HeaderSlotMiss(t) THEN t ELSE Put(t, {"header", "slot"})

WindowControlsSafeArea(t) ==
    LET done == HeaderSlotSafeArea(Rewrite(t, {"inset"}))
        drift == HeaderSlotMiss(t) /\ t.header # "none"
        settled == done # t \/ (done.inset = "new" /\ Has(done, {"header", "slot"}, "new"))
    IN KeepOrWarn(done, drift \/ (~settled /\ t.inset # "none"))

TooltipWindowControlsCollision(t) == Sweep(t, {"middleware", "second"})

ThreadSidePanelNativeTooltip(t) == Single(t, "title")

AppSunset(t) == Single(t, "gate")

BrowserUseAvailability(t) == Single(t, "available")

BrowserUseExternalAvailability(t) == Single(t, "available")

BrowserUseHiddenHostOwnership(t) == Demand(t, "ownership")

\* Upstream routes a search result either through the cache and its handler or
\* through one route function: the first is tried, then the second.
ChatSearchHydration(t) ==
    IF t.helper = "new" \/ t.request = "none" THEN Keep(t)
    ELSE IF t.cache # "old"
         THEN IF t.request = "old" /\ t.route = "old"
              THEN Keep(Put(Rewrite(t, {"keys"}), {"helper", "route", "request"}))
              ELSE Warn(t)
    ELSE IF Has(t, {"keys", "request", "handler"}, "odd") THEN Warn(t)
    ELSE Keep(Put(t, {"helper", "keys", "request", "handler", "cache"}))

RemountStoreSeams == {"class", "active", "tabs", "reassociate", "register"}

BrowserUseWebviewRemountStore(t) == Together(t, RemountStoreSeams)

BrowserUseWebviewHostRecovery(t) == Together(t, {"component", "lifecycle", "effect"})

\* The list of features the app enables by default: an array, or a loop over
\* an array that adds one more ("good" when Linux has that one).  A loop that
\* adds nothing is taken as done, whatever its array lists.
AppServerFeatureEnablement(t) ==
    CASE t.sync = "none" -> Keep(t)
      [] t.static # "none" -> Keep(Rewrite(t, {"static"}))
      [] t.loop \in {"old", "good"} -> Keep(Rewrite(t, {"array", "loop"}))
      [] t.loop = "new" -> Keep(t)
      [] OTHER -> Warn(t)

AutomationUpdateEagerTool(t) == Single(t, "tools")

\* Mutant: the request is rewritten wherever the helper went.
AppServerBackfillWaitMutant(t) ==
    KeepOrWarn(Put(Rewrite(t, {"parser", "timeout"}), IF t.anchor = "old" THEN {"helper"} ELSE {}),
               t.parser = "old" /\ t.anchor # "old")

\* The helper goes to the top of the module, before the class of the request,
\* or before the parser; the request is only rewritten once the helper is in.
AppServerBackfillWait(t) ==
    LET known(p) == t[p] \in {"old", "new"}
        early == t.anchor = "old" \/ (t.timeout = "old" /\ t.class = "old")
        first == IF early THEN Put(t, {"helper"}) ELSE t
        parsed == IF t.parser = "old" THEN Put(first, {"parser", "helper"}) ELSE first
        timed == IF parsed.helper = "new" THEN Rewrite(parsed, {"timeout"}) ELSE parsed
    IN KeepOrWarn(timed, \/ (known("parser") \/ known("timeout")) /\ timed.helper # "new"
                         \/ Has(timed, {"parser", "timeout"}, "old"))

I18nGate(t) == Single(t, "gate")

ConfigWriteVersionConflict(t) == Sweep(t, {"write", "second"})

\* Two independent rewrites; a warning only when neither did anything and the
\* bundle is the one that knows subagents.
SubagentNicknameMetadata(t) ==
    LET done == Rewrite(t, {"shape", "nickname"})
    IN KeepOrWarn(done, /\ done = t
                        /\ ~(t.shape = "new" /\ t.nickname \in {"none", "new"})
                        /\ t.spawn # "none")

LocalEnvironmentActionModalDraft(t) ==
    TogetherIf(t, {"modal", "memo", "payload", "fields"}, "modal")

BrowserAnnotationScreenshot(t) == Demand(t, "highlight")

\* The preload bundle may be missing; otherwise its text is patched.
BrowserPagePreloadBundle(t) ==
    IF t.file = "none" THEN Warn(t) ELSE BrowserAnnotationScreenshot(t)

\* Which of the composers upstream has shipped this bundle has.
Composer(t, c) == t[c] = "old"

FooterHelperFits(t) == \E c \in {"permissions", "latest", "current", "status"} : Composer(t, c)

\* The places the footer is called from; older patched forms count as old.
FooterCalls(t) ==
    {p \in {"controls", "home", "goal", "row"} :
        CASE p = "controls" -> Composer(t, "latest")
          [] p = "home" -> Composer(t, "current")
          [] OTHER -> TRUE}

PersistentRateLimitFooter(t) ==
    IF t.helper # "new" /\ ~FooterHelperFits(t)
    THEN KeepOrWarn(t, t.composer # "none" \/ Has(t, {"home", "goal"}, "old"))
    ELSE Keep(Rewrite(Put(t, {"helper"}), FooterCalls(t)))

FastModeModelGuard(t) == Known(t, {"tiers", "second"})

SkillsListDedupe(t) ==
    IF t.helper = "new" \/ t.list # "old" THEN Keep(t)
    ELSE IF t.flatten = "odd" THEN Warn(t)
    ELSE Keep(Put(t, {"helper", "list", "flatten"}))
=============================================================================
