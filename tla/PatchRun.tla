------------------------------ MODULE PatchRun ------------------------------
(***************************************************************************)
(* One run of the patch command on an extracted app: the descriptors of    *)
(* the four phases in their order, the report, the session that may fail   *)
(* under it (MutationSession), the gate on critical failures, and the      *)
(* validation of the report in CI.                                         *)
(***************************************************************************)
EXTENDS Integers, Sequences, FiniteSets

CONSTANTS Main, Pre, Web, Post, \* the descriptors of the phases, in order
          Assets,               \* files of the extracted app beside the bundle
          Bundle,               \* the main bundle
          Target,               \* the files whose names a descriptor matches
          Required,             \* descriptors that are required of an official build
          Unique,               \* descriptors with an assetMatch
          Lenient,              \* descriptors whose status overlooks warnings
          Broken                \* descriptors whose predicates may throw

Phase(s) == {s[i] : i \in DOMAIN s}
Descriptors == Phase(Main) \cup Phase(Pre) \cup Phase(Web) \cup Phase(Post)

Files == Assets \cup {Bundle}
Places == {place \in Descriptors \X Files : place[2] \in Target[place[1]]}
Plan == Main \o Pre \o Web \o Post
UI == "main-process-ui"   \* the entry of the main bundle as a whole

\* A descriptor has one phase and an id of its own (assertUniquePatchIds), and a
\* status that overlooks warnings only where it is optional.
ASSUME PlanAssumption ==
    /\ {Main, Pre, Web, Post} \subseteq Seq(Descriptors)
    /\ \A i, j \in DOMAIN Plan : Plan[i] = Plan[j] => i = j
    /\ Phase(Web) \cap (Phase(Pre) \cup Phase(Post)) = {}
    /\ Required \subseteq Descriptors /\ UI \notin Descriptors
    /\ Required \cap Lenient = {}
    /\ Bundle \notin Assets
    /\ Target \in [Descriptors -> SUBSET Files]
    /\ \A d \in Phase(Main) : Target[d] = {Bundle}
    /\ \A d \in Phase(Pre) \cup Phase(Web) \cup Phase(Post) : Target[d] \subseteq Assets

VARIABLES site,     \* site[<<d, f>>]: the text a patch looks for: here, drifted, none
          on, here, \* descriptors that are enabled, that are for this target
          enforce,  \* --enforce-critical
          found,    \* whether there is a main bundle
          whole, half,     \* the edits that are in a file, completely or in part
          draft,    \* the main bundle in memory: whole and half edits
          pc, at,   \* where the run is, the next descriptor of the plan
          todo,     \* replacements that a webview descriptor still has to make
          report,   \* the status of each entry, "missing" while there is none
          failed,   \* the session failed
          exit      \* exit code, -1 while the run goes on
          
choice == <<site, on, here, enforce, found>>
app    == <<whole, half>>
vars   == <<choice, app, draft, pc, at, todo, report, failed, exit>>

Sites == {"here", "drifted", "none"}
Statuses == {"missing", "applied", "already-applied", "applied-with-warnings",
             "failed-required", "skipped-optional", "skipped-target", "skipped-disabled"}
Good == {"applied", "already-applied"}
NotApplicable == {"skipped-target", "skipped-disabled"}

-----------------------------------------------------------------------------
(* What a patch makes of one file, given the edits in it.                  *)

\* A patch finds its text and makes its edit, finds it made, or finds nothing
\* it knows of; a text that has drifted makes it warn, with nothing done or
\* the edits done that still fit, or throw.
Outcomes(d, f, w, h) ==
    LET same == [w |-> w, h |-> h, warn |-> FALSE, throw |-> FALSE]
        warned == [same EXCEPT !.warn = TRUE]
    IN IF d \in w \/ site[<<d, f>>] = "none" THEN {same}
       ELSE IF site[<<d, f>>] = "here" THEN {[same EXCEPT !.w = w \cup {d}]}
       ELSE {warned, [warned EXCEPT !.h = h \cup {d}], [same EXCEPT !.throw = TRUE]}

Changed(o, w, h) == o.w # w \/ o.h # h


\* Mutants: a change counts as success whatever it warned of; a change that
\* warned counts as none.
StatusOfMutant(changed, warned, required) ==
    IF changed THEN "applied" ELSE IF ~warned THEN "already-applied"
    ELSE IF required THEN "failed-required" ELSE "skipped-optional"
StatusOfSkippedMutant(changed, warned, required) ==
    IF ~warned THEN (IF changed THEN "applied" ELSE "already-applied")
    ELSE IF required THEN "failed-required" ELSE "skipped-optional"

\* patchStatusFromChange
StatusOf(changed, warned, required) ==
    IF ~warned THEN (IF changed THEN "applied" ELSE "already-applied")
    ELSE IF required THEN "failed-required"
    ELSE IF changed THEN "applied-with-warnings" ELSE "skipped-optional"

FailureStatus(d) == IF d \in Required THEN "failed-required" ELSE "skipped-optional"

\* normalizeDescriptorStatus
Normalized(d, s) ==
    IF d \in Required /\ s = "skipped-optional" THEN "failed-required" ELSE s

Recorded(d, s) == report' = [report EXCEPT ![d] = Normalized(d, s)]

CriticalFailures == {d \in Required \cup {UI} :
    report[d] \notin Good \cup NotApplicable \cup {"missing"}}

\* An entry for each required patch that is for this target, and for the
\* bundle; the profile is computed with everything enabled.
MissingEntries == {d \in (Required \cap here) \cup {UI} : report[d] = "missing"}

-----------------------------------------------------------------------------
Init ==
    /\ site \in [Places -> Sites]
    \* A patch of the main bundle is for a text that is there in some form.
    /\ \A d \in Phase(Main) : site[<<d, Bundle>>] # "none"
    /\ \/ on = Descriptors /\ here \in {Descriptors, Descriptors \ Lenient}
       \/ on = Descriptors \ Unique /\ here = Descriptors
    /\ enforce \in BOOLEAN /\ found \in BOOLEAN
    /\ whole = [f \in Files |-> {}] /\ half = [f \in Files |-> {}]
    /\ draft = [w |-> {}, h |-> {}, warn |-> FALSE]
    /\ pc = "bundle" /\ at = 1 /\ todo = <<>>
    /\ report = [d \in Descriptors \cup {UI} |-> "missing"]
    /\ failed = FALSE /\ exit = -1

\* Any call of the session may fail; nothing more is patched then.
Integrity ==
    /\ pc \in {"bundle", "main", "replace", "patch", "write"}
    /\ pc = "patch" => at <= Len(Plan) /\ Plan[at] \in Phase(Web)
    /\ failed' = TRUE /\ pc' = "close"
    /\ UNCHANGED <<choice, app, draft, at, todo, report, exit>>

FindBundle ==
    /\ pc = "bundle"
    /\ IF found
       THEN /\ pc' = "main" /\ UNCHANGED <<at, report>>
       ELSE /\ pc' = "patch" /\ at' = Len(Main) + 1
            /\ report' = [report EXCEPT ![UI] = "failed-required"]
    /\ UNCHANGED <<choice, app, draft, todo, failed, exit>>

\* A descriptor is not for this target, or is switched off.
Skip(d) ==
    /\ d \notin here \cap on
    /\ Recorded(d, IF d \notin here THEN "skipped-target" ELSE "skipped-disabled")

\* A predicate, or a status function, that throws is not caught by the engine.
Throws(d) ==
    /\ d \in Broken
    /\ pc' = "close" /\ exit' = 1

\* The main bundle is patched in memory, one descriptor after the other.
PatchMain ==
    LET d == Main[at] IN
    /\ pc = "main" /\ at <= Len(Main)
    /\ \/ /\ Throws(d)
          /\ UNCHANGED <<draft, report, at>>
       \/ /\ Skip(d)
          /\ at' = at + 1 /\ UNCHANGED <<draft, pc, exit>>
       \/ /\ d \in here \cap on
          /\ \E o \in Outcomes(d, Bundle, draft.w, draft.h) :
             /\ draft' = [w |-> o.w, h |-> o.h,
                          warn |-> draft.warn \/ (d \in Required /\ (o.warn \/ o.throw))]
             /\ Recorded(d, IF o.throw THEN FailureStatus(d)
                            ELSE StatusOf(Changed(o, draft.w, draft.h), o.warn,
                                          d \in Required))
          /\ at' = at + 1 /\ UNCHANGED <<pc, exit>>
    /\ UNCHANGED <<choice, app, todo, failed>>

\* The bundle is replaced once, after all its descriptors, by the token of the
\* read that began the run, and gets an entry of its own.
ReplaceMain ==
    /\ pc = "main" /\ at = Len(Main) + 1
    /\ whole' = [whole EXCEPT ![Bundle] = draft.w]
    /\ half' = [half EXCEPT ![Bundle] = draft.h]
    /\ report' = [report EXCEPT ![UI] =
            StatusOf(draft.w \cup draft.h # {}, draft.warn, TRUE)]
    /\ pc' = "patch"
    /\ UNCHANGED <<choice, draft, at, todo, failed, exit>>

\* The status of a patch of the extracted app.  A lenient descriptor looks only
\* at what changed, or is taken for applied because its patch does not tell.
ExtractedStatuses(d, changed, warned) ==
    {StatusOf(changed, warned /\ ~(d \in Lenient /\ changed), d \in Required)}
    \cup {s \in Good : d \in Lenient /\ ~changed}

\* A patch of the extracted app writes its files itself, and may have written
\* some of them when it throws.
PatchExtracted ==
    LET d == Plan[at] IN
    /\ pc = "patch" /\ at <= Len(Plan) /\ d \in Phase(Pre) \cup Phase(Post)
    /\ \/ Throws(d) /\ UNCHANGED <<app, report, at>>
       \/ Skip(d) /\ at' = at + 1 /\ UNCHANGED <<app, pc, exit>>
       \/ /\ d \in here \cap on
          /\ \E o \in [Target[d] -> UNION {Outcomes(d, f, whole[f], half[f]) : f \in Target[d]}] :
             /\ \A f \in Target[d] : o[f] \in Outcomes(d, f, whole[f], half[f])
             /\ LET threw == \E f \in Target[d] : o[f].throw
                    warned == \E f \in Target[d] : o[f].warn
                    changed == \E f \in Target[d] : Changed(o[f], whole[f], half[f])
                IN \E s \in ExtractedStatuses(d, changed, warned) :
                /\ whole' = [f \in Files |-> IF f \in Target[d] THEN o[f].w ELSE whole[f]]
                /\ half' = [f \in Files |-> IF f \in Target[d] THEN o[f].h ELSE half[f]]
                /\ Recorded(d, IF threw THEN FailureStatus(d) ELSE s)
          /\ at' = at + 1 /\ UNCHANGED <<pc, exit>>
    /\ UNCHANGED <<choice, draft, todo, failed>>

\* The asset that an assetMatch picks has to be the only one.
Matches(d) == IF d \in Unique THEN {f \in Target[d] : site[<<d, f>>] # "none"} ELSE Target[d]

\* All replacements of a webview descriptor are computed before the first is
\* made; a patch that throws leaves every asset alone.
PatchWeb ==
    LET d == Plan[at]
        m == Matches(d)
    IN
    /\ pc = "patch" /\ at <= Len(Plan) /\ d \in Phase(Web)
    /\ at' = at + 1
    /\ \/ Throws(d) /\ UNCHANGED <<todo, report>>
       \/ Skip(d) /\ UNCHANGED <<todo, pc, exit>>
       \/ /\ d \in here \cap on /\ m = {}
          /\ Recorded(d, FailureStatus(d)) /\ UNCHANGED <<todo, pc, exit>>
       \/ /\ d \in here \cap on /\ d \in Unique /\ Cardinality(m) > 1
          /\ Recorded(d, StatusOf(FALSE, TRUE, d \in Required)) /\ UNCHANGED <<todo, pc, exit>>
       \/ /\ d \in here \cap on /\ m # {} /\ ~(d \in Unique /\ Cardinality(m) > 1)
          /\ \E o \in [m -> UNION {Outcomes(d, f, whole[f], half[f]) : f \in m}] :
             /\ \A f \in m : o[f] \in Outcomes(d, f, whole[f], half[f])
             /\ IF \E f \in m : o[f].throw
                THEN Recorded(d, FailureStatus(d)) /\ UNCHANGED <<todo, pc>>
                ELSE LET changed == {f \in m : Changed(o[f], whole[f], half[f])} IN
                     /\ todo' = [f \in changed |-> o[f]]
                     /\ pc' = "write"
                     /\ Recorded(d, StatusOf(changed # {}, \E f \in m : o[f].warn,
                                             d \in Required))
          /\ UNCHANGED exit
    /\ UNCHANGED <<choice, app, draft, failed>>

\* One replacement after the other.
Replace ==
    /\ pc = "write"
    /\ IF DOMAIN todo = {}
       THEN pc' = "patch" /\ todo' = <<>> /\ UNCHANGED app
       ELSE \E f \in DOMAIN todo :
            /\ whole' = [whole EXCEPT ![f] = todo[f].w]
            /\ half' = [half EXCEPT ![f] = todo[f].h]
            /\ todo' = [g \in DOMAIN todo \ {f} |-> todo[g]]
            /\ UNCHANGED pc
    /\ UNCHANGED <<choice, draft, at, report, failed, exit>>

Finished ==
    /\ pc = "patch" /\ at = Len(Plan) + 1
    /\ pc' = "close"
    /\ UNCHANGED <<choice, app, draft, at, todo, report, failed, exit>>


\* Mutant: only the gate and the engine's own errors decide.
CloseAndExitMutant ==
    /\ pc = "close"
    /\ failed' \in {failed, TRUE}
    /\ exit' = IF exit = 1 \/ (enforce /\ CriticalFailures # {}) THEN 1 ELSE 0
    /\ pc' = "exited"
    /\ UNCHANGED <<choice, app, draft, at, todo, report>>

\* The session is closed whatever happened; closing may fail in its turn.  The
\* gate on critical failures comes after the report has been written.
CloseAndExit ==
    /\ pc = "close"
    /\ failed' \in {failed, TRUE}
    /\ exit' = IF failed' \/ exit = 1 \/ (enforce /\ CriticalFailures # {}) THEN 1 ELSE 0
    /\ pc' = "exited"
    /\ UNCHANGED <<choice, app, draft, at, todo, report>>

Done == pc = "exited" /\ UNCHANGED vars

Next == \/ Integrity \/ FindBundle \/ PatchMain \/ ReplaceMain \/ PatchExtracted
        \/ PatchWeb \/ Replace \/ Finished \/ CloseAndExit \/ Done

Spec == Init /\ [][Next]_vars

-----------------------------------------------------------------------------
TypeOK ==
    /\ whole \in [Files -> SUBSET Descriptors] /\ half \in [Files -> SUBSET Descriptors]
    /\ report \in [Descriptors \cup {UI} -> Statuses]
    /\ at \in 1..(Len(Plan) + 1) /\ exit \in {-1, 0, 1} /\ failed \in BOOLEAN

\* The report of CI's validation passes.
Validated == CriticalFailures = {} /\ MissingEntries = {}

\* A file that still holds what the patch is for, not or only half patched.
Unpatched(d) == {f \in Target[d] : site[<<d, f>>] # "none" /\ d \notin whole[f]}

\* An app that passes the gate, or whose report passes the validation, has
\* every edit that is required of it, wherever it is called for.
AcceptedIsPatched ==
    exit = 0 /\ (enforce \/ Validated) =>
        /\ found
        /\ \A d \in Required \cap here \cap on : Unpatched(d) = {}

\* What the report of a run that ended well says of a patch is true of the
\* files: a success left nothing half done, what was skipped left no trace.
\* Patches of the extracted app write for themselves and are not covered.
ReportIsTrue ==
    exit = 0 => \A d \in Phase(Main) \cup Phase(Web) :
        /\ report[d] \in Good => Unpatched(d) = {} /\ \A f \in Files : d \notin half[f]
        /\ report[d] \in {"skipped-optional", "skipped-target", "skipped-disabled"} =>
             \A f \in Files : d \notin whole[f] \cup half[f]

\* After a failure of the session nothing is written, and the run ends badly
\* even when every patch had succeeded.
IntegrityRejects == [][failed => app' = app /\ exit' # 0]_vars
=============================================================================
