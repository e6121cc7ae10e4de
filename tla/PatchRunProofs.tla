--------------------------- MODULE PatchRunProofs ---------------------------
(***************************************************************************)
(* What a patch run reports is what it did, and an app that it accepts has *)
(* every edit that is required of it.  Proved for every plan, every set of *)
(* files and every state the texts may be in.                              *)
(***************************************************************************)
EXTENDS PatchRun, TLAPS

\* Neither the session nor a predicate has ended the run.
Live == ~failed /\ exit # 1

\* The edits of a file as the report sees them: those of the bundle are in
\* memory until it is replaced, those of an asset wait in todo to be written.
InMemory == pc \in {"bundle", "main"}
Wholes == [f \in Files |-> IF f \in DOMAIN todo THEN todo[f].w
                           ELSE IF f = Bundle /\ InMemory THEN draft.w ELSE whole[f]]
Halves == [f \in Files |-> IF f \in DOMAIN todo THEN todo[f].h
                           ELSE IF f = Bundle /\ InMemory THEN draft.h ELSE half[f]]

Typed ==
    /\ TypeOK
    /\ draft \in [w : SUBSET Descriptors, h : SUBSET Descriptors, warn : BOOLEAN]
    /\ DOMAIN todo \subseteq Assets
    /\ \A f \in DOMAIN todo : todo[f].w \subseteq Descriptors /\ todo[f].h \subseteq Descriptors
    /\ pc \in {"bundle", "main", "patch", "write", "close", "exited"}

\* Where the run is, and what has been done by then.
Shape ==
    /\ pc = "bundle" => /\ at = 1
                        /\ draft = [w |-> {}, h |-> {}, warn |-> FALSE]
                        /\ whole = [f \in Files |-> {}] /\ half = [f \in Files |-> {}]
                        /\ report = [d \in Descriptors \cup {UI} |-> "missing"]
    /\ pc = "main" => at <= Len(Main) + 1 /\ found
    /\ pc \in {"patch", "write"} => at > Len(Main)
    /\ pc \notin {"close", "exited"} => ~failed /\ exit = -1
    /\ pc = "close" => exit # 0
    /\ exit = 0 => pc = "exited" /\ ~failed
    /\ Live /\ pc # "write" => DOMAIN todo = {}
    /\ Live /\ pc \in {"close", "exited"} => at = Len(Plan) + 1
    /\ Live /\ pc # "bundle" /\ ~found => report[UI] = "failed-required"
    /\ exit = 0 /\ enforce => CriticalFailures = {}

\* The descriptors still to come have left no trace.
Untouched ==
    \A i \in at..Len(Plan), f \in Files : Plan[i] \notin Wholes[f] \cup Halves[f]

Told(d) ==
    /\ d \in here \cap on => report[d] \notin NotApplicable
    /\ report[d] \in Good /\ (d \notin Lenient \/ d \in Phase(Main) \cup Phase(Web)) =>
         \A f \in Target[d] : site[<<d, f>>] = "none" \/ d \in Wholes[f]
    /\ d \in Phase(Main) \cup Phase(Web) =>
         /\ report[d] \in Good => \A f \in Files : d \notin Halves[f]
         /\ report[d] \in {"skipped-optional"} \cup NotApplicable =>
              \A f \in Files : d \notin Wholes[f] \cup Halves[f]

\* The entries of the descriptors that have been are true of the files.
Reported ==
    \A i \in 1..(at - 1), d \in Descriptors :
        d = Plan[i] => /\ i > Len(Main) \/ found => report[d] # "missing"
                       /\ Told(d)

Inv == Typed /\ Shape /\ (Live => Untouched /\ Reported)

-----------------------------------------------------------------------------
(* The plan.                                                               *)

LEMMA PlanIsSequence ==
    /\ Plan \in Seq(Descriptors) /\ Len(Plan) \in Nat /\ DOMAIN Plan = 1..Len(Plan)
    /\ Len(Main) \in Nat /\ Len(Main) <= Len(Plan)
    /\ \A i \in 1..Len(Main) : Plan[i] = Main[i]
  <1>1. /\ Main \in Seq(Descriptors) /\ Pre \in Seq(Descriptors)
        /\ Web \in Seq(Descriptors) /\ Post \in Seq(Descriptors)
    BY PlanAssumption
  <1>2. Main \o Pre \in Seq(Descriptors) /\ Main \o Pre \o Web \in Seq(Descriptors)
        /\ Plan \in Seq(Descriptors)
    BY <1>1 DEF Plan
  <1>3. /\ Len(Main \o Pre) = Len(Main) + Len(Pre)
        /\ Len(Main \o Pre \o Web) = Len(Main \o Pre) + Len(Web)
        /\ Len(Plan) = Len(Main \o Pre \o Web) + Len(Post)
        /\ Len(Main) \in Nat /\ Len(Pre) \in Nat /\ Len(Web) \in Nat /\ Len(Post) \in Nat
    BY <1>1, <1>2 DEF Plan
  <1>4. ASSUME NEW i \in 1..Len(Main) PROVE Plan[i] = Main[i]
    <2>1. (Main \o Pre)[i] = Main[i]
      BY <1>1, <1>3
    <2>2. (Main \o Pre \o Web)[i] = (Main \o Pre)[i]
      BY <1>1, <1>2, <1>3
    <2>3. Plan[i] = (Main \o Pre \o Web)[i]
      BY <1>1, <1>2, <1>3 DEF Plan
    <2> QED
      BY <2>1, <2>2, <2>3
  <1> QED
    BY <1>2, <1>3, <1>4

\* A descriptor has one place in the plan (the tables name every id once).
LEMMA PlanIsInjective ==
    ASSUME NEW i \in 1..Len(Plan), NEW j \in 1..Len(Plan), Plan[i] = Plan[j]
    PROVE  i = j
  BY PlanAssumption, PlanIsSequence

\* Every descriptor has its place in the plan.
LEMMA Placed ==
    ASSUME NEW d \in Descriptors
    PROVE  \E i \in 1..Len(Plan) : Plan[i] = d
  <1>1. /\ Main \in Seq(Descriptors) /\ Pre \in Seq(Descriptors)
        /\ Web \in Seq(Descriptors) /\ Post \in Seq(Descriptors)
    BY PlanAssumption
  <1> DEFINE A == Main \o Pre
             B == A \o Web
  <1>2. A \in Seq(Descriptors) /\ B \in Seq(Descriptors) /\ Plan = B \o Post
    BY <1>1 DEF Plan
  <1>3. /\ Len(A) = Len(Main) + Len(Pre) /\ Len(B) = Len(A) + Len(Web)
        /\ Len(Plan) = Len(B) + Len(Post)
        /\ Len(Main) \in Nat /\ Len(Pre) \in Nat /\ Len(Web) \in Nat /\ Len(Post) \in Nat
    BY <1>1, <1>2
  <1>4. ASSUME NEW i \in 1..Len(A) PROVE i \in 1..Len(B) /\ B[i] = A[i]
    BY <1>1, <1>2, <1>3
  <1>5. ASSUME NEW i \in 1..Len(B) PROVE i \in 1..Len(Plan) /\ Plan[i] = B[i]
    <2> HIDE DEF B
    <2> QED BY <1>1, <1>2, <1>3
  <1>6. CASE d \in Phase(Main)
    <2>1. PICK i \in 1..Len(Main) : Main[i] = d
      BY <1>1, <1>6 DEF Phase
    <2>2. i \in 1..Len(A) /\ A[i] = d
      BY <1>1, <1>3, <2>1
    <2> QED BY <1>4, <1>5, <2>2
  <1>7. CASE d \in Phase(Pre)
    <2>1. PICK i \in 1..Len(Pre) : Pre[i] = d
      BY <1>1, <1>7 DEF Phase
    <2>2. Len(Main) + i \in 1..Len(A) /\ A[Len(Main) + i] = d
      BY <1>1, <1>3, <2>1
    <2> QED BY <1>4, <1>5, <2>2
  <1>8. CASE d \in Phase(Web)
    <2>1. PICK i \in 1..Len(Web) : Web[i] = d
      BY <1>1, <1>8 DEF Phase
    <2>2. Len(A) + i \in 1..Len(B) /\ B[Len(A) + i] = d
      <3> HIDE DEF A
      <3> QED BY <1>1, <1>2, <1>3, <2>1
    <2> QED BY <1>5, <2>2
  <1>9. CASE d \in Phase(Post)
    <2>1. PICK i \in 1..Len(Post) : Post[i] = d
      BY <1>1, <1>9 DEF Phase
    <2>2. Len(B) + i \in 1..Len(Plan) /\ Plan[Len(B) + i] = d
      <3> HIDE DEF B
      <3> QED BY <1>1, <1>2, <1>3, <2>1
    <2> QED BY <2>2
  <1> QED
    BY <1>6, <1>7, <1>8, <1>9 DEF Descriptors

\* The bundle has the targets of the first phase, and no other descriptor.
LEMMA Targets ==
    /\ \A d \in Descriptors : Target[d] \subseteq Files
    /\ \A d \in Phase(Main) : d \in Descriptors /\ Target[d] = {Bundle}
    /\ \A d \in Phase(Pre) \cup Phase(Web) \cup Phase(Post) :
         d \in Descriptors /\ Target[d] \subseteq Assets /\ Bundle \notin Target[d]
    /\ Bundle \in Files /\ Assets \subseteq Files
  BY PlanAssumption DEF Descriptors, Files

-----------------------------------------------------------------------------
(* What a patch makes of a file, and the status it earns.                  *)

LEMMA OutcomeEdits ==
    ASSUME NEW d, NEW f, NEW w, NEW h, NEW o \in Outcomes(d, f, w, h)
    PROVE  /\ w \subseteq o.w /\ o.w \subseteq w \cup {d}
           /\ h \subseteq o.h /\ o.h \subseteq h \cup {d}
           /\ o.warn \in BOOLEAN /\ o.throw \in BOOLEAN
           /\ ~o.warn /\ ~o.throw => (site[<<d, f>>] = "none" \/ d \in o.w) /\ o.h = h
           /\ o.throw => o.w = w /\ o.h = h
  <1> DEFINE same == [w |-> w, h |-> h, warn |-> FALSE, throw |-> FALSE]
  <1>1. o \in {same, [same EXCEPT !.w = w \cup {d}], [same EXCEPT !.warn = TRUE],
              [same EXCEPT !.warn = TRUE, !.h = h \cup {d}], [same EXCEPT !.throw = TRUE]}
    BY DEF Outcomes
  <1>2. ASSUME o = same, site[<<d, f>>] # "none", d \notin w PROVE FALSE
    <2>1. o.w = w /\ o.warn = FALSE /\ o.throw = FALSE
      BY <1>2
    <2>2. CASE site[<<d, f>>] = "here"
      <3>1. o = [same EXCEPT !.w = w \cup {d}]
        BY <1>2, <2>2 DEF Outcomes
      <3>2. o.w = w \cup {d}
        BY <3>1
      <3> QED
        BY <1>2, <2>1, <3>2
    <2>3. CASE site[<<d, f>>] # "here"
      <3>1. \/ o = [same EXCEPT !.warn = TRUE]
            \/ o = [same EXCEPT !.warn = TRUE, !.h = h \cup {d}]
            \/ o = [same EXCEPT !.throw = TRUE]
        BY <1>2, <2>3 DEF Outcomes
      <3>2. o.warn = TRUE \/ o.throw = TRUE
        BY <3>1
      <3> QED
        BY <2>1, <3>2
    <2> QED
      BY <2>2, <2>3
  <1>3. CASE o = same
    BY <1>2, <1>3
  <1>4. CASE o = [same EXCEPT !.w = w \cup {d}]
    BY <1>4
  <1>5. CASE o = [same EXCEPT !.warn = TRUE]
    BY <1>5
  <1>6. CASE o = [same EXCEPT !.warn = TRUE, !.h = h \cup {d}]
    BY <1>6
  <1>7. CASE o = [same EXCEPT !.throw = TRUE]
    BY <1>7
  <1> QED
    BY <1>1, <1>3, <1>4, <1>5, <1>6, <1>7

\* What classifyPatchStatus answers: a good status is never given with a warning,
\* and skipped-optional never with a changed text.
LEMMA StatusEarned ==
    ASSUME NEW changed \in BOOLEAN, NEW warned \in BOOLEAN, NEW required \in BOOLEAN
    PROVE  LET s == StatusOf(changed, warned, required) IN
           /\ s \in Statuses /\ s # "missing" /\ s \notin NotApplicable
           /\ s \in Good => ~warned
           /\ s = "skipped-optional" => ~changed
  BY DEF StatusOf, Statuses, NotApplicable, Good

\* The status of a descriptor of the extracted app earns its name in the same
\* way, unless the descriptor is lenient.
LEMMA ExtractedEarned ==
    ASSUME NEW d, NEW changed \in BOOLEAN, NEW warned \in BOOLEAN,
           NEW s \in ExtractedStatuses(d, changed, warned)
    PROVE  /\ s \in Statuses /\ s # "missing" /\ s \notin NotApplicable
           /\ s \in Good /\ d \notin Lenient => ~warned
  <1>1. CASE s = StatusOf(changed, warned /\ ~(d \in Lenient /\ changed), d \in Required)
    <2>1. /\ (warned /\ ~(d \in Lenient /\ changed)) \in BOOLEAN
          /\ (d \in Required) \in BOOLEAN
      OBVIOUS
    <2> QED
      BY <1>1, <2>1, StatusEarned
  <1>2. CASE s \in Good /\ d \in Lenient
    BY <1>2 DEF Good, Statuses, NotApplicable
  <1> QED
    BY <1>1, <1>2 DEF ExtractedStatuses

\* Normalizing a status never makes a good, inapplicable or skipped one of another.
LEMMA EntryKept ==
    ASSUME NEW d, NEW s \in Statuses
    PROVE  /\ Normalized(d, s) \in Statuses
           /\ s # "missing" => Normalized(d, s) # "missing"
           /\ Normalized(d, s) \in Good => s \in Good
           /\ Normalized(d, s) \in NotApplicable => s \in NotApplicable
           /\ Normalized(d, s) = "skipped-optional" => s = "skipped-optional"
  BY DEF Normalized, Statuses, Good, NotApplicable

\* A descriptor that threw is reported as a failure.
LEMMA FailureEntry ==
    ASSUME NEW d
    PROVE  /\ FailureStatus(d) \in Statuses /\ FailureStatus(d) # "missing"
           /\ FailureStatus(d) \notin Good \cup NotApplicable
  BY DEF FailureStatus, Statuses, Good, NotApplicable

-----------------------------------------------------------------------------
(* The parts of the invariant that speak of all descriptors.               *)

\* Nothing is patched: a write only moves what was decided into its file.
LEMMA NothingPatched ==
    ASSUME Untouched, Reported, Typed,
           UNCHANGED <<choice, at>>, Wholes' = Wholes, Halves' = Halves,
           \A d \in Descriptors : report'[d] = report[d]
    PROVE  Untouched' /\ Reported'
  <1>1. \A i \in 1..(at - 1) : Plan[i] \in Descriptors
    BY PlanIsSequence DEF Typed, TypeOK
  <1>2. ASSUME NEW d \in Descriptors, Told(d) PROVE Told(d)'
    BY <1>2 DEF Told, choice
  <1>3. Reported'
    BY <1>1, <1>2 DEF Reported, choice
  <1>4. Untouched'
    BY DEF Untouched
  <1> QED
    BY <1>3, <1>4

\* The next descriptor is dealt with, and edits only what is its own.
LEMMA OnePatched ==
    ASSUME Untouched, Reported, Typed, at \in 1..Len(Plan), NEW s, s # "missing",
           NEW d \in Descriptors, d = Plan[at],
           UNCHANGED choice, at' = at + 1, report' = [report EXCEPT ![d] = s],
           \A f \in Files : /\ Wholes[f] \subseteq Wholes'[f]
                            /\ Wholes'[f] \subseteq Wholes[f] \cup {d}
                            /\ Halves[f] \subseteq Halves'[f]
                            /\ Halves'[f] \subseteq Halves[f] \cup {d},
           Told(d)'
    PROVE  Untouched' /\ Reported'
  <1>1. ASSUME NEW i \in 1..Len(Plan), i # at PROVE Plan[i] # d
    BY <1>1, PlanIsInjective
  <1>2. Untouched'
    <2> SUFFICES ASSUME NEW i \in (at + 1)..Len(Plan), NEW f \in Files
                 PROVE  Plan[i] \notin Wholes'[f] \cup Halves'[f]
      BY DEF Untouched
    <2>1. i \in at..Len(Plan) /\ i \in 1..Len(Plan) /\ i # at
      BY PlanIsSequence
    <2>2. Plan[i] \notin Wholes[f] \cup Halves[f]
      BY <2>1 DEF Untouched
    <2> QED
      BY <1>1, <2>1, <2>2
  <1>3. ASSUME NEW e \in Descriptors, e # d, Told(e) PROVE Told(e)' /\ report'[e] = report[e]
    <2>1. report'[e] = report[e]
      BY <1>3 DEF Typed, TypeOK
    <2>2. \A f \in Files : (e \in Wholes'[f] <=> e \in Wholes[f])
                           /\ (e \in Halves'[f] <=> e \in Halves[f])
      BY <1>3
    <2>3. Told(e)'
      BY <1>3, <2>1, <2>2, Targets DEF Told, choice
    <2> QED
      BY <2>1, <2>3
  <1>4. report'[d] = s
    BY DEF Typed, TypeOK
  <1>5. Reported'
    <2> SUFFICES ASSUME NEW i \in 1..at, NEW e \in Descriptors, e = Plan[i]
                 PROVE  /\ i > Len(Main) \/ found' => report'[e] # "missing"
                        /\ Told(e)'
      BY DEF Reported
    <2>1. CASE e = d
      BY <1>4, <2>1
    <2>2. CASE e # d
      <3>1. i \in 1..(at - 1)
        BY <2>2
      <3> QED
        BY <1>3, <2>2, <3>1 DEF Reported, choice
    <2> QED
      BY <2>1, <2>2
  <1> QED
    BY <1>2, <1>5

-----------------------------------------------------------------------------
(* Types, and where the run is.                                            *)

\* An outcome keeps to the descriptors.
LEMMA OutcomeTyped ==
    ASSUME NEW d \in Descriptors, NEW f, NEW w \in SUBSET Descriptors,
           NEW h \in SUBSET Descriptors, NEW o \in Outcomes(d, f, w, h)
    PROVE  /\ o.w \in SUBSET Descriptors /\ o.h \in SUBSET Descriptors
           /\ o.warn \in BOOLEAN /\ o.throw \in BOOLEAN
  <1>1. /\ o.w \subseteq w \cup {d} /\ o.h \subseteq h \cup {d}
        /\ o.warn \in BOOLEAN /\ o.throw \in BOOLEAN
    BY OutcomeEdits
  <1> QED
    BY <1>1

\* Recording an entry leaves a well-formed report.
LEMMA EntryTyped ==
    ASSUME Typed, NEW d \in Descriptors, NEW s \in Statuses, Recorded(d, s)
    PROVE  report' \in [Descriptors \cup {UI} -> Statuses]
  BY EntryKept DEF Recorded, Typed, TypeOK

\* A run that is not at the end of the plan stands at a descriptor.
LEMMA PlanPlace ==
    ASSUME at \in 1..(Len(Plan) + 1), at <= Len(Plan)
    PROVE  Plan[at] \in Descriptors /\ at \in 1..Len(Plan) /\ at + 1 \in 1..(Len(Plan) + 1)
  BY PlanIsSequence

\* A descriptor of the first phase is dealt with, or its predicate throws.
LEMMA MainPlace ==
    ASSUME Typed, pc = "main", at <= Len(Main)
    PROVE  /\ at \in 1..Len(Plan) /\ at + 1 \in 1..(Len(Plan) + 1)
           /\ Main[at] = Plan[at] /\ Main[at] \in Phase(Main) /\ Main[at] \in Descriptors
  <1>1. at \in 1..Len(Main) /\ at \in 1..Len(Plan)
    BY PlanIsSequence DEF Typed, TypeOK
  <1>2. Plan[at] \in Descriptors /\ Plan[at] = Main[at]
    BY <1>1, PlanIsSequence
  <1>3. DOMAIN Main = 1..Len(Main)
    <2>1. Main \in Seq(Descriptors)
      BY PlanAssumption
    <2> QED BY <2>1
  <1> QED
    BY <1>1, <1>2, <1>3, PlanIsSequence DEF Phase

\* A run starts well formed.
LEMMA TypedInit == Init => Typed
  <1> SUFFICES ASSUME Init PROVE Typed
    OBVIOUS
  <1> USE DEF Init
  <1>1. at \in 1..(Len(Plan) + 1)
    BY PlanIsSequence
  <1>2. DOMAIN todo = {}
    OBVIOUS
  <1> QED
    BY <1>1, <1>2 DEF Typed, TypeOK, Statuses

\* The patches of the main bundle leave the run well formed,
LEMMA TypedMain == ASSUME Typed, PatchMain PROVE Typed'
  <1> DEFINE d == Main[at]
  <1>1. d \in Descriptors /\ at + 1 \in 1..(Len(Plan) + 1)
    BY MainPlace DEF PatchMain
  <1>2. UNCHANGED <<whole, half, todo, failed>>
    BY DEF PatchMain, app
  <1>3. CASE Throws(d) /\ UNCHANGED <<draft, report, at>>
    BY <1>2, <1>3 DEF Throws, Typed, TypeOK
  <1>4. CASE Skip(d) /\ at' = at + 1 /\ UNCHANGED <<draft, pc, exit>>
    <2>1. report' \in [Descriptors \cup {UI} -> Statuses]
      BY <1>1, <1>4, EntryTyped DEF Skip, Statuses
    <2> QED
      BY <1>1, <1>2, <1>4, <2>1 DEF Typed, TypeOK
  <1>5. ASSUME NEW o \in Outcomes(d, Bundle, draft.w, draft.h),
               draft' = [w |-> o.w, h |-> o.h,
                         warn |-> draft.warn \/ (d \in Required /\ (o.warn \/ o.throw))],
               Recorded(d, IF o.throw THEN FailureStatus(d)
                           ELSE StatusOf(Changed(o, draft.w, draft.h), o.warn, d \in Required)),
               at' = at + 1, UNCHANGED <<pc, exit>>
        PROVE  Typed'
    <2>1. draft.w \in SUBSET Descriptors /\ draft.h \in SUBSET Descriptors /\ draft.warn \in BOOLEAN
      BY DEF Typed
    <2>2. /\ o.w \in SUBSET Descriptors /\ o.h \in SUBSET Descriptors
          /\ o.warn \in BOOLEAN /\ o.throw \in BOOLEAN
      BY <1>1, <1>5, <2>1, OutcomeTyped, Zenon
    <2>3. o.warn \in BOOLEAN /\ o.throw \in BOOLEAN
      BY <2>2
    <2>4. (draft.warn \/ (d \in Required /\ (o.warn \/ o.throw))) \in BOOLEAN
      BY <2>1, <2>3
    <2>5. draft' \in [w : SUBSET Descriptors, h : SUBSET Descriptors, warn : BOOLEAN]
      BY <1>5, <2>2, <2>4
    <2>6. Changed(o, draft.w, draft.h) \in BOOLEAN /\ (d \in Required) \in BOOLEAN
      BY DEF Changed
    <2>7. StatusOf(Changed(o, draft.w, draft.h), o.warn, d \in Required) \in Statuses
      BY <2>3, <2>6, StatusEarned
    <2>8. report' \in [Descriptors \cup {UI} -> Statuses]
      BY <1>1, <1>5, <2>7, FailureEntry, EntryTyped
    <2> QED
      BY <1>1, <1>2, <1>5, <2>5, <2>8 DEF Typed, TypeOK
  <1> QED
    BY <1>3, <1>4, <1>5 DEF PatchMain

\* as do those of the extracted app,
LEMMA TypedExtracted == ASSUME Typed, PatchExtracted PROVE Typed'
  <1> DEFINE d == Plan[at]
  <1>1. d \in Descriptors /\ at + 1 \in 1..(Len(Plan) + 1)
    BY PlanPlace DEF PatchExtracted, Typed, TypeOK
  <1>2. UNCHANGED <<draft, todo, failed>>
    BY DEF PatchExtracted
  <1>3. CASE Throws(d) /\ UNCHANGED <<app, report, at>>
    BY <1>2, <1>3 DEF Throws, Typed, TypeOK, app
  <1>4. CASE Skip(d) /\ at' = at + 1 /\ UNCHANGED <<app, pc, exit>>
    <2>1. report' \in [Descriptors \cup {UI} -> Statuses]
      BY <1>1, <1>4, EntryTyped DEF Skip, Statuses
    <2> QED
      BY <1>1, <1>2, <1>4, <2>1 DEF Typed, TypeOK, app
  <1>5. ASSUME NEW o \in [Target[d] -> UNION {Outcomes(d, f, whole[f], half[f]) : f \in Target[d]}],
               \A f \in Target[d] : o[f] \in Outcomes(d, f, whole[f], half[f]),
               whole' = [f \in Files |-> IF f \in Target[d] THEN o[f].w ELSE whole[f]],
               half' = [f \in Files |-> IF f \in Target[d] THEN o[f].h ELSE half[f]],
               NEW threw \in BOOLEAN, NEW s \in Statuses,
               Recorded(d, IF threw THEN FailureStatus(d) ELSE s),
               at' = at + 1, UNCHANGED <<pc, exit>>
        PROVE  Typed'
    <2>1. ASSUME NEW f \in Target[d]
          PROVE  o[f].w \in SUBSET Descriptors /\ o[f].h \in SUBSET Descriptors
      <3>1. whole[f] \in SUBSET Descriptors /\ half[f] \in SUBSET Descriptors
        BY <1>1, <2>1, Targets DEF Typed, TypeOK
      <3> QED
        BY <1>1, <1>5, <3>1, OutcomeTyped
    <2>2. whole' \in [Files -> SUBSET Descriptors] /\ half' \in [Files -> SUBSET Descriptors]
      <3>1. ASSUME NEW f \in Files
            PROVE  /\ (IF f \in Target[d] THEN o[f].w ELSE whole[f]) \in SUBSET Descriptors
                   /\ (IF f \in Target[d] THEN o[f].h ELSE half[f]) \in SUBSET Descriptors
        BY <2>1, <3>1 DEF Typed, TypeOK
      <3> DEFINE w == [f \in Files |-> IF f \in Target[d] THEN o[f].w ELSE whole[f]]
                 h == [f \in Files |-> IF f \in Target[d] THEN o[f].h ELSE half[f]]
      <3>2. w \in [Files -> SUBSET Descriptors] /\ h \in [Files -> SUBSET Descriptors]
        <4>1. w \in [Files -> SUBSET Descriptors]
          BY <3>1
        <4>2. h \in [Files -> SUBSET Descriptors]
          BY <3>1
        <4> QED
          BY <4>1, <4>2
      <3>3. whole' = w /\ half' = h
        BY <1>5
      <3> HIDE DEF w, h
      <3> QED
        BY <3>2, <3>3
    <2>3. report' \in [Descriptors \cup {UI} -> Statuses]
      BY <1>1, <1>5, FailureEntry, EntryTyped
    <2> QED
      BY <1>1, <1>2, <1>5, <2>2, <2>3 DEF Typed, TypeOK
  <1>6. \A changed, warned \in BOOLEAN : ExtractedStatuses(d, changed, warned) \subseteq Statuses
    BY ExtractedEarned
  <1> QED
    BY <1>3, <1>4, <1>5, <1>6 DEF PatchExtracted

\* A web view descriptor matches only files it may edit.
LEMMA MatchesTargets == ASSUME NEW d PROVE Matches(d) \subseteq Target[d]
  BY DEF Matches

\* those of the web view,
LEMMA TypedWeb == ASSUME Typed, PatchWeb PROVE Typed'
  <1> DEFINE d == Plan[at]
             m == Matches(d)
  <1>1. d \in Descriptors /\ at + 1 \in 1..(Len(Plan) + 1) /\ d \in Phase(Web)
    BY PlanPlace DEF PatchWeb, Typed, TypeOK
  <1>2. UNCHANGED <<whole, half, draft, failed>> /\ at' = at + 1
    BY DEF PatchWeb, app
  <1>3. CASE Throws(d) /\ UNCHANGED <<todo, report>>
    BY <1>1, <1>2, <1>3 DEF Throws, Typed, TypeOK
  <1>4. ASSUME NEW s \in Statuses, Recorded(d, s), UNCHANGED <<todo, exit>>, pc' = pc
        PROVE  Typed'
    <2>1. report' \in [Descriptors \cup {UI} -> Statuses]
      BY <1>1, <1>4, EntryTyped
    <2> QED
      BY <1>1, <1>2, <1>4, <2>1 DEF Typed, TypeOK
  <1>5. CASE Skip(d) /\ UNCHANGED <<todo, pc, exit>>
    BY <1>4, <1>5 DEF Skip, Statuses
  <1>6. CASE Recorded(d, FailureStatus(d)) /\ UNCHANGED <<todo, pc, exit>>
    BY <1>4, <1>6, FailureEntry
  <1>7. CASE Recorded(d, StatusOf(FALSE, TRUE, d \in Required)) /\ UNCHANGED <<todo, pc, exit>>
    BY <1>4, <1>7 DEF StatusOf, Statuses
  <1>8. ASSUME NEW o \in [m -> UNION {Outcomes(d, f, whole[f], half[f]) : f \in m}],
               \A f \in m : o[f] \in Outcomes(d, f, whole[f], half[f]),
               NEW changed \in SUBSET m, todo' = [f \in changed |-> o[f]], pc' = "write",
               NEW warned \in BOOLEAN,
               Recorded(d, StatusOf(changed # {}, warned, d \in Required)), exit' = exit
        PROVE  Typed'
    <2>1. ASSUME NEW f \in m
          PROVE  o[f].w \in SUBSET Descriptors /\ o[f].h \in SUBSET Descriptors /\ f \in Assets
      <3>1. whole[f] \in SUBSET Descriptors /\ half[f] \in SUBSET Descriptors /\ f \in Assets
        BY <1>1, <2>1, MatchesTargets, Targets DEF Typed, TypeOK
      <3> QED
        BY <1>1, <1>8, <3>1, OutcomeTyped
    <2>2. DOMAIN todo' = changed /\ \A f \in changed : todo'[f] = o[f]
      BY <1>8
    <2>3. /\ DOMAIN todo' \subseteq Assets
          /\ \A f \in DOMAIN todo' :
               todo'[f].w \subseteq Descriptors /\ todo'[f].h \subseteq Descriptors
      BY <2>1, <2>2
    <2>4. StatusOf(changed # {}, warned, d \in Required) \in Statuses
      <3>1. (changed # {}) \in BOOLEAN /\ (d \in Required) \in BOOLEAN
        OBVIOUS
      <3> QED
        BY <1>8, <3>1, StatusEarned
    <2>5. report' \in [Descriptors \cup {UI} -> Statuses]
      BY <1>1, <1>8, <2>4, EntryTyped
    <2> QED
      BY <1>1, <1>2, <1>8, <2>3, <2>5 DEF Typed, TypeOK
  <1> HIDE DEF d, m
  <1> QED
    <2>1. \/ Throws(d) /\ UNCHANGED <<todo, report>>
          \/ Skip(d) /\ UNCHANGED <<todo, pc, exit>>
          \/ Recorded(d, FailureStatus(d)) /\ UNCHANGED <<todo, pc, exit>>
          \/ Recorded(d, StatusOf(FALSE, TRUE, d \in Required)) /\ UNCHANGED <<todo, pc, exit>>
          \/ \E o \in [m -> UNION {Outcomes(d, f, whole[f], half[f]) : f \in m}] :
               /\ \A f \in m : o[f] \in Outcomes(d, f, whole[f], half[f])
               /\ IF \E f \in m : o[f].throw
                  THEN Recorded(d, FailureStatus(d)) /\ UNCHANGED <<todo, pc>>
                  ELSE LET changed == {f \in m : Changed(o[f], whole[f], half[f])} IN
                       /\ todo' = [f \in changed |-> o[f]]
                       /\ pc' = "write"
                       /\ Recorded(d, StatusOf(changed # {}, \E f \in m : o[f].warn,
                                               d \in Required))
               /\ UNCHANGED exit
      BY DEF PatchWeb, d, m
    <2> QED
      BY <1>3, <1>5, <1>6, <1>7, <1>8, <2>1

\* the writing of an asset,
LEMMA TypedReplace == ASSUME Typed, Replace PROVE Typed'
  <1>1. UNCHANGED <<draft, at, report, failed, exit>>
    BY DEF Replace
  <1>2. CASE DOMAIN todo = {} /\ pc' = "patch" /\ todo' = <<>> /\ UNCHANGED <<whole, half>>
    <2>1. DOMAIN todo' = {}
      BY <1>2
    <2> QED
      BY <1>1, <1>2, <2>1 DEF Typed, TypeOK
  <1>3. ASSUME NEW f \in DOMAIN todo, whole' = [whole EXCEPT ![f] = todo[f].w],
               half' = [half EXCEPT ![f] = todo[f].h],
               todo' = [g \in DOMAIN todo \ {f} |-> todo[g]], pc' = pc
        PROVE  Typed'
    <2>1. DOMAIN todo' \subseteq DOMAIN todo /\ \A g \in DOMAIN todo' : todo'[g] = todo[g]
      BY <1>3
    <2>2. f \in Files /\ todo[f].w \in SUBSET Descriptors /\ todo[f].h \in SUBSET Descriptors
      BY <1>3, Targets DEF Typed
    <2>3. whole' \in [Files -> SUBSET Descriptors] /\ half' \in [Files -> SUBSET Descriptors]
      BY <1>3, <2>2 DEF Typed, TypeOK
    <2>4. /\ DOMAIN todo' \subseteq Assets
          /\ \A g \in DOMAIN todo' :
               todo'[g].w \subseteq Descriptors /\ todo'[g].h \subseteq Descriptors
      BY <2>1 DEF Typed
    <2> QED
      BY <1>1, <1>3, <2>3, <2>4 DEF Typed, TypeOK
  <1> QED
    BY <1>2, <1>3 DEF Replace, app

\* the writing of the bundle,
LEMMA TypedReplaceMain == ASSUME Typed, ReplaceMain PROVE Typed'
  <1>1. draft.w \in SUBSET Descriptors /\ draft.h \in SUBSET Descriptors /\ draft.warn \in BOOLEAN
    BY DEF Typed
  <1>2. StatusOf(draft.w \cup draft.h # {}, draft.warn, TRUE) \in Statuses
    <2>1. (draft.w \cup draft.h # {}) \in BOOLEAN
      OBVIOUS
    <2> QED
      BY <1>1, <2>1, StatusEarned
  <1>3. report' \in [Descriptors \cup {UI} -> Statuses]
    BY <1>2 DEF ReplaceMain, Typed, TypeOK
  <1>4. whole' \in [Files -> SUBSET Descriptors] /\ half' \in [Files -> SUBSET Descriptors]
    BY <1>1 DEF ReplaceMain, Typed, TypeOK
  <1> QED
    BY <1>3, <1>4 DEF ReplaceMain, Typed, TypeOK

\* and every other step.
LEMMA TypedRest ==
    ASSUME Typed, Integrity \/ FindBundle \/ Finished \/ CloseAndExit \/ UNCHANGED vars
    PROVE  Typed'
  <1>1. CASE Integrity
    BY <1>1 DEF Integrity, Typed, TypeOK, app
  <1>2. CASE FindBundle
    <2>1. Len(Main) + 1 \in 1..(Len(Plan) + 1)
      BY PlanIsSequence
    <2>2. report' \in [Descriptors \cup {UI} -> Statuses]
      BY <1>2 DEF FindBundle, Typed, TypeOK, Statuses
    <2>3. at' \in 1..(Len(Plan) + 1)
      BY <1>2, <2>1 DEF FindBundle, Typed, TypeOK
    <2> QED
      BY <1>2, <2>2, <2>3 DEF FindBundle, Typed, TypeOK, app
  <1>3. CASE Finished
    BY <1>3 DEF Finished, Typed, TypeOK, app
  <1>4. CASE CloseAndExit
    BY <1>4 DEF CloseAndExit, Typed, TypeOK, app
  <1>5. CASE UNCHANGED vars
    BY <1>5 DEF vars, app, Typed, TypeOK
  <1> QED
    BY <1>1, <1>2, <1>3, <1>4, <1>5

\* Every step leaves the run well formed.
LEMMA TypedStep == Typed /\ [Next]_vars => Typed'
  BY TypedMain, TypedExtracted, TypedWeb, TypedReplace, TypedReplaceMain, TypedRest
  DEF Next, Done

\* A run starts at the bundle with nothing done.
LEMMA ShapeInit == Init => Shape
  BY PlanIsSequence DEF Init, Shape, Live

\* What a descriptor of any phase leaves of the shape.
LEMMA ShapePatch ==
    ASSUME Typed, Shape, NEW d \in Descriptors,
           pc \in {"main", "patch"}, pc' = pc, at' = at + 1, UNCHANGED <<choice, todo, failed, exit>>,
           pc = "main" => at <= Len(Main),
           NEW s, report' = [report EXCEPT ![d] = s]
    PROVE  Shape'
  <1>1. report'[UI] = report[UI]
    BY PlanAssumption DEF Typed, TypeOK
  <1>2. exit' = -1 /\ ~failed'
    BY DEF Shape
  <1> QED
    BY <1>1, <1>2, PlanIsSequence DEF Shape, Live, choice, Typed, TypeOK

\* A descriptor whose predicate throws ends the run with exit code 1.
LEMMA ShapeThrows ==
    ASSUME Typed, Shape, pc' = "close", exit' = 1, UNCHANGED <<choice, todo, failed>>
    PROVE  Shape'
  BY DEF Shape, Live, choice

\* The patches of the main bundle keep the run's shape,
LEMMA ShapeMain == ASSUME Typed, Shape, PatchMain PROVE Shape'
  <1> DEFINE d == Main[at]
  <1>1. d \in Descriptors /\ pc = "main" /\ at <= Len(Main) /\ UNCHANGED <<choice, todo, failed>>
    BY MainPlace DEF PatchMain
  <1>2. \/ Throws(d)
        \/ \E s : report' = [report EXCEPT ![d] = s] /\ at' = at + 1 /\ UNCHANGED <<pc, exit>>
    BY DEF PatchMain, Skip, Recorded
  <1> HIDE DEF d
  <1> QED
    BY <1>1, <1>2, ShapePatch, ShapeThrows DEF Throws

\* as do those of the extracted app,
LEMMA ShapeExtracted == ASSUME Typed, Shape, PatchExtracted PROVE Shape'
  <1> DEFINE d == Plan[at]
  <1>1. d \in Descriptors /\ pc = "patch" /\ UNCHANGED <<choice, todo, failed>>
    BY PlanPlace DEF PatchExtracted, Typed, TypeOK
  <1>2. \/ Throws(d)
        \/ \E s : report' = [report EXCEPT ![d] = s] /\ at' = at + 1 /\ UNCHANGED <<pc, exit>>
    BY DEF PatchExtracted, Skip, Recorded
  <1> HIDE DEF d
  <1> QED
    BY <1>1, <1>2, ShapePatch, ShapeThrows DEF Throws

\* those of the web view,
LEMMA ShapeWeb == ASSUME Typed, Shape, PatchWeb PROVE Shape'
  <1> DEFINE d == Plan[at]
  <1>1. d \in Descriptors /\ pc = "patch" /\ UNCHANGED <<choice, failed>> /\ at' = at + 1
    BY PlanPlace DEF PatchWeb, Typed, TypeOK
  <1>2. \/ Throws(d) /\ UNCHANGED todo
        \/ \E s : /\ report' = [report EXCEPT ![d] = s] /\ UNCHANGED exit
                  /\ (pc' = pc /\ todo' = todo) \/ pc' = "write"
    BY DEF PatchWeb, Skip, Recorded
  <1> HIDE DEF d
  <1>3. ASSUME NEW s, report' = [report EXCEPT ![d] = s], UNCHANGED exit, pc' = "write"
        PROVE  Shape'
    <2>1. report'[UI] = report[UI]
      BY <1>1, <1>3, PlanAssumption DEF Typed, TypeOK
    <2>2. exit' = -1 /\ ~failed'
      BY <1>1, <1>3 DEF Shape
    <2> QED
      BY <1>1, <1>3, <2>1, <2>2, PlanIsSequence DEF Shape, Live, choice, Typed, TypeOK
  <1> QED
    BY <1>1, <1>2, <1>3, ShapePatch, ShapeThrows DEF Throws

\* the session's and the writing steps,
LEMMA ShapeRest ==
    ASSUME Typed, Shape,
           \/ Integrity \/ FindBundle \/ ReplaceMain \/ Replace \/ Finished \/ UNCHANGED vars
    PROVE  Shape'
  <1>1. CASE Integrity
    BY <1>1 DEF Integrity, Shape, Live, choice
  <1>2. CASE FindBundle
    <2>1. report' = [report EXCEPT ![UI] = "failed-required"] => report'[UI] = "failed-required"
      BY DEF Typed, TypeOK
    <2> QED
      BY <1>2, <2>1, PlanIsSequence DEF FindBundle, Shape, Live, choice
  <1>3. CASE ReplaceMain
    <2>1. found'
      BY <1>3 DEF ReplaceMain, Shape, choice
    <2>2. pc' = "patch" /\ UNCHANGED <<at, todo, failed, exit>> /\ pc = "main" /\ at = Len(Main) + 1
      BY <1>3 DEF ReplaceMain
    <2> QED
      BY <2>1, <2>2, PlanIsSequence DEF Shape, Live
  <1>4. CASE Replace
    <2>1. todo' = <<>> => DOMAIN todo' = {}
      OBVIOUS
    <2> QED
      BY <1>4, <2>1 DEF Replace, Shape, Live, choice
  <1>5. CASE Finished
    BY <1>5 DEF Finished, Shape, Live, choice
  <1>6. CASE UNCHANGED vars
    BY <1>6 DEF vars, choice, app, Shape, Live, CriticalFailures
  <1> QED
    BY <1>1, <1>2, <1>3, <1>4, <1>5, <1>6

\* and the end of the run: it exits with 0 only when no enforced critical failure
\* is in the report.
LEMMA ShapeClose == ASSUME Typed, Shape, CloseAndExit PROVE Shape'
  <1>1. CriticalFailures' = CriticalFailures
    BY DEF CloseAndExit, CriticalFailures
  <1>2. pc = "close" /\ pc' = "exited" /\ UNCHANGED <<at, todo, report, choice>> /\ exit # 0
    BY DEF CloseAndExit, Shape
  <1>3. Live' => Live
    BY DEF CloseAndExit, Live
  <1>4. exit' = 0 => ~failed' /\ (enforce => CriticalFailures = {})
    BY DEF CloseAndExit
  <1> QED
    BY <1>1, <1>2, <1>3, <1>4 DEF Shape, choice

\* Every step keeps the run's shape.
LEMMA ShapeStep == Typed /\ Shape /\ [Next]_vars => Shape'
  BY ShapeMain, ShapeExtracted, ShapeWeb, ShapeRest, ShapeClose DEF Next, Done

-----------------------------------------------------------------------------
(* The report is true of the files, action by action.                      *)

LEMMA ReportInit == Init => Untouched /\ Reported
  <1> SUFFICES ASSUME Init PROVE Untouched /\ Reported
    OBVIOUS
  <1>1. DOMAIN todo = {} /\ at = 1
    BY DEF Init
  <1>2. \A f \in Files : Wholes[f] = {} /\ Halves[f] = {}
    BY <1>1 DEF Init, Wholes, Halves, InMemory
  <1> QED
    BY <1>1, <1>2 DEF Untouched, Reported

\* The next descriptor has left no trace yet.
LEMMA NextUntouched ==
    ASSUME Untouched, at \in 1..Len(Plan), NEW d, d = Plan[at], NEW f \in Files
    PROVE  d \notin Wholes[f] /\ d \notin Halves[f]
  BY PlanIsSequence DEF Untouched

\* A descriptor that is skipped is reported as inapplicable, and edits nothing.
LEMMA SkipReported ==
    ASSUME Typed, Untouched, Reported, at \in 1..Len(Plan), NEW d \in Descriptors, d = Plan[at],
           Skip(d), at' = at + 1, UNCHANGED choice, Wholes' = Wholes, Halves' = Halves
    PROVE  Untouched' /\ Reported'
  <1>1. PICK s \in {"skipped-target", "skipped-disabled"} : Recorded(d, s)
    BY DEF Skip
  <1>2. Normalized(d, s) = s
    BY DEF Normalized
  <1>3. report' = [report EXCEPT ![d] = s] /\ report'[d] = s
    BY <1>1, <1>2 DEF Recorded, Typed, TypeOK
  <1>4. s # "missing" /\ s \notin Good
    BY DEF Good
  <1>5. \A f \in Files : d \notin Wholes'[f] /\ d \notin Halves'[f]
    BY NextUntouched
  <1>6. d \notin here' \cap on'
    BY DEF Skip, choice
  <1>7. Told(d)'
    BY <1>3, <1>4, <1>5, <1>6 DEF Told
  <1> QED
    BY <1>3, <1>4, <1>7, OnePatched

\* What a status says of the descriptor that earned it.
LEMMA ToldBy ==
    ASSUME NEW d \in Descriptors, Typed, NEW s \in Statuses, Recorded(d, s), s \notin NotApplicable,
           s \in Good /\ (d \notin Lenient \/ d \in Phase(Main) \cup Phase(Web)) =>
               \A f \in Target[d] : site'[<<d, f>>] = "none" \/ d \in Wholes'[f],
           d \in Phase(Main) \cup Phase(Web) =>
               /\ s \in Good => \A f \in Files : d \notin Halves'[f]
               /\ s = "skipped-optional" => \A f \in Files : d \notin Wholes'[f] \cup Halves'[f]
    PROVE  Told(d)'
  <1>1. report'[d] = Normalized(d, s)
    BY DEF Recorded, Typed, TypeOK
  <1>2. /\ report'[d] \in Good => s \in Good
        /\ report'[d] \notin NotApplicable
        /\ report'[d] = "skipped-optional" => s = "skipped-optional"
    BY <1>1, EntryKept
  <1> QED
    BY <1>2 DEF Told

\* After a patch of the main bundle the report is true of the draft,
LEMMA ReportMain ==
    ASSUME Typed, Shape, Live => Untouched /\ Reported, PatchMain, Live'
    PROVE  Untouched' /\ Reported'
  <1>0. PICK d : d = Main[at]
    OBVIOUS
  <1>1. /\ d \in Descriptors /\ d = Plan[at] /\ at \in 1..Len(Plan) /\ d \in Phase(Main)
        /\ Target[d] = {Bundle}
    BY <1>0, MainPlace, Targets DEF PatchMain
  <1>2. UNCHANGED <<choice, whole, half, todo, failed>> /\ pc = "main"
    BY DEF PatchMain, app
  <1>3. Live /\ DOMAIN todo = {} /\ Untouched /\ Reported
    BY <1>2 DEF Shape, Live
  <1>4. CASE Throws(d)
    BY <1>4 DEF Throws, Live
  <1>5. CASE Skip(d) /\ at' = at + 1 /\ UNCHANGED <<draft, pc, exit>>
    <2>1. Wholes' = Wholes /\ Halves' = Halves
      BY <1>2, <1>5 DEF Wholes, Halves, InMemory
    <2> QED
      BY <1>1, <1>2, <1>3, <1>5, <2>1, SkipReported
  <1>6. ASSUME NEW o \in Outcomes(d, Bundle, draft.w, draft.h),
               draft'.w = o.w, draft'.h = o.h,
               Recorded(d, IF o.throw THEN FailureStatus(d)
                           ELSE StatusOf(Changed(o, draft.w, draft.h), o.warn, d \in Required)),
               at' = at + 1, pc' = pc
        PROVE  Untouched' /\ Reported'
    <2> DEFINE s == IF o.throw THEN FailureStatus(d)
                    ELSE StatusOf(Changed(o, draft.w, draft.h), o.warn, d \in Required)
    <2>1. /\ draft.w \subseteq o.w /\ o.w \subseteq draft.w \cup {d}
          /\ draft.h \subseteq o.h /\ o.h \subseteq draft.h \cup {d}
          /\ o.warn \in BOOLEAN /\ o.throw \in BOOLEAN
          /\ ~o.warn /\ ~o.throw => (site[<<d, Bundle>>] = "none" \/ d \in o.w) /\ o.h = draft.h
          /\ o.throw => o.w = draft.w /\ o.h = draft.h
      BY OutcomeEdits
    <2>2. /\ Wholes[Bundle] = draft.w /\ Wholes'[Bundle] = o.w
          /\ Halves[Bundle] = draft.h /\ Halves'[Bundle] = o.h
          /\ \A f \in Files \ {Bundle} : Wholes'[f] = Wholes[f] /\ Halves'[f] = Halves[f]
      BY <1>2, <1>3, <1>6, Targets DEF Wholes, Halves, InMemory
    <2>3. \A f \in Files : /\ Wholes[f] \subseteq Wholes'[f]
                           /\ Wholes'[f] \subseteq Wholes[f] \cup {d}
                           /\ Halves[f] \subseteq Halves'[f]
                           /\ Halves'[f] \subseteq Halves[f] \cup {d}
      BY <2>1, <2>2
    <2>4. \A f \in Files : d \notin Wholes[f] /\ d \notin Halves[f]
      BY <1>1, <1>3, NextUntouched
    <2>5. /\ s \in Statuses /\ s # "missing" /\ s \notin NotApplicable
          /\ s \in Good => ~o.warn /\ ~o.throw
          /\ s = "skipped-optional" => o.w = draft.w /\ o.h = draft.h
      <3>1. CASE o.throw
        BY <2>1, <3>1, FailureEntry
      <3>2. CASE ~o.throw
        <4>1. Changed(o, draft.w, draft.h) \in BOOLEAN /\ (d \in Required) \in BOOLEAN
          BY DEF Changed
        <4>2. /\ s \in Statuses /\ s # "missing" /\ s \notin NotApplicable
              /\ s \in Good => ~o.warn
              /\ s = "skipped-optional" => ~Changed(o, draft.w, draft.h)
          BY <2>1, <3>2, <4>1, StatusEarned
        <4> QED
          BY <3>2, <4>2 DEF Changed
      <3> QED
        BY <2>1, <3>1, <3>2
    <2> HIDE DEF s
    <2>6. s \in Good => \A f \in Target[d] : site'[<<d, f>>] = "none" \/ d \in Wholes'[f]
      BY <1>1, <1>2, <2>1, <2>2, <2>5 DEF choice
    <2>7. s \in Good => \A f \in Files : d \notin Halves'[f]
      BY <2>1, <2>2, <2>4, <2>5
    <2>8. s = "skipped-optional" => \A f \in Files : d \notin Wholes'[f] \cup Halves'[f]
      BY <2>2, <2>4, <2>5
    <2>9. Recorded(d, s)
      BY <1>6 DEF s
    <2>10. Told(d)'
      <3>1. s \in Good /\ (d \notin Lenient \/ d \in Phase(Main) \cup Phase(Web)) =>
               \A f \in Target[d] : site'[<<d, f>>] = "none" \/ d \in Wholes'[f]
        BY <2>6
      <3>2. d \in Phase(Main) \cup Phase(Web) =>
               /\ s \in Good => \A f \in Files : d \notin Halves'[f]
               /\ s = "skipped-optional" => \A f \in Files : d \notin Wholes'[f] \cup Halves'[f]
        BY <2>7, <2>8
      <3>3. s \in Statuses /\ s \notin NotApplicable
        BY <2>5
      <3> QED
        BY <1>1, <2>9, <3>1, <3>2, <3>3, ToldBy
    <2>11. PICK r : r # "missing" /\ report' = [report EXCEPT ![d] = r]
      BY <2>5, <2>9, EntryKept DEF Recorded
    <2>12. UNCHANGED choice /\ at' = at + 1
      BY <1>2, <1>6
    <2> QED
      BY <1>1, <1>3, <2>3, <2>10, <2>11, <2>12, OnePatched
  <1> QED
    <2>1. \/ Throws(d)
          \/ Skip(d) /\ at' = at + 1 /\ UNCHANGED <<draft, pc, exit>>
          \/ \E o \in Outcomes(d, Bundle, draft.w, draft.h) :
               /\ draft'.w = o.w /\ draft'.h = o.h
               /\ Recorded(d, IF o.throw THEN FailureStatus(d)
                           ELSE StatusOf(Changed(o, draft.w, draft.h), o.warn, d \in Required))
               /\ at' = at + 1 /\ pc' = pc
      BY <1>0 DEF PatchMain
    <2> QED
      BY <1>4, <1>5, <1>6, <2>1

\* Past the bundle, with nothing waiting, the edits are those in the files.
LEMMA InFiles ==
    ASSUME DOMAIN todo = {}, pc \notin {"bundle", "main"}
    PROVE  \A f \in Files : Wholes[f] = whole[f] /\ Halves[f] = half[f]
  BY DEF Wholes, Halves, InMemory

\* after one of the extracted app, of the files on disk,
LEMMA ReportExtracted ==
    ASSUME Typed, Shape, Live => Untouched /\ Reported, PatchExtracted, Live'
    PROVE  Untouched' /\ Reported'
  <1>0. PICK d : d = Plan[at]
    OBVIOUS
  <1>1. /\ d \in Descriptors /\ at \in 1..Len(Plan) /\ d \notin Phase(Main) \cup Phase(Web)
        /\ Target[d] \subseteq Files
    <2>1. d \in Descriptors /\ at \in 1..Len(Plan) /\ d \in Phase(Pre) \cup Phase(Post)
      BY <1>0, PlanPlace DEF PatchExtracted, Typed, TypeOK
    <2> QED
      BY <2>1, Targets, PlanAssumption
  <1>2. UNCHANGED <<choice, draft, todo, failed>> /\ pc = "patch"
    BY DEF PatchExtracted
  <1>3. Live /\ DOMAIN todo = {} /\ Untouched /\ Reported
    BY <1>2 DEF Shape, Live
  <1>4. CASE Throws(d)
    BY <1>4 DEF Throws, Live
  <1>5. CASE Skip(d) /\ at' = at + 1 /\ UNCHANGED <<app, pc, exit>>
    <2>1. Wholes' = Wholes /\ Halves' = Halves
      BY <1>2, <1>5 DEF Wholes, Halves, InMemory, app
    <2> QED
      BY <1>0, <1>1, <1>2, <1>3, <1>5, <2>1, SkipReported
  <1>6. ASSUME NEW o, \A f \in Target[d] : o[f] \in Outcomes(d, f, whole[f], half[f]),
               whole' = [f \in Files |-> IF f \in Target[d] THEN o[f].w ELSE whole[f]],
               half' = [f \in Files |-> IF f \in Target[d] THEN o[f].h ELSE half[f]],
               NEW threw \in BOOLEAN, threw <=> \E f \in Target[d] : o[f].throw,
               NEW warned \in BOOLEAN, warned <=> \E f \in Target[d] : o[f].warn,
               NEW changed \in BOOLEAN, NEW e \in ExtractedStatuses(d, changed, warned),
               Recorded(d, IF threw THEN FailureStatus(d) ELSE e),
               at' = at + 1, pc' = pc
        PROVE  Untouched' /\ Reported'
    <2>1. ASSUME NEW f \in Target[d]
          PROVE  /\ whole[f] \subseteq o[f].w /\ o[f].w \subseteq whole[f] \cup {d}
                 /\ half[f] \subseteq o[f].h /\ o[f].h \subseteq half[f] \cup {d}
                 /\ o[f].warn \in BOOLEAN /\ o[f].throw \in BOOLEAN
                 /\ ~o[f].warn /\ ~o[f].throw => site[<<d, f>>] = "none" \/ d \in o[f].w
      BY <1>6, <2>1, OutcomeEdits
    <2>2. /\ \A f \in Files : Wholes[f] = whole[f] /\ Halves[f] = half[f]
          /\ \A f \in Files : Wholes'[f] = whole'[f] /\ Halves'[f] = half'[f]
      BY <1>2, <1>3, <1>6 DEF Wholes, Halves, InMemory
    <2>3. ASSUME NEW f \in Files
          PROVE  /\ f \in Target[d] => whole'[f] = o[f].w /\ half'[f] = o[f].h
                 /\ f \notin Target[d] => whole'[f] = whole[f] /\ half'[f] = half[f]
      <3>1. /\ whole' = [g \in Files |-> IF g \in Target[d] THEN o[g].w ELSE whole[g]]
            /\ half' = [g \in Files |-> IF g \in Target[d] THEN o[g].h ELSE half[g]]
        BY <1>6
      <3>2. /\ whole'[f] = IF f \in Target[d] THEN o[f].w ELSE whole[f]
            /\ half'[f] = IF f \in Target[d] THEN o[f].h ELSE half[f]
        BY <2>3, <3>1
      <3> QED BY <3>2
    <2>4. ASSUME NEW f \in Files
          PROVE  /\ Wholes[f] \subseteq Wholes'[f]
                 /\ Wholes'[f] \subseteq Wholes[f] \cup {d}
                 /\ Halves[f] \subseteq Halves'[f]
                 /\ Halves'[f] \subseteq Halves[f] \cup {d}
      <3>1. CASE f \in Target[d]
        BY <2>1, <2>2, <2>3, <3>1
      <3>2. CASE f \notin Target[d]
        BY <2>2, <2>3, <3>2
      <3> QED BY <3>1, <3>2
    <2>5. PICK s : s = IF threw THEN FailureStatus(d) ELSE e
      OBVIOUS
    <2>6. /\ s \in Statuses /\ s # "missing" /\ s \notin NotApplicable
          /\ s \in Good /\ d \notin Lenient => ~warned /\ ~threw
      <3>1. CASE threw
        BY <2>5, <3>1, FailureEntry
      <3>2. CASE ~threw
        BY <1>6, <2>5, <3>2, ExtractedEarned
      <3> QED
        BY <3>1, <3>2
    <2>7. s \in Good /\ (d \notin Lenient \/ d \in Phase(Main) \cup Phase(Web)) =>
               \A f \in Target[d] : site'[<<d, f>>] = "none" \/ d \in Wholes'[f]
      <3> SUFFICES ASSUME s \in Good, d \notin Lenient, NEW f \in Target[d]
                   PROVE  site'[<<d, f>>] = "none" \/ d \in Wholes'[f]
        BY <1>1
      <3>1. ~o[f].warn /\ ~o[f].throw
        BY <1>6, <2>6
      <3> QED
        BY <1>1, <1>2, <2>1, <2>2, <2>3, <3>1 DEF choice
    <2>8. Recorded(d, s)
      BY <1>6, <2>5
    <2>9. Told(d)'
      BY <1>1, <2>6, <2>7, <2>8, ToldBy
    <2>10. PICK r : r # "missing" /\ report' = [report EXCEPT ![d] = r]
      BY <2>6, <2>8, EntryKept DEF Recorded
    <2>11. UNCHANGED choice /\ at' = at + 1
      BY <1>2, <1>6
    <2> QED
      BY <1>0, <1>1, <1>3, <2>4, <2>9, <2>10, <2>11, OnePatched
  <1> QED
    <2>1. \/ Throws(d)
          \/ Skip(d) /\ at' = at + 1 /\ UNCHANGED <<app, pc, exit>>
          \/ \E o : 
             /\ \A f \in Target[d] : o[f] \in Outcomes(d, f, whole[f], half[f])
             /\ whole' = [f \in Files |-> IF f \in Target[d] THEN o[f].w ELSE whole[f]]
             /\ half' = [f \in Files |-> IF f \in Target[d] THEN o[f].h ELSE half[f]]
             /\ \E threw, warned, changed \in BOOLEAN :
                /\ threw <=> \E f \in Target[d] : o[f].throw
                /\ warned <=> \E f \in Target[d] : o[f].warn
                /\ \E s \in ExtractedStatuses(d, changed, warned) :
                     Recorded(d, IF threw THEN FailureStatus(d) ELSE s)
             /\ at' = at + 1 /\ pc' = pc
      BY <1>0, ZenonT(90) DEF PatchExtracted
    <2>2. CASE Throws(d)
      BY <1>4, <2>2
    <2>3. CASE Skip(d) /\ at' = at + 1 /\ UNCHANGED <<app, pc, exit>>
      BY <1>5, <2>3
    <2>4. ASSUME NEW o,
                 \A f \in Target[d] : o[f] \in Outcomes(d, f, whole[f], half[f]),
                 whole' = [f \in Files |-> IF f \in Target[d] THEN o[f].w ELSE whole[f]],
                 half' = [f \in Files |-> IF f \in Target[d] THEN o[f].h ELSE half[f]],
                 \E threw, warned, changed \in BOOLEAN :
                   /\ threw <=> \E f \in Target[d] : o[f].throw
                   /\ warned <=> \E f \in Target[d] : o[f].warn
                   /\ \E s \in ExtractedStatuses(d, changed, warned) :
                        Recorded(d, IF threw THEN FailureStatus(d) ELSE s),
                 at' = at + 1, pc' = pc
          PROVE  Untouched' /\ Reported'
      BY <1>6, <2>4
    <2> QED
      BY <2>1, <2>2, <2>3, <2>4

\* after one of the web view, of the texts that wait to be written.
LEMMA ReportWeb ==
    ASSUME Typed, Shape, Live => Untouched /\ Reported, PatchWeb, Live'
    PROVE  Untouched' /\ Reported'
  <1>0. PICK d, m : d = Plan[at] /\ m = Matches(d)
    OBVIOUS
  <1>1. /\ d \in Descriptors /\ at \in 1..Len(Plan) /\ d \in Phase(Web)
        /\ Target[d] \subseteq Files /\ m \subseteq Target[d]
        /\ \A f \in Target[d] \ m : site[<<d, f>>] = "none"
    BY <1>0, PlanPlace, Targets DEF PatchWeb, Typed, TypeOK, Matches
  <1>2. UNCHANGED <<choice, whole, half, draft, failed>> /\ pc = "patch" /\ at' = at + 1
    BY DEF PatchWeb, app
  <1>3. Live /\ DOMAIN todo = {} /\ Untouched /\ Reported
    BY <1>2 DEF Shape, Live
  <1>4. \A f \in Files : d \notin Wholes[f] /\ d \notin Halves[f]
    BY <1>0, <1>1, <1>3, NextUntouched
  <1>5. CASE Throws(d)
    BY <1>5 DEF Throws, Live
  <1>6. CASE Skip(d) /\ UNCHANGED <<todo, pc, exit>>
    <2>1. Wholes' = Wholes /\ Halves' = Halves
      BY <1>2, <1>6 DEF Wholes, Halves, InMemory
    <2> QED
      BY <1>0, <1>1, <1>2, <1>3, <1>6, <2>1, SkipReported
  \* Nothing is written, and the entry says so.
  <1>7. ASSUME NEW s \in Statuses, s \notin Good \cup NotApplicable, s # "missing",
               Recorded(d, s), UNCHANGED <<todo, pc>>
        PROVE  Untouched' /\ Reported'
    <2>1. Wholes' = Wholes /\ Halves' = Halves
      BY <1>2, <1>7 DEF Wholes, Halves, InMemory
    <2>2. Told(d)'
      BY <1>1, <1>4, <1>7, <2>1, ToldBy
    <2>3. PICK r : r # "missing" /\ report' = [report EXCEPT ![d] = r]
      BY <1>7, EntryKept DEF Recorded
    <2>4. \A f \in Files : /\ Wholes[f] \subseteq Wholes'[f]
                           /\ Wholes'[f] \subseteq Wholes[f] \cup {d}
                           /\ Halves[f] \subseteq Halves'[f]
                           /\ Halves'[f] \subseteq Halves[f] \cup {d}
      BY <2>1
    <2> QED
      BY <1>0, <1>1, <1>2, <1>3, <2>2, <2>3, <2>4, OnePatched
  <1>8. ASSUME NEW o, \A f \in m : o[f] \in Outcomes(d, f, whole[f], half[f]),
               \A f \in m : ~o[f].throw,
               NEW changed, changed = {f \in m : Changed(o[f], whole[f], half[f])},
               todo' = [f \in changed |-> o[f]], pc' = "write",
               NEW warned \in BOOLEAN, warned <=> \E f \in m : o[f].warn,
               Recorded(d, StatusOf(changed # {}, warned, d \in Required))
        PROVE  Untouched' /\ Reported'
    <2>1. ASSUME NEW f \in m
          PROVE  /\ whole[f] \subseteq o[f].w /\ o[f].w \subseteq whole[f] \cup {d}
                 /\ half[f] \subseteq o[f].h /\ o[f].h \subseteq half[f] \cup {d}
                 /\ o[f].warn \in BOOLEAN /\ o[f].throw \in BOOLEAN
                 /\ ~o[f].warn /\ ~o[f].throw =>
                      (site[<<d, f>>] = "none" \/ d \in o[f].w) /\ o[f].h = half[f]
      BY <1>8, <2>1, OutcomeEdits
    <2>2. DOMAIN todo' = changed /\ \A f \in changed : todo'[f] = o[f]
      BY <1>8
    <2>3. \A f \in Files : Wholes[f] = whole[f] /\ Halves[f] = half[f]
      BY <1>2, <1>3, InFiles
    <2>4. ASSUME NEW f \in Files
          PROVE  /\ f \in m => Wholes'[f] = o[f].w /\ Halves'[f] = o[f].h
                 /\ f \notin changed => Wholes'[f] = whole[f] /\ Halves'[f] = half[f]
                 /\ f \notin m => f \notin changed
      <3>1. /\ f \in changed => Wholes'[f] = o[f].w /\ Halves'[f] = o[f].h
            /\ f \notin changed => Wholes'[f] = whole[f] /\ Halves'[f] = half[f]
        BY <1>2, <1>8, <2>2 DEF Wholes, Halves, InMemory
      <3>2. f \in m /\ f \notin changed => o[f].w = whole[f] /\ o[f].h = half[f]
        BY <1>8 DEF Changed
      <3> QED
        BY <1>8, <3>1, <3>2
    <2>5. ASSUME NEW f \in Files
          PROVE  /\ Wholes[f] \subseteq Wholes'[f]
                 /\ Wholes'[f] \subseteq Wholes[f] \cup {d}
                 /\ Halves[f] \subseteq Halves'[f]
                 /\ Halves'[f] \subseteq Halves[f] \cup {d}
      BY <2>1, <2>3, <2>4
    <2>6. PICK s : s = StatusOf(changed # {}, warned, d \in Required)
      OBVIOUS
    <2>7. /\ s \in Statuses /\ s # "missing" /\ s \notin NotApplicable
          /\ s \in Good => ~warned
          /\ s = "skipped-optional" => changed = {}
      <3>1. (changed # {}) \in BOOLEAN /\ (d \in Required) \in BOOLEAN
        OBVIOUS
      <3>2. /\ s \in Statuses /\ s # "missing" /\ s \notin NotApplicable
            /\ s \in Good => ~warned
            /\ s = "skipped-optional" => ~(changed # {})
        BY <1>8, <2>6, <3>1, StatusEarned
      <3> QED
        BY <3>2
    <2>8. s \in Good /\ (d \notin Lenient \/ d \in Phase(Main) \cup Phase(Web)) =>
               \A f \in Target[d] : site'[<<d, f>>] = "none" \/ d \in Wholes'[f]
      <3> SUFFICES ASSUME s \in Good, NEW f \in Target[d]
                   PROVE  site'[<<d, f>>] = "none" \/ d \in Wholes'[f]
        OBVIOUS
      <3>1. f \in Files /\ site' = site
        BY <1>1, <1>2 DEF choice
      <3>2. CASE f \in m
        <4>1. ~o[f].warn /\ ~o[f].throw
          BY <1>8, <2>7, <3>2
        <4> QED
          BY <2>1, <2>4, <3>1, <3>2, <4>1
      <3>3. CASE f \notin m
        BY <1>1, <3>1, <3>3
      <3> QED
        BY <3>2, <3>3
    <2>9. s \in Good => \A f \in Files : d \notin Halves'[f]
      <3> SUFFICES ASSUME s \in Good, NEW f \in Files PROVE d \notin Halves'[f]
        OBVIOUS
      <3>1. CASE f \in m
        <4>1. ~o[f].warn /\ ~o[f].throw
          BY <1>8, <2>7, <3>1
        <4> QED
          BY <1>4, <2>1, <2>3, <2>4, <3>1, <4>1
      <3>2. CASE f \notin m
        BY <1>4, <2>3, <2>4, <3>2
      <3> QED
        BY <3>1, <3>2
    <2>10. s = "skipped-optional" => \A f \in Files : d \notin Wholes'[f] \cup Halves'[f]
      BY <1>4, <2>3, <2>4, <2>7
    <2>11. Recorded(d, s)
      BY <1>8, <2>6
    <2>12. Told(d)'
      <3>1. d \in Phase(Main) \cup Phase(Web) =>
               /\ s \in Good => \A f \in Files : d \notin Halves'[f]
               /\ s = "skipped-optional" => \A f \in Files : d \notin Wholes'[f] \cup Halves'[f]
        BY <2>9, <2>10
      <3>2. s \in Statuses /\ s \notin NotApplicable
        BY <2>7
      <3> QED
        BY <1>1, <2>8, <2>11, <3>1, <3>2, ToldBy
    <2>13. PICK r : r # "missing" /\ report' = [report EXCEPT ![d] = r]
      BY <2>7, <2>11, EntryKept DEF Recorded
    <2> QED
      BY <1>0, <1>1, <1>2, <1>3, <2>5, <2>12, <2>13, OnePatched
  <1>9. CASE Recorded(d, FailureStatus(d)) /\ UNCHANGED <<todo, pc>>
    BY <1>7, <1>9, FailureEntry
  <1>10. CASE Recorded(d, StatusOf(FALSE, TRUE, d \in Required)) /\ UNCHANGED <<todo, pc>>
    <2>1. PICK s : s = StatusOf(FALSE, TRUE, d \in Required)
      OBVIOUS
    <2>2. s \in {"failed-required", "skipped-optional"}
      BY <2>1 DEF StatusOf
    <2>3. s \in Statuses /\ s \notin Good \cup NotApplicable /\ s # "missing"
      BY <2>2 DEF Statuses, Good, NotApplicable
    <2> QED
      BY <1>7, <1>10, <2>1, <2>3
  <1> QED
    <2>1. \/ Throws(d)
          \/ Skip(d) /\ UNCHANGED <<todo, pc, exit>>
          \/ Recorded(d, FailureStatus(d)) /\ UNCHANGED <<todo, pc>>
          \/ Recorded(d, StatusOf(FALSE, TRUE, d \in Required)) /\ UNCHANGED <<todo, pc>>
          \/ \E o :
               /\ \A f \in m : o[f] \in Outcomes(d, f, whole[f], half[f])
               /\ \A f \in m : ~o[f].throw
               /\ \E changed : \E warned \in BOOLEAN :
                    /\ changed = {f \in m : Changed(o[f], whole[f], half[f])}
                    /\ warned <=> \E f \in m : o[f].warn
                    /\ todo' = [f \in changed |-> o[f]]
                    /\ pc' = "write"
                    /\ Recorded(d, StatusOf(changed # {}, warned, d \in Required))
      BY <1>0 DEF PatchWeb
    <2> QED
      BY <1>5, <1>6, <1>8, <1>9, <1>10, <2>1

\* A bundle that is missing leaves its descriptors without an entry.
LEMMA ReportFind ==
    ASSUME Typed, Shape, Live => Untouched /\ Reported, FindBundle, Live'
    PROVE  Untouched' /\ Reported'
  <1>1. UNCHANGED <<choice, whole, half, draft, todo, failed, exit>> /\ pc = "bundle" /\ at = 1
    BY DEF FindBundle, app, Shape
  <1>2. Live /\ DOMAIN todo = {} /\ Untouched /\ Reported
    BY <1>1 DEF Shape, Live
  <1>3. CASE found
    <2>1. Wholes' = Wholes /\ Halves' = Halves /\ UNCHANGED <<at, report>>
      BY <1>1, <1>3 DEF FindBundle, Wholes, Halves, InMemory
    <2> QED
      BY <1>1, <1>2, <2>1, NothingPatched
  <1>4. CASE ~found
    <2>1. /\ pc' = "patch" /\ at' = Len(Main) + 1
          /\ report' = [report EXCEPT ![UI] = "failed-required"]
      BY <1>4 DEF FindBundle
    <2>2. \A f \in Files : whole'[f] = {} /\ half'[f] = {}
      BY <1>1 DEF Shape
    <2>3. \A f \in Files : Wholes'[f] = {} /\ Halves'[f] = {}
      BY <1>1, <1>2, <2>1, <2>2 DEF Wholes, Halves, InMemory
    <2>4. \A d \in Descriptors : report'[d] = "missing"
      BY <1>1, <2>1, PlanAssumption DEF Shape
    <2>5. \A d \in Descriptors : Told(d)'
      BY <2>4 DEF Told, NotApplicable, Good
    <2>6. ~found' /\ \A i \in 1..(at' - 1) : ~(i > Len(Main))
      BY <1>1, <1>4, <2>1, PlanIsSequence DEF choice
    <2>7. Reported'
      BY <2>5, <2>6 DEF Reported
    <2>8. Untouched'
      BY <2>3 DEF Untouched
    <2> QED
      BY <2>7, <2>8
  <1> QED
    BY <1>3, <1>4

\* Writing the bundle's draft changes nothing that was reported,
LEMMA ReportReplaceMain ==
    ASSUME Typed, Shape, Live => Untouched /\ Reported, ReplaceMain, Live'
    PROVE  Untouched' /\ Reported'
  <1>1. /\ UNCHANGED <<choice, draft, at, todo, failed, exit>> /\ pc = "main" /\ pc' = "patch"
        /\ whole' = [whole EXCEPT ![Bundle] = draft.w]
        /\ half' = [half EXCEPT ![Bundle] = draft.h]
    BY DEF ReplaceMain
  <1>2. Live /\ DOMAIN todo = {} /\ Untouched /\ Reported
    BY <1>1 DEF Shape, Live
  <1>3. \A d \in Descriptors : report'[d] = report[d]
    BY PlanAssumption DEF ReplaceMain, Typed, TypeOK
  <1>4. ASSUME NEW f \in Files
        PROVE  /\ (IF f = Bundle THEN draft.w ELSE whole[f]) = whole'[f]
               /\ (IF f = Bundle THEN draft.h ELSE half[f]) = half'[f]
    BY <1>1 DEF Typed, TypeOK
  <1>5. Wholes' = [f \in Files |-> whole'[f]] /\ Halves' = [f \in Files |-> half'[f]]
    BY <1>1, <1>2 DEF Wholes, Halves, InMemory
  <1>6. /\ Wholes = [f \in Files |-> IF f = Bundle THEN draft.w ELSE whole[f]]
        /\ Halves = [f \in Files |-> IF f = Bundle THEN draft.h ELSE half[f]]
    BY <1>1, <1>2 DEF Wholes, Halves, InMemory
  <1>7. Wholes' = Wholes /\ Halves' = Halves
    BY <1>4, <1>5, <1>6
  <1> QED
    BY <1>1, <1>2, <1>3, <1>7, NothingPatched

\* nor does writing a web view asset,
LEMMA ReportReplace ==
    ASSUME Typed, Shape, Live => Untouched /\ Reported, Replace, Live'
    PROVE  Untouched' /\ Reported'
  <1>1. UNCHANGED <<choice, draft, at, report, failed, exit>> /\ pc = "write"
    BY DEF Replace
  <1>2. Live /\ Untouched /\ Reported
    BY <1>1 DEF Live
  <1>3. CASE DOMAIN todo = {} /\ pc' = "patch" /\ todo' = <<>> /\ UNCHANGED <<whole, half>>
    <2>1. DOMAIN todo' = {}
      BY <1>3
    <2>2. Wholes' = Wholes /\ Halves' = Halves
      BY <1>1, <1>3, <2>1 DEF Wholes, Halves, InMemory
    <2> QED
      BY <1>1, <1>2, <2>2, NothingPatched
  <1>4. ASSUME NEW f \in DOMAIN todo, whole' = [whole EXCEPT ![f] = todo[f].w],
               half' = [half EXCEPT ![f] = todo[f].h],
               todo' = [g \in DOMAIN todo \ {f} |-> todo[g]], pc' = pc
        PROVE  Untouched' /\ Reported'
    <2>1. DOMAIN todo' = DOMAIN todo \ {f} /\ \A g \in DOMAIN todo' : todo'[g] = todo[g]
      BY <1>4
    <2>2. f \in Files
      BY <1>4, Targets DEF Typed
    <2>3. ASSUME NEW g \in Files
          PROVE  /\ (IF g \in DOMAIN todo' THEN todo'[g].w ELSE whole'[g])
                      = (IF g \in DOMAIN todo THEN todo[g].w ELSE whole[g])
                 /\ (IF g \in DOMAIN todo' THEN todo'[g].h ELSE half'[g])
                      = (IF g \in DOMAIN todo THEN todo[g].h ELSE half[g])
      <3>1. CASE g = f
        BY <1>4, <2>1, <2>2, <3>1 DEF Typed, TypeOK
      <3>2. CASE g # f
        BY <1>4, <2>1, <3>2 DEF Typed, TypeOK
      <3> QED
        BY <3>1, <3>2
    <2>4. /\ Wholes = [g \in Files |-> IF g \in DOMAIN todo THEN todo[g].w ELSE whole[g]]
          /\ Halves = [g \in Files |-> IF g \in DOMAIN todo THEN todo[g].h ELSE half[g]]
      BY <1>1 DEF Wholes, Halves, InMemory
    <2>5. /\ Wholes' = [g \in Files |-> IF g \in DOMAIN todo' THEN todo'[g].w ELSE whole'[g]]
          /\ Halves' = [g \in Files |-> IF g \in DOMAIN todo' THEN todo'[g].h ELSE half'[g]]
      BY <1>1, <1>4 DEF Wholes, Halves, InMemory
    <2>6. Wholes' = Wholes /\ Halves' = Halves
      BY <2>3, <2>4, <2>5
    <2> QED
      BY <1>1, <1>2, <2>6, NothingPatched
  <1> QED
    BY <1>3, <1>4 DEF Replace, app

\* nor do the session's end and the program's.
LEMMA ReportRest ==
    ASSUME Typed, Shape, Live => Untouched /\ Reported, Live',
           Integrity \/ Finished \/ CloseAndExit \/ UNCHANGED vars
    PROVE  Untouched' /\ Reported'
  <1>1. ~Integrity
    BY DEF Integrity, Live
  <1>2. /\ UNCHANGED <<choice, whole, half, draft, at, todo, report>>
        /\ pc \in {"bundle", "main"} <=> pc' \in {"bundle", "main"}
        /\ Live
    <2>1. CASE Finished
      BY <2>1 DEF Finished, app, Live
    <2>2. CASE CloseAndExit
      BY <2>2 DEF CloseAndExit, app, Live, Typed, TypeOK
    <2>3. CASE UNCHANGED vars
      BY <2>3 DEF vars, app, Live
    <2> QED
      BY <1>1, <2>1, <2>2, <2>3
  <1>3. Wholes' = Wholes /\ Halves' = Halves
    BY <1>2 DEF Wholes, Halves, InMemory
  <1> QED
    BY <1>2, <1>3, NothingPatched

\* The invariant is inductive,
LEMMA InvStep == Inv /\ [Next]_vars => Inv'
  <1> SUFFICES ASSUME Inv, [Next]_vars PROVE Inv'
    OBVIOUS
  <1>1. Typed' /\ Shape'
    BY TypedStep, ShapeStep DEF Inv
  <1>2. ASSUME Live' PROVE Untouched' /\ Reported'
    BY <1>2, ReportMain, ReportExtracted, ReportWeb, ReportFind, ReportReplaceMain, ReportReplace,
       ReportRest DEF Inv, Next, Done
  <1> QED
    BY <1>1, <1>2 DEF Inv

\* and holds at the start.
LEMMA InvInit == Init => Inv
  BY TypedInit, ShapeInit, ReportInit DEF Inv

-----------------------------------------------------------------------------
(* An accepted app is patched, and the report is true.                     *)

\* The state of every run is well formed.
THEOREM PatchTypeCorrect == Spec => []TypeOK
  <1>1. Inv => TypeOK
    BY DEF Inv, Typed
  <1> QED
    BY <1>1, InvInit, InvStep, PTL DEF Spec

\* A run that ended well has dealt with every descriptor, the bundle's where
\* there is one, and the files hold what is told of them.
LEMMA EndedWell ==
    ASSUME Inv, exit = 0, NEW d \in Descriptors
    PROVE  /\ Told(d) /\ Target[d] \subseteq Files
           /\ found => report[d] # "missing"
           /\ \A f \in Files : Wholes[f] = whole[f] /\ Halves[f] = half[f]
  <1>1. Live /\ pc = "exited" /\ at = Len(Plan) + 1 /\ DOMAIN todo = {} /\ Reported
    BY DEF Inv, Shape, Live
  <1>2. PICK i \in 1..Len(Plan) : Plan[i] = d
    BY Placed
  <1>3. i \in 1..(at - 1)
    BY <1>1, PlanIsSequence
  <1> QED
    BY <1>1, <1>2, <1>3, InFiles, Targets DEF Reported

\* An app that passes the gate on critical failures, or whose report passes
\* the validation, has every edit that is required of it, wherever it is
\* called for.
THEOREM AcceptedAppIsPatched == Spec => []AcceptedIsPatched
  <1>1. Inv => AcceptedIsPatched
    <2> SUFFICES ASSUME Inv, exit = 0, enforce \/ Validated
                 PROVE  found /\ \A d \in Required \cap here \cap on : Unpatched(d) = {}
      BY DEF AcceptedIsPatched
    <2>1. CriticalFailures = {}
      BY DEF Inv, Shape, Validated
    <2>2. found
      <3>1. ~found => report[UI] = "failed-required"
        BY DEF Inv, Shape, Live
      <3> QED
        BY <2>1, <3>1 DEF CriticalFailures, Good, NotApplicable
    <2>3. ASSUME NEW d \in Required \cap here \cap on PROVE Unpatched(d) = {}
      <3>1. d \in Descriptors /\ d \notin Lenient
        BY PlanAssumption
      <3>2. Told(d) /\ report[d] # "missing" /\ \A f \in Target[d] : Wholes[f] = whole[f]
        BY <2>2, <3>1, EndedWell
      <3>3. report[d] \in Good
        BY <2>1, <3>2 DEF CriticalFailures, Told
      <3> QED
        BY <3>1, <3>2, <3>3 DEF Told, Unpatched
    <2> QED
      BY <2>2, <2>3
  <1> QED
    BY <1>1, InvInit, InvStep, PTL DEF Spec

\* What the report of a run that ended well says of a patch of the bundle or
\* of the web view is true of the files.
THEOREM ReportsAreTrue == Spec => []ReportIsTrue
  <1>1. Inv => ReportIsTrue
    <2> SUFFICES ASSUME Inv, exit = 0, NEW d \in Phase(Main) \cup Phase(Web)
                 PROVE  /\ report[d] \in Good =>
                             Unpatched(d) = {} /\ \A f \in Files : d \notin half[f]
                        /\ report[d] \in {"skipped-optional", "skipped-target", "skipped-disabled"}
                             => \A f \in Files : d \notin whole[f] \cup half[f]
      BY DEF ReportIsTrue
    <2>1. d \in Descriptors
      BY DEF Descriptors
    <2>2. /\ Told(d) /\ Target[d] \subseteq Files
          /\ \A f \in Files : Wholes[f] = whole[f] /\ Halves[f] = half[f]
      BY <2>1, EndedWell
    <2> QED
      BY <2>2 DEF Told, Unpatched, NotApplicable
  <1> QED
    BY <1>1, InvInit, InvStep, PTL DEF Spec

\* After a failure of the session nothing is written, and the run ends badly
\* even when every patch had succeeded.
THEOREM FailedSessionRejects == Spec => IntegrityRejects
  <1>1. Inv /\ [Next]_vars => [failed => app' = app /\ exit' # 0]_vars
    <2> SUFFICES ASSUME Inv, Next, failed PROVE (app' = app /\ exit' # 0) \/ UNCHANGED vars
      OBVIOUS
    <2>1. pc \in {"close", "exited"}
      BY DEF Inv, Shape, Typed
    <2>2. CASE pc = "close"
      <3>1. CloseAndExit
        BY <2>2 DEF Next, Integrity, FindBundle, PatchMain, ReplaceMain, PatchExtracted, PatchWeb,
                    Replace, Finished, Done
      <3>2. failed = TRUE /\ failed' \in {failed, TRUE}
        BY <3>1 DEF CloseAndExit, Inv, Typed, TypeOK
      <3>3. failed' = TRUE
        BY <3>2
      <3>4. exit' = 1 /\ app' = app
        BY <3>1, <3>3 DEF CloseAndExit
      <3> QED
        BY <3>4
    <2>3. CASE pc = "exited"
      BY <2>3 DEF Next, Integrity, FindBundle, PatchMain, ReplaceMain, PatchExtracted, PatchWeb,
                  Replace, Finished, CloseAndExit, Done
    <2> QED
      BY <2>1, <2>2, <2>3
  <1> QED
    BY <1>1, InvInit, InvStep, PTL DEF Spec, IntegrityRejects
=============================================================================
