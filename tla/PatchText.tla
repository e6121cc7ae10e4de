------------------------------- MODULE PatchText -------------------------------
(***************************************************************************)
(* What a text patch works on.  The patches of the repository rewrite the   *)
(* minified bundles of the app by searching them for pieces of text.  Here  *)
(* a bundle is a function from the places a patch looks at to the form each *)
(* of them has:                                                             *)
(*   none   the bundle holds nothing of this place                          *)
(*   old    the text upstream ships and the patch can rewrite               *)
(*   odd    the place is there, in a shape the patch does not know          *)
(*   new    the text the patch writes                                       *)
(* A patch is an operator from a bundle to an outcome: the bundle it        *)
(* returns, whether it wrote a warning, and whether it threw.               *)
(***************************************************************************)

\* What a place can hold in a bundle as upstream ships it.
Fresh == {"none", "odd", "old"}

\* A place the patch cannot do without.
Seam == {"odd", "old"}

\* A helper the patch adds: upstream never has it.
Added == {"none"}

Keep(t) == [text |-> t, warned |-> FALSE, threw |-> FALSE]

Warn(t) == [text |-> t, warned |-> TRUE, threw |-> FALSE]

Throw(t) == [text |-> t, warned |-> FALSE, threw |-> TRUE]

KeepOrWarn(t, bad) == IF bad THEN Warn(t) ELSE Keep(t)

Has(t, ps, form) == \E p \in ps : t[p] = form

All(t, ps, form) == \A p \in ps : t[p] = form

\* The bundle with the places of ps in their new form.
Put(t, ps) == [p \in DOMAIN t |-> IF p \in ps THEN "new" ELSE t[p]]

\* The bundle with every known old form among ps rewritten.
Rewrite(t, ps) == Put(t, {p \in ps : t[p] = "old"})

\* One place: done already, rewritten, or reported when its shape is unknown.
Single(t, p) == KeepOrWarn(Rewrite(t, {p}), t[p] = "odd")

\* As Single, and reported too when the bundle holds nothing of the place.
Demand(t, p) == KeepOrWarn(Rewrite(t, {p}), t[p] \notin {"old", "new"})

\* Several seams that are rewritten together or not at all.
Together(t, ps) ==
    IF All(t, ps, "new") THEN Keep(t)
    ELSE IF All(t, ps, "old") THEN Keep(Put(t, ps))
    ELSE Warn(t)

\* The same, in a bundle that may not have the feature.
TogetherIf(t, ps, feature) == IF t[feature] = "none" THEN Keep(t) ELSE Together(t, ps)

\* Every match of one pattern: a warning only when none of them was known.
Sweep(t, ps) ==
    KeepOrWarn(Rewrite(t, ps), ~Has(t, ps, "old") /\ ~Has(t, ps, "new") /\ Has(t, ps, "odd"))

\* Every match of a pattern, too: what is left of it is only reported by a run
\* that rewrote nothing.
Known(t, ps) == KeepOrWarn(Rewrite(t, ps), ~Has(t, ps, "old") /\ Has(t, ps, "odd"))

\* Places that must be there: anything but the known forms makes the patch
\* throw, and what it had rewritten is dropped with the exception.
Must(t, ps) == IF \A p \in ps : t[p] \in {"old", "new"} THEN Keep(Rewrite(t, ps)) ELSE Throw(t)

\* As Together, for seams whose disagreement makes the patch throw.
MustTogether(t, ps) == IF Together(t, ps).warned THEN Throw(t) ELSE Together(t, ps)

\* One pattern that must match at exactly one of the places.
Only(t, ps) ==
    IF \E p \in ps : t[p] \in {"old", "new"} /\ \A q \in ps \ {p} : t[q] \notin {"old", "new"}
    THEN Keep(Rewrite(t, ps))
    ELSE Throw(t)

\* Two patches one after the other.
Then(out, next(_)) ==
    LET more == next(out.text)
    IN IF out.threw THEN out
       ELSE [more EXCEPT !.warned = @ \/ out.warned]
=============================================================================
