------------------------------ MODULE Quality ------------------------------
(***************************************************************************)
(* The quality indicators of biasweave/quality.py.  Objective vectors have *)
(* integer components, and the margin of a derived reference point is the  *)
(* integer Margin times the span.  The limit on the size of a front with   *)
(* three or more objectives, spacing and extent are left out.              *)
(***************************************************************************)
EXTENDS Dominance, Rounding, SequencesExt

CONSTANT Margin

DegenerateSpan == 1

Vectors(trialSet) == {t.vector : t \in trialSet}

WeaklyDominates(a, b) == \A i \in DOMAIN a : a[i] <= b[i]

Inside(v, reference) == \A i \in DOMAIN v : v[i] < reference[i]

\* sorted(): lexicographic order.
Sorted(vectors) ==
    SetToSortSeq(vectors, LAMBDA a, b :
        \E i \in DOMAIN a : a[i] < b[i] /\ \A j \in 1 .. i - 1 : a[j] = b[j])

\* Mutation: a vector is kept unless it equals one that was kept.
Nondominated_Unique(vectors) == Sorted(vectors)

(***************************************************************************)
(* _nondominated(): in sorted order, a vector is kept unless one that was  *)
(* kept before weakly dominates it.                                        *)
(***************************************************************************)
Nondominated(vectors) ==
    FoldLeft(LAMBDA kept, v :
                IF \E i \in DOMAIN kept : WeaklyDominates(kept[i], v) THEN kept
                ELSE Append(kept, v),
             <<>>, Sorted(vectors))

Box(v, reference) ==
    FoldLeft(LAMBDA volume, i : volume * (reference[i] - v[i]), 1,
             [i \in DOMAIN v |-> i])

\* _hypervolume_2d(): one rectangle per vector, in order of the first component.
Sweep(vectors, reference) ==
    FoldLeft(LAMBDA state, v :
                [total |-> state.total + (reference[1] - v[1]) * (state.previous - v[2]),
                 previous |-> v[2]],
             [total |-> 0, previous |-> reference[2]], vectors).total

Joined(a, b) == [i \in DOMAIN a |-> Max({a[i], b[i]})]

(***************************************************************************)
(* _hypervolume_recursive(): the box of each vector without what the later *)
(* vectors already take of it.                                             *)
(***************************************************************************)
RECURSIVE Exclusive(_, _)
Exclusive(vectors, reference) ==
    IF vectors = <<>> THEN 0
    ELSE LET clipped == {Joined(Head(vectors), Tail(vectors)[i]) : i \in DOMAIN Tail(vectors)}
         IN  Box(Head(vectors), reference)
             - Exclusive(Nondominated(clipped), reference)
             + Exclusive(Tail(vectors), reference)

\* hypervolume(): vectors outside the box are dropped first.
Hypervolume(vectors, reference) ==
    LET front == Nondominated({v \in vectors : Inside(v, reference)})
    IN  CASE front = <<>> -> 0
          [] front # <<>> /\ Len(reference) = 1 ->
                reference[1] - Min({front[i][1] : i \in DOMAIN front})
          [] front # <<>> /\ Len(reference) = 2 -> Sweep(front, reference)
          [] OTHER -> Exclusive(front, reference)

\* Mutation: an objective without a span gets no margin.
DeriveReferencePoint_NoSpan(vectors) ==
    LET Column(i) == {v[i] : v \in vectors}
    IN  [i \in DOMAIN (CHOOSE v \in vectors : TRUE) |->
            Max(Column(i)) + Margin * (Max(Column(i)) - Min(Column(i)))]

(***************************************************************************)
(* derive_reference_point(): beyond the worst value of each objective by a *)
(* margin of the span, or of DegenerateSpan when there is none.            *)
(***************************************************************************)
DeriveReferencePoint(vectors) ==
    LET Column(i) == {v[i] : v \in vectors}
        Span(i) == Max(Column(i)) - Min(Column(i))
    IN  [i \in DOMAIN (CHOOSE v \in vectors : TRUE) |->
            Max(Column(i)) + Margin * (IF Span(i) > 0 THEN Span(i) ELSE DegenerateSpan)]

\* coverage(): how many vectors of right are weakly dominated by one of left.
Covers(left, right) ==
    Cardinality({t \in right : \E s \in left : WeaklyDominates(s.vector, t.vector)})

\* epsilon_indicator(): the shift after which left weakly dominates right.
EpsilonIndicator(left, right) ==
    LET Shift(s, t) == Max({s.vector[i] - t.vector[i] : i \in DOMAIN s.vector})
    IN  Max({Min({Shift(s, t) : s \in left}) : t \in right})
-----------------------------------------------------------------------------
\* No reference point, or nothing to report.
None == <<>>

\* _measure(): always marked as measured against a reference that was supplied.
Measure(frontier, reference) ==
    [reference |-> reference, derived |-> FALSE,
     hypervolume |-> Hypervolume(Vectors(frontier), reference),
     size |-> Cardinality(frontier),
     contributing |-> Cardinality({t \in frontier : Inside(t.vector, reference)})]

\* _with_derivation(): the mark is corrected by whoever derived the reference.
WithDerivation(quality, derived) ==
    IF derived THEN [quality EXCEPT !.derived = TRUE] ELSE quality

\* _resolve_reference(): what is explicit wins over what can be derived.
ResolveReference(vectors, reference) ==
    IF reference # None THEN [point |-> reference, derived |-> FALSE]
    ELSE [point |-> DeriveReferencePoint(vectors), derived |-> TRUE]

\* Mutation: the divisor is the number of steps asked for.
Cuts_Steps(length, steps) ==
    LET taken == Min({steps, length})
    IN  {Rounded(length * i, steps) : i \in 1 .. taken}

\* The prefixes the curve is measured at.
Cuts(length, steps) ==
    LET taken == Min({steps, length})
    IN  {Rounded(length * i, taken) : i \in 1 .. taken}

FirstTrials(trials, n) == {trials[i] : i \in 1 .. n}

(***************************************************************************)
(* attainment_curve(): the front of each prefix, measured in one box.      *)
(***************************************************************************)
AttainmentCurve(trials, steps, reference) ==
    LET resolved == ResolveReference(Vectors(Feasible(ToSet(trials))), reference)
        cuts == SetToSortSeq(Cuts(Len(trials), steps), <)
        Point(cut) ==
            LET front == ParetoFront(FirstTrials(trials, cut))
            IN  [evaluations |-> cut, size |-> Cardinality(front),
                 hypervolume |-> Hypervolume(Vectors(front), resolved.point)]
    IN  [reference |-> resolved.point, derived |-> resolved.derived,
         points |-> [i \in DOMAIN cuts |-> Point(cuts[i])]]

FinalHypervolume(curve) ==
    IF curve.points = <<>> THEN 0 ELSE Last(curve.points).hypervolume

\* last_improvement: the evaluations at which the best volume was first seen.
LastImprovement(curve) ==
    FoldLeft(LAMBDA state, p :
                IF p.hypervolume > state.best
                THEN [best |-> p.hypervolume, improved |-> p.evaluations] ELSE state,
             [best |-> 0, improved |-> 0], curve.points).improved

\* evaluations_for(): the first point with at least 99 % of the final volume.
EvaluationsFor(curve) ==
    LET final == FinalHypervolume(curve)
        reached == {p \in ToSet(curve.points) : 100 * p.hypervolume >= 99 * final}
    IN  IF final <= 0 THEN 0 ELSE Min({p.evaluations : p \in reached})

(***************************************************************************)
(* compare_fronts(): both measured in the box derived from their union.    *)
(***************************************************************************)
CompareFronts(left, right, reference) ==
    LET resolved == ResolveReference(Vectors(left) \union Vectors(right), reference)
        Side(frontier) == WithDerivation(Measure(frontier, resolved.point), resolved.derived)
        both == left # {} /\ right # {}
    IN  [reference |-> resolved.point, derived |-> resolved.derived,
         left |-> Side(left), right |-> Side(right),
         leftCovers |-> Covers(left, right), rightCovers |-> Covers(right, left),
         leftEpsilon |-> IF both THEN EpsilonIndicator(left, right) ELSE Largest,
         rightEpsilon |-> IF both THEN EpsilonIndicator(right, left) ELSE Largest]

\* _comparison_derivation(): the same correction for a comparison.
ComparisonDerivation(comparison, derived) ==
    IF ~derived THEN comparison
    ELSE [comparison EXCEPT !.derived = TRUE,
            !.left = WithDerivation(comparison.left, TRUE),
            !.right = WithDerivation(comparison.right, TRUE)]

(***************************************************************************)
(* measure_run(): the reference is derived from every feasible trial of    *)
(* both runs, and then handed to every part as if it had been supplied.    *)
(* The sequence compare is <<>> when there is no second run.               *)
(***************************************************************************)
MeasureRun(trials, compare, steps, reference) ==
    LET pool == Vectors(Feasible(ToSet(trials) \union ToSet(compare)))
        resolved == ResolveReference(pool, reference)
        frontier == ParetoFront(ToSet(trials))
    IN  [reference |-> resolved.point, derived |-> resolved.derived,
         front |-> WithDerivation(Measure(frontier, resolved.point), resolved.derived),
         attainment |-> AttainmentCurve(trials, steps, resolved.point),
         comparison |->
            IF compare = <<>> THEN None
            ELSE ComparisonDerivation(
                    CompareFronts(frontier, ParetoFront(ToSet(compare)), resolved.point),
                    resolved.derived)]
=============================================================================
