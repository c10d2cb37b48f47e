------------------------------- MODULE Report -------------------------------
(***************************************************************************)
(* What ranking and the quality indicators promise about the trials of a   *)
(* run: every property is checked of every sequence of trials an archive   *)
(* can hold, each taken as a run of its own and split into two.            *)
(***************************************************************************)
EXTENDS ArchivePreference, Quality

Splits == {<<SubSeq(trials, 1, k), SubSeq(trials, k + 1, Len(trials))>> : k \in 1 .. Len(trials) - 1}

(***************************************************************************)
(* The sweep, the recursion over exclusive boxes and the one-dimensional   *)
(* case compute one thing: the number of unit cells of the reference box   *)
(* that a feasible trial dominates, whatever the number of objectives.     *)
(***************************************************************************)
VolumeIsExact ==
    Ended /\ Feasible(Run) # {} =>
        \A d \in 1 .. Len(problem.objectives) :
            LET vectors == {SubSeq(v, 1, d) : v \in Vectors(Feasible(Run))}
                derived == DeriveReferencePoint(vectors)
                lowest == Min(UNION {ToSet(v) : v \in vectors})
                Cells(reference) ==
                    {c \in [DOMAIN reference -> lowest .. Max(ToSet(derived))] :
                        Inside(c, reference) /\ \E v \in vectors : WeaklyDominates(v, c)}
            IN  \A shift \in 0 .. 2 :
                    LET reference == [i \in DOMAIN derived |-> derived[i] - shift]
                    IN  Hypervolume(vectors, reference) = Cardinality(Cells(reference))

(***************************************************************************)
(* The attainment curve of a report never falls, ends with the whole run   *)
(* and the volume of the reported front, and what it says of the budget    *)
(* is true: no trial after the last improvement adds a new vector to the   *)
(* front, and 99 % of the volume is reached no later than that.            *)
(***************************************************************************)
CurveEndsAtTheFront ==
    Ended /\ Feasible(Run) # {} =>
        \A steps \in 1 .. Len(trials) + 1 :
            LET report == MeasureRun(trials, <<>>, steps, None)
                curve == report.attainment
                points == curve.points
                last == LastImprovement(curve)
            IN  /\ Last(points).evaluations = Len(trials)
                /\ Last(points).hypervolume = report.front.hypervolume
                /\ \A i, j \in DOMAIN points : i < j =>
                     /\ points[i].evaluations < points[j].evaluations
                     /\ points[i].hypervolume <= points[j].hypervolume
                /\ EvaluationsFor(curve) \in 1 .. last
                /\ Vectors(ParetoFront(Run)) = Vectors(ParetoFront(FirstTrials(trials, last)))

(***************************************************************************)
(* Two runs compared in one box: a front covers all of another exactly     *)
(* when its epsilon is not positive, it then has at least the volume of    *)
(* the other, and strictly more unless the other covers it, too.  Every    *)
(* point of both fronts counts, because the box holds them all.            *)
(***************************************************************************)
ComparisonIsMonotone ==
    Ended =>
        \A split \in Splits :
            Feasible(Run) # {} =>
            LET report == MeasureRun(split[1], split[2], 1, None)
                c == report.comparison
                leftAll == c.right.size > 0 /\ c.leftCovers = c.right.size
                rightAll == c.left.size > 0 /\ c.rightCovers = c.left.size
            IN  /\ c.left.contributing = c.left.size /\ c.right.contributing = c.right.size
                /\ leftAll <=> c.leftEpsilon <= 0
                /\ leftAll => c.left.hypervolume >= c.right.hypervolume
                /\ leftAll /\ ~rightAll => c.left.hypervolume > c.right.hypervolume
                /\ leftAll /\ rightAll => c.left.hypervolume = c.right.hypervolume

(***************************************************************************)
(* Every part of a report says the same of where its reference point comes *)
(* from.  "Whoever reads the report supplied nothing, so the flag is       *)
(* corrected rather than left to describe the internal call."              *)
(***************************************************************************)
DerivationIsReported ==
    Ended /\ Feasible(Run) # {} =>
        \A split \in Splits, reference \in {None, DeriveReferencePoint(Vectors(Feasible(Run)))} :
            LET report == MeasureRun(split[1], split[2], 1, reference)
            IN  /\ report.derived = (reference = None)
                /\ report.front.derived = report.derived
                /\ report.comparison.derived = report.derived
                /\ report.comparison.left.derived = report.derived
                /\ report.comparison.right.derived = report.derived
                /\ report.attainment.derived = report.derived
=============================================================================
