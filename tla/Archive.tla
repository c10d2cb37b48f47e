------------------------------ MODULE Archive ------------------------------
(***************************************************************************)
(* The archive of biasweave/archive.py as both runners drive it            *)
(* (strategy.py, engine.py): the trials of a batch are added one by one,   *)
(* and after the batch the runner compares the ids of the front with those *)
(* it had before, to decide whether the run stagnates.                     *)
(***************************************************************************)
EXTENDS Dominance

CONSTANTS
    Problems,          \* the optimization problems
    Outcomes(_, _),    \* the trials an evaluation may give: (problem, id)
    Budget, BatchSize

VARIABLES
    problem,
    trials,      \* all trials of the run, in order
    archived,    \* those the archive keeps: the successful ones
    frontier,    \* the front the archive keeps
    signature,   \* the ids of the front when the batch was asked for
    told,        \* how many trials of the batch were added
    stagnation   \* evaluations since the last batch that changed the front

vars == <<problem, trials, archived, frontier, signature, told, stagnation>>

ASSUME ArchiveAssumption ==
    /\ Budget \in Nat
    /\ BatchSize \in Nat \ {0}
    /\ \A p \in Problems : Len(p.objectives) \in Nat
    /\ \A p \in Problems : \A i \in 0 .. Budget : \A t \in Outcomes(p, i) :
            t \in Trial(Len(p.objectives)) /\ t.id = i

Init ==
    /\ problem \in Problems
    /\ trials = <<>> /\ archived = {} /\ frontier = {}
    /\ signature = {} /\ told = 0 /\ stagnation = 0

(***************************************************************************)
(* Archive.add() for the next trial of the batch.                          *)
(***************************************************************************)
Add ==
    /\ told < BatchSize /\ Len(trials) < Budget
    /\ \E t \in Outcomes(problem, Len(trials)) :
         /\ trials' = Append(trials, t)
         /\ IF t.status = "success"
            THEN archived' = archived \union {t} /\ frontier' = ParetoFront(archived')
            ELSE UNCHANGED <<archived, frontier>>
    /\ told' = told + 1
    /\ UNCHANGED <<problem, signature, stagnation>>

\* Mutation: the front "grew" when it has another size.
EndBatch_BySize ==
    /\ told > 0
    /\ stagnation' = IF Cardinality(frontier) # Cardinality(signature)
                     THEN 0 ELSE stagnation + told
    /\ signature' = Ids(frontier)
    /\ told' = 0
    /\ UNCHANGED <<problem, trials, archived, frontier>>

(***************************************************************************)
(* The end of a batch: frontier_grew, and the count of evaluations that    *)
(* did not change the front.                                               *)
(***************************************************************************)
EndBatch ==
    /\ told > 0
    /\ stagnation' = IF Ids(frontier) # signature THEN 0 ELSE stagnation + told
    /\ signature' = Ids(frontier)
    /\ told' = 0
    /\ UNCHANGED <<problem, trials, archived, frontier>>

Next == Add \/ EndBatch

Spec == Init /\ [][Next]_vars
-----------------------------------------------------------------------------
\* Mutation: the worst violation does not break a tie.
BestInfeasible_TotalOnly ==
    LET infeasible == {t \in archived : ~t.feasible}
    IN  {t \in infeasible : \A other \in infeasible :
            \/ t.violation < other.violation
            \/ t.violation = other.violation /\ t.id <= other.id}

\* best_infeasible(): the infeasible trial with the smallest violation.
BestInfeasible ==
    LET infeasible == {t \in archived : ~t.feasible}
    IN  {t \in infeasible : \A other \in infeasible :
            \/ t.violation < other.violation
            \/ t.violation = other.violation /\ t.worst < other.worst
            \/ t.violation = other.violation /\ t.worst = other.worst /\ t.id <= other.id}

\* The objective cell of a trial: its components in units of the epsilons.
Cell(t) == [i \in DOMAIN t.vector |-> t.vector[i] \div problem.objectives[i].epsilon]

SquaredDistance(left, right) ==
    SumFunction([i \in DOMAIN left |-> (left[i] - right[i]) * (left[i] - right[i])])

\* sparse_anchor(): of the front's least crowded cells, the most remote trial.
SparseAnchor ==
    IF Cardinality(frontier) <= 1 THEN frontier
    ELSE LET Occupancy(t) == Cardinality({u \in frontier : Cell(u) = Cell(t)})
             fewest == Min({Occupancy(t) : t \in frontier})
             Remote(t) == Min({SquaredDistance(t.vector, u.vector) : u \in frontier \ {t}})
             candidates == {t \in frontier : Occupancy(t) = fewest}
         IN  {t \in candidates : \A u \in candidates :
                \/ Remote(t) > Remote(u)
                \/ Remote(t) = Remote(u) /\ t.id <= u.id}
-----------------------------------------------------------------------------
TypeOK ==
    /\ problem \in Problems
    /\ trials \in Seq(Trial(Len(problem.objectives)))
    /\ archived \subseteq Successful(Len(problem.objectives))
    /\ frontier \subseteq archived
    /\ signature \subseteq 0 .. Budget
    /\ told \in 0 .. BatchSize
    /\ stagnation \in Nat

(***************************************************************************)
(* The archive rebuilds its front from everything it keeps and drops a     *)
(* trial the moment one dominates it.  Whatever was ever found to be       *)
(* feasible is on the front or dominated by a trial that is: no trial is   *)
(* pushed off by one that is itself no longer there.  Of integers: a       *)
(* violation of floats that is too small may round to none.                *)
(***************************************************************************)
FrontCovers ==
    \A i \in DOMAIN trials :
        trials[i].feasible =>
            \E t \in frontier : t = trials[i] \/ Dominates(t, trials[i])

(***************************************************************************)
(* Stagnation is decided by comparing the ids of the front before and      *)
(* after a batch, though within the batch trials may enter and leave.  The *)
(* count starts again exactly when a trial of this batch is on the front   *)
(* the batch ends with: a batch cannot shrink the front, or exchange old   *)
(* trials for old ones, and count as progress.                             *)
(***************************************************************************)
ProgressIsANewTrial ==
    [][told' = 0 /\ told > 0 =>
        (stagnation' = 0) =
            (\E i \in (Len(trials) - told + 1) .. Len(trials) : trials[i] \in frontier')]_vars

(***************************************************************************)
(* The anchors the generator refines and repairs from are single trials,   *)
(* and no archived trial of the same kind dominates them.                  *)
(***************************************************************************)
AnchorsAreUndominated ==
    /\ Cardinality(SparseAnchor) = Cardinality(Ids(SparseAnchor))
    /\ frontier # {} => Cardinality(SparseAnchor) = 1
    /\ (\E t \in archived : ~t.feasible) => Cardinality(BestInfeasible) = 1
    /\ \A anchor \in SparseAnchor \union BestInfeasible, t \in archived :
            t.feasible = anchor.feasible => ~Dominates(t, anchor)
=============================================================================
