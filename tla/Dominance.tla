----------------------------- MODULE Dominance -----------------------------
(***************************************************************************)
(* The assessment of a trial and the relations between trials: dominance,  *)
(* the exact feasible front (biasweave/dominance.py) and the two anchors   *)
(* the archive offers to the generator (biasweave/archive.py).             *)
(*                                                                         *)
(* Numbers are integers: a metric, a limit and a tolerance are counted in  *)
(* one unit, and a scale (a positive float that divides) is given by its   *)
(* reciprocal, the factor "weight".  A trial is its id, its status and     *)
(* what the assessment made of its metrics; the point, the metrics and the *)
(* error text are carried along by the code and decide nothing here.  The  *)
(* tolerance "epsilon" of dominates() has no caller that sets it: it is 0. *)
(***************************************************************************)
EXTENDS Integers, Sequences, FiniteSetsExt

CONSTANT Largest    \* the largest finite number

(***************************************************************************)
(* constraint_violation(): by how much a value misses a constraint, beyond *)
(* its tolerance, in units of its scale.                                   *)
(***************************************************************************)
ConstraintViolation(c, value) ==
    LET below == c.lower - value - c.tolerance
        above == value - c.upper - c.tolerance
    IN  CASE c.relation = "ge" -> Max({0, below * c.weight})
          [] c.relation = "le" -> Max({0, above * c.weight})
          [] c.relation = "between" -> Max({0, below * c.weight, above * c.weight})

(***************************************************************************)
(* The trials of a problem with n objectives.                              *)
(***************************************************************************)
Successful(n) ==
    [id : Nat, status : {"success"}, feasible : BOOLEAN, vector : [1 .. n -> Int],
     violation : Nat, worst : Nat]

Unsuccessful ==
    {t \in [id : Nat, status : {"failed"}, feasible : BOOLEAN, vector : {<<>>},
            violation : Nat, worst : Nat] : ~t.feasible}

Trial(n) == Successful(n) \union Unsuccessful

FailedTrial(id) ==
    [id |-> id, status |-> "failed", feasible |-> FALSE, vector |-> <<>>,
     violation |-> Largest + 1, worst |-> Largest + 1]

(***************************************************************************)
(* assess(): the sum of the squared violations, the largest one, and one   *)
(* component per objective, mirrored so that smaller is better.  A total   *)
(* or a component beyond the finite range raises, and _evaluate_one turns  *)
(* that into a failed trial, as it does when the evaluator raises.         *)
(***************************************************************************)
Assess(problem, id, metrics) ==
    LET violations == [i \in DOMAIN problem.constraints |->
            ConstraintViolation(problem.constraints[i],
                                metrics[problem.constraints[i].metric])]
        total == SumFunction([i \in DOMAIN violations |-> violations[i] * violations[i]])
        Component(o) == o.weight * (metrics[o.metric] - o.reference)
                        * (IF o.goal = "min" THEN 1 ELSE -1)
        vector == [i \in DOMAIN problem.objectives |-> Component(problem.objectives[i])]
        finite == total <= Largest
                  /\ \A i \in DOMAIN vector : vector[i] \in -Largest .. Largest
    IN  IF finite
        THEN [id |-> id, status |-> "success", feasible |-> total = 0, vector |-> vector,
              violation |-> total,
              worst |-> Max({0} \union {violations[i] : i \in DOMAIN violations})]
        ELSE FailedTrial(id)
-----------------------------------------------------------------------------
NoWorse(left, right) == \A i \in DOMAIN left : left[i] <= right[i]

Better(left, right) == \E i \in DOMAIN left : left[i] < right[i]

\* Mutation: a component may be worse as long as another one is better.
Dominates_AnyBetter(left, right) ==
    left.feasible /\ right.feasible /\ Better(left.vector, right.vector)

(***************************************************************************)
(* dominates(): a failed trial dominates nothing, a trial that succeeded   *)
(* dominates a failed one, feasible dominates infeasible, infeasible       *)
(* trials are compared by violation and then by their worst violation, and *)
(* feasible ones by their objectives.                                      *)
(***************************************************************************)
Dominates(left, right) ==
    /\ left.status = "success"
    /\ \/ right.status = "failed"
       \/ left.feasible /\ ~right.feasible
       \/ /\ ~left.feasible /\ ~right.feasible
          /\ \/ left.violation < right.violation
             \/ left.violation = right.violation /\ left.worst < right.worst
       \/ /\ left.feasible /\ right.feasible
          /\ NoWorse(left.vector, right.vector) /\ Better(left.vector, right.vector)

Feasible(trials) == {t \in trials : t.status = "success" /\ t.feasible}

\* pareto_front(); the code keeps the front sorted by id.
ParetoFront(trials) ==
    {t \in Feasible(trials) : ~\E other \in Feasible(trials) : Dominates(other, t)}

Ids(trials) == {t.id : t \in trials}
=============================================================================
