------------------------------ MODULE MCReport ------------------------------
(***************************************************************************)
(* Two and three objectives, with vectors for fronts of three trials, for  *)
(* ties and duplicates, and for incomparable trials behind a front.  Of    *)
(* three constraints over two metrics, tolerances are exactly met, the     *)
(* same total violation is reached with different worst ones (5, 0 and     *)
(* 3, 4), and a total beyond the finite range fails the trial.  Components *)
(* of 1 and 2, and of -1 and -2, saturate alike: <<1, -1>>, <<2, -1>>,     *)
(* <<2, -2>> and <<0, 0>> have equal sums, though some dominate others.    *)
(* The first trials of a run have fewer outcomes than the later ones.      *)
(***************************************************************************)
EXTENDS Report

Objective(metric, goal) ==
    [metric |-> metric, goal |-> goal, reference |-> 0, weight |-> 1, epsilon |-> 2]

Limits ==
    << [metric |-> "g", relation |-> "le", lower |-> 0, upper |-> 0,
        tolerance |-> 1, weight |-> 1],
       [metric |-> "h", relation |-> "between", lower |-> 0, upper |-> 2,
        tolerance |-> 0, weight |-> 1],
       [metric |-> "h", relation |-> "ge", lower |-> -1, upper |-> 0,
        tolerance |-> 1, weight |-> 2] >>

MCProblems ==
    { [objectives |-> objectives, constraints |-> Limits] :
        objectives \in { <<Objective("x", "min"), Objective("y", "max")>>,
                         <<Objective("x", "min"), Objective("y", "min"), Objective("z", "max")>> } }

Metrics(x, y, z, g, h) ==
    [m \in {"x", "y", "z", "g", "h"} |->
        CASE m = "x" -> x [] m = "y" -> y [] m = "z" -> z [] m = "g" -> g [] m = "h" -> h]

Infeasible == {Metrics(0, 0, 0, 6, 0), Metrics(1, 0, 0, 4, 6), Metrics(0, 0, 0, 6, 6)}

Measurements(p, id) ==
    CASE Len(p.objectives) = 2 ->
            {Metrics(2, 1, 0, 1, 0), Metrics(1, 0, 0, 0, 2), Metrics(2, 2, 0, 0, 1)}
            \union (IF id > 0 THEN {Metrics(1, 1, 0, 0, 0), Metrics(0, 0, 0, 0, 0)} ELSE {})
            \union (IF id > 1 THEN Infeasible ELSE {Metrics(0, 0, 0, 6, 0)})
      [] Len(p.objectives) = 3 ->
            {Metrics(0, 0, 0, 0, 0), Metrics(0, 1, 1, 0, 0), Metrics(1, 0, 1, 0, 0)}
            \union (IF id > 0 THEN {Metrics(1, 0, 0, 0, 0), Metrics(0, 1, 0, 0, 0)} ELSE {})

MCOutcomes(p, id) == {FailedTrial(id)} \union {Assess(p, id, m) : m \in Measurements(p, id)}
=============================================================================
