---------------------------- MODULE MCStrategies ----------------------------
(***************************************************************************)
(* All strategies over a domain of ten points, with and without a walk,    *)
(* in batches that straddle the generations of a population of five, and a *)
(* strategy of somebody else that repeats what it proposed.                *)
(***************************************************************************)
EXTENDS Strategies

MCKeys == 1 .. 10

MCWalk == [i \in 1 .. 10 |-> i]

\* An attempt finds the last of the points nobody has seen.
MCDrawn(unseen) == IF unseen = {} THEN {} ELSE {Max(unseen)}

MCConfigs ==
    LET Config(batchSize, budget, workers, maxStagnation, timed) ==
            [batchSize |-> batchSize, budget |-> budget, workers |-> workers,
             maxStagnation |-> maxStagnation, timed |-> timed]
    IN  {Config(3, 11, 2, 6, FALSE), Config(6, 8, 1, 0, TRUE)}

Careless == NewOptimizer("careless", <<>>)

MCNewOptimizers ==
    {NewOptimizer(s, walk) : s \in AllStrategies, walk \in {<<>>, MCWalk}} \union {Careless}

MCPropose(o, count, seen) ==
    IF o = Careless
    THEN {[points |-> <<k>>, reason |-> Unexplained, optimizer |-> o] : k \in {1, 2}}
    ELSE Asked(o, count, seen)

MCObserve(o, batch) == IF o = Careless THEN {o} ELSE Told(o, batch)

Vector(key) == CASE key = 3 -> <<1, 1>> [] key = 4 -> <<0, 2>> [] key = 6 -> <<2, 0>>
                 [] key = 8 -> <<2, 2>> [] key = 9 -> <<1, 2>> [] key = 10 -> <<0, 1>>
                 [] OTHER -> <<0, 3>>

Measured(id, key, vector, violation) ==
    [id |-> id, status |-> "success", feasible |-> violation = 0, vector |-> vector,
     violation |-> violation, worst |-> violation]

\* Points 1 and 7 fail; 2 and 5 are infeasible, and 4 fails now and then.
MCOutcomes(id, key) ==
    CASE key \in {1, 7} -> {FailedTrial(id)}
      [] key \in {2, 5} -> {Measured(id, key, Vector(key), key)}
      [] key = 4 -> {Measured(id, key, Vector(key), 0), FailedTrial(id)}
      [] OTHER -> {Measured(id, key, Vector(key), 0)}
=============================================================================
