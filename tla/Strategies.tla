----------------------------- MODULE Strategies -----------------------------
(***************************************************************************)
(* The catalog run with the strategies of module Optimizers, and what it   *)
(* shows of them.                                                          *)
(***************************************************************************)
EXTENDS StrategyRun, Optimizers

ASSUME StrategiesAssumption ==
    /\ Points = Keys
    /\ \A c \in Configs : \A i \in 0 .. c.budget : \A k \in Keys :
            Outcomes(i, k) \subseteq Trial(Objectives)

\* A walk over the domain meets every point once.
Enumerates(walk) ==
    \/ walk = <<>>
    \/ /\ walk \in Seq(Keys) /\ ToSet(walk) = Keys
       /\ \A i, j \in DOMAIN walk : walk[i] = walk[j] => i = j

(***************************************************************************)
(* The strategies of the catalog are those of module Optimizers.  Of the   *)
(* strategies of somebody else only that they have points to propose and   *)
(* do not turn into one of the catalog is known.                           *)
(***************************************************************************)
CatalogIsOptimizers(foreign) ==
    /\ \A o \in NewOptimizers \ foreign :
          /\ o.strategy \in AllStrategies
          /\ \E walk : Enumerates(walk) /\ o = NewOptimizer(o.strategy, walk)
    /\ \A o, count, seen :
          o.strategy \in AllStrategies => Propose(o, count, seen) = Asked(o, count, seen)
    /\ \A o, batch : o.strategy \in AllStrategies => Observe(o, batch) = Told(o, batch)
    /\ \A o \in foreign :
          /\ o.strategy \notin AllStrategies
          /\ \A count, seen : \A answer \in Propose(o, count, seen) :
                answer.points # <<>> /\ answer.optimizer \in foreign
          /\ \A batch : Observe(o, batch) \subseteq foreign

(***************************************************************************)
(* The reason a run gives for its end is the truth.  "budget" is given     *)
(* exactly when all of it is spent; "search_space_exhausted" only when     *)
(* every point of an enumerable domain was evaluated, though the walk that *)
(* proves it is shared with draws that come before it and skips what they  *)
(* found; a strategy never says "proposal_stalled" of a domain it can      *)
(* enumerate; and the strategies of the catalog never break the contract.  *)
(***************************************************************************)
StopReasonIsTrue ==
    /\ phase = "broken" => optimizer.strategy \notin AllStrategies
    /\ phase \in {"stopped", "ended"} =>
         /\ (stopReason = "budget") = (Len(trials) = config.budget)
         /\ stopReason = "search_space_exhausted" =>
                optimizer.walk # <<>> /\ ToSet(keys) = Keys
         /\ stopReason = "proposal_stalled" => optimizer.walk = <<>>
         /\ stopReason = "stagnation" =>
                \E n \in 0 .. Len(trials) - config.maxStagnation :
                    FrontIds(SubSeq(trials, 1, n)) = FrontIds(trials)

(***************************************************************************)
(* What a catalog strategy keeps (of a swarm the best trial of every       *)
(* particle, not where it is now) only gets better in kind: from one step  *)
(* to the next the trials kept that are feasible, and those that did not   *)
(* fail, never become fewer, whatever is drawn, replaced, accepted with    *)
(* some probability or selected.  So once a feasible point was found, none *)
(* of the strategies goes back to search without one.                      *)
(***************************************************************************)
FeasibleIn(population) == Cardinality({i \in DOMAIN population : population[i].feasible})

SuccessfulIn(population) ==
    Cardinality({i \in DOMAIN population : population[i].status = "success"})

KindsAreUpheld ==
    optimizer.strategy \in AllStrategies =>
        /\ FeasibleIn(optimizer'.population) >= FeasibleIn(optimizer.population)
        /\ SuccessfulIn(optimizer'.population) >= SuccessfulIn(optimizer.population)

FeasibilityIsNeverTraded == [][KindsAreUpheld]_vars

(***************************************************************************)
(* A run may stop, and a batch may end, anywhere in a generation.  What a  *)
(* strategy keeps then fits the number of trials it was told: populations  *)
(* are filled once, NSGA-II selects exactly at whole generations, pending  *)
(* points and the slots they are for match one to one, the ideal of MOEA/D *)
(* is that of all feasible trials, and the Bayesian optimizer trains on    *)
(* trials of one kind, no more than its window, with the best among them.  *)
(***************************************************************************)
IdealOf(feasible) ==
    IF feasible = {} THEN <<>>
    ELSE [d \in DOMAIN (CHOOSE t \in feasible : TRUE).vector |-> Min({t.vector[d] : t \in feasible})]

BookkeepingIsExact ==
    LET o == optimizer
        told == Len(trials)
        full == Min({told, PopulationSize})
        training == ToSet(TrainingTrials(o))
        feasible == {t \in ToSet(trials) : t.feasible}
        successful == {t \in ToSet(trials) : t.status = "success"}
        eligible == IF feasible = {} THEN successful ELSE feasible
    IN  o.strategy \in AllStrategies =>
        /\ o.observed = told
        /\ Len(o.slots) = Len(pending)
        /\ \A i, j \in DOMAIN o.slots : o.slots[i] = o.slots[j] /\ o.slots[i] # 0 => i = j
        /\ o.strategy \in Evolutionary => Len(o.population) = full
        /\ o.strategy = "nsga2" => Len(o.offspring) = (told - full) % PopulationSize
        /\ o.strategy = "moead" => o.ideal = IdealOf(feasible)
        /\ o.strategy = "bayes" =>
             /\ Cardinality(training) <= Window
             /\ training \subseteq eligible
             /\ eligible # {} =>
                  \E best \in training : \A t \in eligible \ {best} : Preferred(best, t)
=============================================================================
