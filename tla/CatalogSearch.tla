--------------------------- MODULE CatalogSearch ---------------------------
(***************************************************************************)
(* What a catalog run promises, whatever its number of workers: the search *)
(* that one thread would carry out, in which a strategy offers a batch of  *)
(* points nobody has proposed before, the whole batch is evaluated, and    *)
(* the strategy is told the trials in the order of its offer.  The budget  *)
(* is an upper bound that no offer crosses.                                *)
(***************************************************************************)
EXTENDS Integers, Sequences

CONSTANTS
    NewOptimizers,     \* the optimizers a run may start with
    Propose(_, _, _),  \* the answers to ask: (optimizer, count, seen keys)
    Observe(_, _),     \* the optimizers after tell: (optimizer, trials)
    Outcomes(_, _)     \* the trials an evaluation may give: (id, key)

VARIABLES config, optimizer, keys, trials, offered

searchVars == <<config, optimizer, keys, trials, offered>>

Remaining == config.budget - Len(trials)

Wanted == IF config.batchSize <= Remaining THEN config.batchSize ELSE Remaining

\* The points are new, and there are no more than were asked for.
Acceptable(points, count) ==
    /\ Len(points) <= count
    /\ \A i, j \in DOMAIN points : points[i] = points[j] => i = j
    /\ \A i \in DOMAIN points, j \in DOMAIN keys : points[i] # keys[j]

Evaluations(points) ==
    {batch \in [DOMAIN points -> UNION {Outcomes(Len(trials) + i - 1, points[i]) :
                                            i \in DOMAIN points}] :
        \A i \in DOMAIN points : batch[i] \in Outcomes(Len(trials) + i - 1, points[i])}

SearchInit ==
    /\ optimizer \in NewOptimizers
    /\ keys = <<>> /\ trials = <<>> /\ offered = <<>>

Offer ==
    /\ offered = <<>> /\ offered' # <<>> /\ Remaining > 0
    /\ Acceptable(offered', Wanted)
    /\ \E answer \in Propose(optimizer, Wanted, {keys[i] : i \in DOMAIN keys}) :
         offered' = answer.points /\ optimizer' = answer.optimizer
    /\ UNCHANGED <<config, keys, trials>>

\* The strategy has no more points to offer.
GiveUp ==
    /\ offered = <<>> /\ Remaining > 0
    /\ \E answer \in Propose(optimizer, Wanted, {keys[i] : i \in DOMAIN keys}) :
         answer.points = <<>> /\ optimizer' = answer.optimizer
    /\ UNCHANGED <<config, keys, trials, offered>>

Complete ==
    /\ offered # <<>> /\ offered' = <<>>
    /\ \E batch \in Evaluations(offered) :
         /\ trials' = trials \o batch
         /\ optimizer' \in Observe(optimizer, batch)
    /\ keys' = keys \o offered
    /\ UNCHANGED config

SearchNext == Offer \/ GiveUp \/ Complete

SearchSpec == SearchInit /\ [][SearchNext]_searchVars
=============================================================================
