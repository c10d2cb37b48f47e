---------------------------- MODULE StrategyRun ----------------------------
(***************************************************************************)
(* The runner of the optimizer catalog: the loop of strategy.py over the   *)
(* ask/tell contract of optimizers/base.py.  A batch is asked for, its     *)
(* points are evaluated by a pool of workers that finish in any order, and *)
(* when all are done the trials are told in the order of the proposal.     *)
(* Nothing is written before the run has stopped.                          *)
(*                                                                         *)
(* The strategies are parameters here; module Optimizers defines them and  *)
(* module Strategies puts the two together.  Each trial carries its id,    *)
(* and its point is the key at the same place of keys.                     *)
(***************************************************************************)
EXTENDS Dominance

CONSTANTS
    Points,            \* the keys of the decoded points
    Configs,           \* the configurations of a run
    NewOptimizers,     \* create_optimizer()
    Propose(_, _, _),  \* _ask(): (optimizer, count, seen keys)
    Observe(_, _),     \* _tell(): (optimizer, trials)
    Outcomes(_, _)     \* _evaluate_one(): (id, key)

VARIABLES
    config,      \* batchSize, budget, workers, maxStagnation and timed
    optimizer,   \* the state of the strategy
    keys,        \* the keys told to it, _seen_keys of the contract
    trials,      \* the trials of the run
    pending,     \* the batch that was asked for and not told yet
    results,     \* the trials of those of its points that are evaluated
    stagnation,  \* evaluations since the last batch that changed the front
    phase,       \* "running", "stopped", "ended", or "broken" by an exception
    stopReason

vars == <<config, optimizer, keys, trials, pending, results, stagnation, phase, stopReason>>

NoReason == "none"

ASSUME StrategyRunAssumption ==
    /\ \A c \in Configs :
         /\ c.batchSize \in Nat \ {0} /\ c.budget \in Nat \ {0}
         /\ c.workers \in Nat \ {0} /\ c.maxStagnation \in Nat
         /\ \A i \in 0 .. c.budget : \A k \in Points : \A t \in Outcomes(i, k) : t.id = i

Init ==
    /\ config \in Configs
    /\ optimizer \in NewOptimizers
    /\ keys = <<>> /\ trials = <<>> /\ pending = <<>> /\ results = <<>>
    /\ stagnation = 0 /\ phase = "running" /\ stopReason = NoReason
-----------------------------------------------------------------------------
Left == config.budget - Len(trials)

Count == IF config.batchSize <= Left THEN config.batchSize ELSE Left

Stagnated == config.maxStagnation # 0 /\ stagnation >= config.maxStagnation

Between == phase = "running" /\ pending = <<>>

Stop(reason) ==
    /\ phase' = "stopped" /\ stopReason' = reason
    /\ UNCHANGED <<config, keys, trials, pending, results, stagnation>>

StopAtBudget ==
    /\ Between /\ Left = 0
    /\ Stop("budget")
    /\ UNCHANGED optimizer

StopInTime ==
    /\ Between /\ Left > 0 /\ config.timed
    /\ Stop("wall_time")
    /\ UNCHANGED optimizer

StopStagnated ==
    /\ Between /\ Left > 0 /\ Stagnated
    /\ Stop("stagnation")
    /\ UNCHANGED optimizer

\* The checks of AskTellOptimizer.ask().
Contract(points) ==
    /\ points \in Seq(Points)
    /\ Len(points) <= Count
    /\ \A i, j \in DOMAIN points : points[i] = points[j] => i = j
    /\ \A i \in DOMAIN points, j \in DOMAIN keys : points[i] # keys[j]

Replies == Propose(optimizer, Count, {keys[i] : i \in DOMAIN keys})

\* ask() with a batch that passes the checks.
Ask ==
    /\ Between /\ Left > 0 /\ ~Stagnated
    /\ \E answer \in Replies :
         /\ answer.points # <<>> /\ Contract(answer.points)
         /\ pending' = answer.points
         /\ optimizer' = answer.optimizer
    /\ UNCHANGED <<config, keys, trials, results, stagnation, phase, stopReason>>

\* ask() with a batch that does not: a RuntimeError ends the run.
Break ==
    /\ Between /\ Left > 0 /\ ~Stagnated
    /\ \E answer \in Replies : ~Contract(answer.points)
    /\ phase' = "broken"
    /\ UNCHANGED <<config, optimizer, keys, trials, pending, results, stagnation, stopReason>>

\* Mutation: the runner goes on after an empty batch, and asks again.
StopEmpty_AsksAgain ==
    /\ Between /\ Left > 0 /\ ~Stagnated
    /\ \E answer \in Replies :
         /\ answer.points = <<>>
         /\ optimizer' = answer.optimizer
    /\ UNCHANGED <<config, keys, trials, pending, results, stagnation, phase, stopReason>>

\* ask() with an empty batch, and the reason the strategy gives for it.
StopEmpty ==
    /\ Between /\ Left > 0 /\ ~Stagnated
    /\ \E answer \in Replies :
         /\ answer.points = <<>>
         /\ optimizer' = answer.optimizer
         /\ Stop(answer.reason)
-----------------------------------------------------------------------------
Unfinished == DOMAIN pending \ DOMAIN results

Collected(i, t) ==
    [j \in DOMAIN results \union {i} |-> IF j = i THEN t ELSE results[j]]

\* The pool starts its jobs in order: the first unfinished ones are running.
Running == {i \in Unfinished : Cardinality({j \in Unfinished : j < i}) < config.workers}

\* Mutation: the trials are collected in the order they are finished.
Evaluate_AsCompleted ==
    /\ phase = "running"
    /\ \E i \in Running :
         \E t \in Outcomes(Len(trials) + i - 1, pending[i]) :
           results' = Collected(Cardinality(DOMAIN results) + 1, t)
    /\ UNCHANGED <<config, optimizer, keys, trials, pending, stagnation, phase, stopReason>>

\* One of the running jobs is finished.
Evaluate ==
    /\ phase = "running"
    /\ \E i \in Running :
         \E t \in Outcomes(Len(trials) + i - 1, pending[i]) :
           results' = Collected(i, t)
    /\ UNCHANGED <<config, optimizer, keys, trials, pending, stagnation, phase, stopReason>>

FrontIds(sequence) == Ids(ParetoFront({sequence[i] : i \in DOMAIN sequence}))

\* Mutation: the front "grew" when it has another size.
Tell_BySize ==
    /\ phase = "running" /\ pending # <<>> /\ Unfinished = {}
    /\ optimizer' \in Observe(optimizer, results)
    /\ trials' = trials \o results
    /\ keys' = keys \o pending
    /\ stagnation' = IF Cardinality(FrontIds(trials')) # Cardinality(FrontIds(trials))
                     THEN 0 ELSE stagnation + Len(pending)
    /\ pending' = <<>> /\ results' = <<>>
    /\ UNCHANGED <<config, phase, stopReason>>

\* All are: tell(), the archive and the count of stagnation.
Tell ==
    /\ phase = "running" /\ pending # <<>> /\ Unfinished = {}
    /\ optimizer' \in Observe(optimizer, results)
    /\ trials' = trials \o results
    /\ keys' = keys \o pending
    /\ stagnation' = IF FrontIds(trials') # FrontIds(trials)
                     THEN 0 ELSE stagnation + Len(pending)
    /\ pending' = <<>> /\ results' = <<>>
    /\ UNCHANGED <<config, phase, stopReason>>

\* The artifacts are written in one transaction, module AtomicWrite.
Publish ==
    /\ phase = "stopped"
    /\ phase' = "ended"
    /\ UNCHANGED <<config, optimizer, keys, trials, pending, results, stagnation, stopReason>>

Loop ==
    \/ StopAtBudget \/ StopInTime \/ StopStagnated \/ StopEmpty
    \/ Ask \/ Break \/ Evaluate \/ Publish

Next == Loop \/ Tell

Spec == Init /\ [][Next]_vars

\* A step of Tell, by what no other action does.
Delivered ==
    /\ phase = "running" /\ pending # <<>> /\ Unfinished = {}
    /\ pending' = <<>>

(***************************************************************************)
(* The loop never waits for anything but the pool, and every evaluation    *)
(* ends: the command evaluator kills its child at a timeout.               *)
(***************************************************************************)
FairSpec == Spec /\ WF_vars(Loop) /\ WF_pending(Delivered)
-----------------------------------------------------------------------------
Sequential == INSTANCE CatalogSearch WITH offered <- pending

\* All trials that the evaluations of a run may give.
Trials == UNION {Outcomes(i, k) : i \in Nat, k \in Points}

TypeOK ==
    /\ config \in Configs
    /\ keys \in Seq(Points) /\ pending \in Seq(Points)
    /\ trials \in Seq(Trials)
    /\ DOMAIN results \subseteq DOMAIN pending
    /\ results \in [DOMAIN results -> Trials]
    /\ phase \in {"running", "stopped", "ended", "broken"}

(***************************************************************************)
(* However many workers finish in whatever order, a run is one that a      *)
(* single thread carries out: results are told in proposal order, so       *)
(* changing the number of workers cannot change what a strategy knows.     *)
(***************************************************************************)
ImplementsCatalogSearch == Sequential!SearchSpec

(***************************************************************************)
(* No point is evaluated twice, ids are consecutive, and a batch that is   *)
(* being evaluated never goes beyond the budget: ask() and the runner      *)
(* guarantee that for every strategy, whatever it answers.                 *)
(***************************************************************************)
BudgetIsSpentOnNewPoints ==
    /\ Len(trials) + Len(pending) <= config.budget
    /\ Len(keys) = Len(trials)
    /\ \A i \in DOMAIN trials : trials[i].id = i - 1
    /\ LET proposed == keys \o pending
       IN  \A i, j \in DOMAIN proposed : proposed[i] = proposed[j] => i = j

(***************************************************************************)
(* The count that stops a run for stagnation tells how far back the front  *)
(* last changed, though only fronts of neighbouring batches are compared   *)
(* and batches differ in length: the front of the trials before the last   *)
(* "stagnation" ones is the front of all, and within a batch before them   *)
(* it was another one, unless the whole run found nothing feasible.        *)
(***************************************************************************)
StagnationIsMeasured ==
    LET changed == Len(trials) - stagnation
    IN  /\ stagnation \in 0 .. Len(trials)
        /\ FrontIds(SubSeq(trials, 1, changed)) = FrontIds(trials)
        /\ changed > 0 =>
             \E n \in 0 .. changed - 1 :
                 /\ changed - n <= config.batchSize
                 /\ FrontIds(SubSeq(trials, 1, n)) # FrontIds(trials)

(***************************************************************************)
(* Every run ends, and unless a strategy breaks the contract it is         *)
(* published: a strategy that runs out of points does not keep the loop    *)
(* waiting for a budget it cannot spend, nor a batch a pool that is idle.  *)
(***************************************************************************)
RunEnds == <>(phase \in {"ended", "broken"})
=============================================================================
