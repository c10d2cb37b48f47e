------------------------------- MODULE Search -------------------------------
(***************************************************************************)
(* What a resumable run promises: the search as a process that nothing     *)
(* ever interrupts would carry it out.  It offers a batch, computed from   *)
(* the generator and the trials so far, evaluates all of it, and lets the  *)
(* generator observe the outcome.  There are no files and no failures      *)
(* here, and a batch that is offered can only be completed.                *)
(*                                                                         *)
(* The generator, the trials and the stagnation counter are parameters:    *)
(* module Proposal defines them.                                           *)
(***************************************************************************)
EXTENDS Integers, Sequences

CONSTANTS
    BatchSize,
    NewGenerator,       \* the generator of a new run
    Batch(_, _, _),     \* propose: (generator, size asked for, trials)
    Observe(_, _),      \* observe: (generator, whether the frontier changed)
    NewTrials(_, _, _), \* the trials of a batch: (first id, points, gains)
    Grew(_),            \* whether a batch of trials changed the frontier
    Stagnation(_, _)    \* the counter after a batch: (before, trials)

VARIABLES history,    \* the trials recorded
          generator,  \* the proposal generator
          stagnation, \* evaluations since the last batch that changed the frontier
          offered     \* the batch being evaluated

searchVars == <<history, generator, stagnation, offered>>

SearchInit ==
    /\ history = <<>>
    /\ generator = NewGenerator
    /\ stagnation = 0
    /\ offered = <<>>

Offer ==
    /\ offered = <<>>
    /\ offered' # <<>>
    /\ \E n \in 1 .. BatchSize :
         /\ offered' = Batch(generator, n, history).points
         /\ generator' = Batch(generator, n, history).generator
    /\ UNCHANGED <<history, stagnation>>

Complete ==
    /\ offered # <<>>
    /\ offered' = <<>>
    /\ \E gains \in [DOMAIN offered -> BOOLEAN] :
         LET evaluated == NewTrials(Len(history), offered, gains)
         IN  /\ history' = history \o evaluated
             /\ generator' = Observe(generator, Grew(evaluated))
             /\ stagnation' = Stagnation(stagnation, evaluated)

SearchNext == Offer \/ Complete

SearchSpec == SearchInit /\ [][SearchNext]_searchVars
=============================================================================
