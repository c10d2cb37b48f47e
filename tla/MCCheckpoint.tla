---------------------------- MODULE MCCheckpoint ----------------------------
(***************************************************************************)
(* Small instances of Checkpoint: a domain of a few points, strands that   *)
(* revisit points, and budgets that end inside and beyond a batch.         *)
(***************************************************************************)
EXTENDS Checkpoint

CONSTANTS
    Size, \* the number of points of the domain
    Room  \* the size of the trials the ledger holds

MCKeys == 0 .. Size - 1

MCEnumeration == [i \in 1 .. Size |-> Size - i]

\* Strands that depend on the draw, the radius and the trials so far.
MCCandidate(draws, radius, ts) ==
    (2 * draws + radius + (IF Grew(ts) THEN 1 ELSE 0)) % Size

\* A radius that widens and narrows by different steps, clipped at both ends.
MCRadii == 0 .. 3

MCWidened(radius) == IF radius < 3 THEN radius + 1 ELSE 3

MCNarrowed(radius) == IF radius > 2 THEN radius - 2 ELSE 0

\* Records whose size depends on the outcome of the evaluation.
MCLedgerFits(ts) == Len(ts) + Cardinality({i \in DOMAIN ts : ts[i].gain}) <= Room
=============================================================================
