------------------------------ MODULE Proposal ------------------------------
(***************************************************************************)
(* The deterministic proposal generator of biasweave/proposal.py.          *)
(*                                                                         *)
(* A generator is asked for a batch and answers with at most that many     *)
(* points that no earlier batch holds.  It first draws from its strands    *)
(* (coverage, frontier refinement, feasibility repair), up to a number of  *)
(* attempts proportional to the size asked for, and then, when the decoded *)
(* domain is small enough to enumerate, walks the rest of the domain.      *)
(*                                                                         *)
(* A point is its key.  What a strand draws is deterministic: it depends   *)
(* on how many draws came before, on the adaptive radius and on the trials *)
(* the archive holds, so it is the constant operator Candidate.  The three *)
(* counters a draw advances (proposal_index, coverage_index, the random    *)
(* state) move together and are the one number draws.  The radius grows    *)
(* and shrinks by different factors and is clipped at both ends: Widened   *)
(* and Narrowed.                                                           *)
(***************************************************************************)
EXTENDS Integers, Sequences, FiniteSets

CONSTANTS
    Keys,               \* the keys of the decoded points
    Enumeration,        \* the walk over all Keys, <<>> when not enumerable
    Default,            \* the key of the default coordinates
    Candidate(_, _, _), \* what the strands draw: (draws, radius, prior trials)
    AttemptsPerPoint,   \* 100 in the code
    Radii, FirstRadius, \* the values of the radius, and the first one
    Widened(_),         \* the radius after a batch that changed the frontier
    Narrowed(_)         \* and after one that did not

ASSUME ProposalAssumption ==
    /\ Default \in Keys
    /\ Enumeration \in Seq(Keys)
    /\ \A i, j \in DOMAIN Enumeration : Enumeration[i] = Enumeration[j] => i = j
    /\ Enumeration # <<>> => \A k \in Keys : \E i \in DOMAIN Enumeration : Enumeration[i] = k
    /\ AttemptsPerPoint \in Nat \ {0}
    /\ FirstRadius \in Radii
    /\ \A r \in Radii : Widened(r) \in Radii /\ Narrowed(r) \in Radii

(***************************************************************************)
(* A trial: its id, its point, and whether it changed the frontier.  The   *)
(* archive is recomputed from the trials, and its signature (the ids on    *)
(* the frontier) changes with a batch exactly when one of its trials       *)
(* entered the frontier: a trial that leaves it is displaced by a new one. *)
(***************************************************************************)
Grew(ts) == \E i \in DOMAIN ts : ts[i].gain

NewTrials(first, keys, gains) ==
    [i \in DOMAIN keys |-> [id |-> first + i - 1, key |-> keys[i], gain |-> gains[i]]]

AtMost(n, m) == IF m < n THEN m ELSE n

\* The records first to last of a sequence, as many of them as there are.
Slice(ts, first, last) == SubSeq(ts, first, AtMost(last, Len(ts)))

\* The stagnation counter after a batch.
Stagnation(before, ts) == IF Grew(ts) THEN 0 ELSE before + Len(ts)

(***************************************************************************)
(* The persisted part of a generator (snapshot), and a new generator.      *)
(***************************************************************************)
Generator == [draws : Nat, cursor : 0 .. Len(Enumeration), radius : Radii]

NewGenerator == [draws |-> 0, cursor |-> 0, radius |-> FirstRadius]

\* The keys a sequence of trials holds, in order.
KeysOf(trials) == [i \in DOMAIN trials |-> trials[i].key]

\* Every key proposed before the trials' next batch: _seen_keys.
Seen(trials) == {trials[i].key : i \in DOMAIN trials}

\* The i-th smallest element of a set of numbers.
Ith(S, i) == CHOOSE x \in S : Cardinality({y \in S : y < x}) = i - 1

(***************************************************************************)
(* The coordinates of the k-th attempt of one call.  The very first        *)
(* attempt of a run is the default point and draws nothing.                *)
(***************************************************************************)
Free(trials) == IF trials = <<>> THEN 1 ELSE 0

Attempt(g, trials, k) ==
    IF k <= Free(trials)
    THEN Default
    ELSE Candidate(g.draws + k - 1 - Free(trials), g.radius, trials)

\* The attempts, of those allowed for n points, that yield a new key: one
\* neither blocked by an earlier batch nor drawn before in this one.
Hits(g, n, trials) ==
    {k \in 1 .. n * AttemptsPerPoint :
        /\ Attempt(g, trials, k) \notin Seen(trials)
        /\ \A j \in 1 .. k - 1 : Attempt(g, trials, j) # Attempt(g, trials, k)}

\* The enumerator's positions, past its cursor, that hold a new key.
Unvisited(g, drawn, trials) ==
    {c \in g.cursor + 1 .. Len(Enumeration) :
        /\ Enumeration[c] \notin Seen(trials)
        /\ \A i \in DOMAIN drawn : Enumeration[c] # drawn[i]}

(***************************************************************************)
(* The walk completes the points drawn to a batch of n, as far as the      *)
(* domain has points left: the batch, the generator it leaves, and why the *)
(* batch is short when it is.                                              *)
(***************************************************************************)
Walk(g, missing, drawn, unvisited) ==
    LET walked == AtMost(missing, Cardinality(unvisited))
        cursor == IF missing = 0 THEN g.cursor
                  ELSE IF walked < missing THEN Len(Enumeration)
                  ELSE Ith(unvisited, missing)
    IN  [points |->
           [i \in 1 .. Len(drawn) + walked |->
              IF i <= Len(drawn)
              THEN drawn[i] ELSE Enumeration[Ith(unvisited, i - Len(drawn))]],
         generator |-> [g EXCEPT !.cursor = cursor],
         reason |->
           IF Enumeration # <<>> /\ cursor = Len(Enumeration)
           THEN "search_space_exhausted" ELSE "proposal_stalled"]

\* The one element of a singleton: TLC computes what it is bound to once.
The(S) == CHOOSE x \in S : TRUE

(***************************************************************************)
(* propose: at most n points that no earlier trial holds.  The attempts    *)
(* stop with the n-th hit, and otherwise all of them are spent.            *)
(***************************************************************************)
Take(g, n, trials, hits) ==
    LET found == AtMost(n, Cardinality(hits))
        spent == IF found = n THEN Ith(hits, n) ELSE n * AttemptsPerPoint
        drawn == [i \in 1 .. found |-> Attempt(g, trials, Ith(hits, i))]
        after == [g EXCEPT !.draws = @ + spent - Free(trials)]
    IN  The({Walk(after, n - found, drawn, unvisited) :
               unvisited \in {Unvisited(g, drawn, trials)}})

Batch(g, n, trials) == The({Take(g, n, trials, hits) : hits \in {Hits(g, n, trials)}})

\* observe: the radius follows whether the batch changed the frontier.
Observe(g, grew) ==
    [g EXCEPT !.radius = IF grew THEN Widened(@) ELSE Narrowed(@)]
=============================================================================
