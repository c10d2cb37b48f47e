------------------------------ MODULE Ranking ------------------------------
(***************************************************************************)
(* Constraint-first ranking, biasweave/optimizers/ranking.py: on top of    *)
(* the order of preference the sort into fronts, the crowding distance and *)
(* the selection of a population.                                          *)
(***************************************************************************)
EXTENDS Preference, SequencesExt

(***************************************************************************)
(* A round of the loop of non_dominated_sort(): the pending trials are the *)
(* next front, the count of each trial they dominate goes down by one per  *)
(* dominator, and those that reach zero are pending.                       *)
(***************************************************************************)
EmitFront(sort) ==
    LET Dominators(t) == {u \in sort.pending : Dominates(u, t)}
        lowered == [t \in DOMAIN sort.counts |-> sort.counts[t] - Cardinality(Dominators(t))]
    IN  [fronts |-> Append(sort.fronts, sort.pending),
         counts |-> lowered,
         pending |-> {t \in DOMAIN sort.counts : Dominators(t) # {} /\ lowered[t] = 0}]

\* Before the first round those are pending that no trial dominates.
SortBegins(trialSet) ==
    LET counts == [t \in trialSet |-> Cardinality({u \in trialSet : Dominates(u, t)})]
    IN  [fronts |-> <<>>, counts |-> counts, pending |-> {t \in trialSet : counts[t] = 0}]

\* The loop runs while trials are pending, and each round emits one or more.
NonDominatedSort(trialSet) ==
    LET After[rounds \in 0 .. Cardinality(trialSet)] ==
            IF rounds = 0 THEN SortBegins(trialSet)
            ELSE LET sort == After[rounds - 1]
                 IN  IF sort.pending = {} THEN sort ELSE EmitFront(sort)
    IN  After[Cardinality(trialSet)].fronts
-----------------------------------------------------------------------------
Infinite == 1000000

ProductOf(fun) == FoldFunction(LAMBDA factor, product : factor * product, 1, fun)

(***************************************************************************)
(* crowding_distance(): infinite at both ends of every objective that has  *)
(* a span, and otherwise the sum of the gaps between the two neighbours in *)
(* units of that span.  The gaps are brought to a common denominator.  In  *)
(* an infeasible front the vectors are compared all the same.              *)
(***************************************************************************)
CrowdingDistance(trialSet) ==
    LET dims == 1 .. Max({Len(t.vector) : t \in trialSet})
        Column(d) == {t.vector[d] : t \in trialSet}
        Span(d) == Max(Column(d)) - Min(Column(d))
        spanning == {d \in dims : Span(d) > 0}
        scale == ProductOf([d \in spanning |-> Span(d)])
        Precedes(u, t, d) == Lexicographic(<<u.vector[d], u.id>>, <<t.vector[d], t.id>>)
        Earlier(t, d) == {u.vector[d] : u \in {v \in trialSet : Precedes(v, t, d)}}
        Later(t, d) == {u.vector[d] : u \in {v \in trialSet : Precedes(t, v, d)}}
        Gap(t, d) == (Min(Later(t, d)) - Max(Earlier(t, d))) * (scale \div Span(d))
    IN  [t \in trialSet |->
            IF Cardinality(trialSet) <= 2
            THEN IF spanning # {} THEN Infinite ELSE 0
            ELSE IF \E d \in spanning : Earlier(t, d) = {} \/ Later(t, d) = {}
            THEN Infinite
            ELSE SumFunction([d \in spanning |-> Gap(t, d)])]

\* The room best trials of a front: the least crowded, then the preferred ones.
Truncated(trialSet, room) ==
    LET distances == CrowdingDistance(trialSet)
        Ahead(u, t) == Lexicographic(<<-distances[u]>> \o PreferenceKey(u),
                                     <<-distances[t]>> \o PreferenceKey(t))
    IN  {t \in trialSet : Cardinality({u \in trialSet : Ahead(u, t)}) < room}

\* Mutation: a front that does not fit is skipped for the next one that does.
Filled_Skipping(fronts, room) ==
    LET Selected[i \in 0 .. Len(fronts)] ==
            IF i = 0 THEN {}
            ELSE LET remaining == room - Cardinality(Selected[i - 1])
                 IN  Selected[i - 1] \union
                        IF Cardinality(fronts[i]) <= remaining THEN fronts[i] ELSE {}
    IN  Selected[Len(fronts)]

Filled(fronts, room) ==
    LET Selected[i \in 0 .. Len(fronts)] ==
            IF i = 0 THEN {}
            ELSE LET remaining == room - Cardinality(Selected[i - 1])
                 IN  Selected[i - 1] \union
                        (CASE remaining <= 0 -> {}
                           [] remaining > 0 /\ Cardinality(fronts[i]) <= remaining -> fronts[i]
                           [] OTHER -> Truncated(fronts[i], remaining))
    IN  Selected[Len(fronts)]

\* select_population(): whole fronts as long as they fit, then a part of one.
SelectPopulation(trialSet, size) == Filled(NonDominatedSort(trialSet), size)
=============================================================================
