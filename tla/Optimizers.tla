----------------------------- MODULE Optimizers -----------------------------
(***************************************************************************)
(* The strategies of biasweave/optimizers/: what each one may answer when  *)
(* it is asked for points, and what it makes of the trials it is told.     *)
(*                                                                         *)
(* A point is its key.  What a random draw, a crossover, a particle's move *)
(* or an acquisition function yields is any key of Drawn(unseen) or, when  *)
(* the bounded number of attempts is used up, nothing: then the walk over  *)
(* the finite domain goes on, or in a domain that cannot be enumerated the *)
(* search for a random immigrant does.  An optimizer is one record, and    *)
(* every strategy uses the components it has:                              *)
(*   population  the trials it breeds from: the current one of simulated   *)
(*               annealing, the personal bests of the particles, the best  *)
(*               feasible and infeasible one of the Bayesian optimizer     *)
(*   offspring   the next generation of NSGA-II                            *)
(*   recent      the feasible and infeasible windows of the Bayesian one   *)
(*   slots       the slot each pending point is for, 0 when it is new      *)
(*   next        the slot whose turn it is                                 *)
(*   ideal       the best objective values MOEA/D has seen                 *)
(*   cursor      how far the domain was walked                             *)
(*   observed    how many trials it was told                               *)
(***************************************************************************)
EXTENDS Ranking

CONSTANTS
    Keys,               \* the keys of the decoded points
    Default,            \* the key of the default coordinates
    Drawn(_),           \* what an attempt may yield, given the unseen keys
    PopulationSize,     \* of the evolutionary strategies
    Objectives,         \* how many objectives there are
    NeighborhoodSize,   \* the slots a MOEA/D subproblem breeds from and replaces
    Window              \* the training_window_size of the Bayesian one

ASSUME OptimizersAssumption ==
    /\ PopulationSize \in Nat /\ PopulationSize >= 4
    /\ NeighborhoodSize \in 4 .. PopulationSize
    /\ Objectives \in 1 .. 3 /\ PopulationSize - Objectives < 8
    /\ Window \in Nat /\ Window >= 2
    /\ Default \in Keys
    /\ \A unseen \in SUBSET Keys : Drawn(unseen) \subseteq unseen

Nothing == 0   \* no key

ASSUME NothingAssumption == Nothing \notin Keys

Unexplained == "unexplained"   \* no reason for an empty batch

AllStrategies == {"weave", "random", "sa", "bayes", "pso", "de", "nsga2", "moead"}

Evolutionary == {"pso", "de", "nsga2", "moead"}

\* create_optimizer(); walk is the enumeration of Keys, <<>> when there is none.
NewOptimizer(strategy, walk) ==
    [strategy |-> strategy, walk |-> walk, population |-> <<>>, offspring |-> <<>>,
     recent |-> [feasible |-> <<>>, infeasible |-> <<>>], slots |-> <<>>, next |-> 0,
     ideal |-> <<>>, cursor |-> 0, observed |-> 0]
-----------------------------------------------------------------------------
\* Mutation: the walk ends at the first point that was seen before.
Fallback_Skips(o, blocked, cursor) ==
    IF o.walk # <<>>
    THEN IF cursor < Len(o.walk) /\ o.walk[cursor + 1] \notin blocked
         THEN {[key |-> o.walk[cursor + 1], cursor |-> cursor + 1, reason |-> Unexplained]}
         ELSE {[key |-> Nothing, cursor |-> cursor, reason |-> "search_space_exhausted"]}
    ELSE {[key |-> Nothing, cursor |-> cursor, reason |-> "proposal_stalled"]}

(***************************************************************************)
(* fallback_point(), with FiniteDomainEnumerator.next_unseen(): the next   *)
(* unseen point of the walk, or proof that there is none; without a walk,  *)
(* a random immigrant, or none after so many attempts.  The generator of   *)
(* weave has a walk of its own, and no immigrants.                         *)
(***************************************************************************)
Fallback(o, blocked, cursor) ==
    LET ahead == {i \in cursor + 1 .. Len(o.walk) : o.walk[i] \notin blocked}
        immigrants == IF o.strategy = "weave" THEN {} ELSE Drawn(Keys \ blocked)
    IN  CASE o.walk # <<>> /\ ahead # {} ->
                {[key |-> o.walk[Min(ahead)], cursor |-> Min(ahead), reason |-> Unexplained]}
          [] o.walk # <<>> /\ ahead = {} ->
                {[key |-> Nothing, cursor |-> Len(o.walk), reason |-> "search_space_exhausted"]}
          [] OTHER ->
                {[key |-> k, cursor |-> cursor, reason |-> Unexplained] : k \in immigrants}
                \union {[key |-> Nothing, cursor |-> cursor, reason |-> "proposal_stalled"]}

\* An attempt that succeeds.
Attempts(blocked, cursor) ==
    {[key |-> k, cursor |-> cursor, reason |-> Unexplained] : k \in Drawn(Keys \ blocked)}

NoPoints(o) ==
    [points |-> <<>>, slots |-> <<>>, next |-> o.next, cursor |-> o.cursor,
     reason |-> Unexplained, drawing |-> TRUE]

(***************************************************************************)
(* A round of the loop of a strategy that fills a batch: one point more,   *)
(* or the end of the loop at a fallback that finds nothing.  Points are    *)
(* all drawn before the first fallback, unless each has one of its own.    *)
(***************************************************************************)
OneMore(o, count, seen, separate, answer) ==
    LET blocked == seen \union ToSet(answer.points)
        drawn == IF answer.drawing THEN Attempts(blocked, answer.cursor) ELSE {}
        fallbacks == Fallback(o, blocked, answer.cursor)
        With(p, drawing) == [answer EXCEPT !.points = Append(@, p.key), !.slots = Append(@, 0),
                                           !.cursor = p.cursor, !.drawing = drawing]
        Ended(p) == [answer EXCEPT !.cursor = p.cursor, !.reason = p.reason]
    IN  IF Len(answer.points) = count \/ answer.reason # Unexplained THEN {answer}
        ELSE {With(p, TRUE) : p \in drawn}
             \union {IF p.key = Nothing THEN Ended(p) ELSE With(p, separate) : p \in fallbacks}

\* The answers a strategy can give from one it has begun.
Fill(o, count, seen, begun, separate) ==
    LET After[round \in 0 .. count] ==
            IF round = 0 THEN {begun}
            ELSE UNION {OneMore(o, count, seen, separate, a) : a \in After[round - 1]}
    IN  After[count]

\* The first attempt of all is the point of the default coordinates.
FromDefault(o, seen) ==
    IF o.observed = 0 /\ Default \notin seen
    THEN [NoPoints(o) EXCEPT !.points = <<Default>>, !.slots = <<0>>] ELSE NoPoints(o)

Missing(o) == PopulationSize - Len(o.population)

\* _initial_points(): a population is completed before it is bred from.
InitialPoints(o, count, seen) ==
    Fill(o, Min({count, Missing(o)}), seen, FromDefault(o, seen), FALSE)

RandomAsk(o, count, seen) == Fill(o, count, seen, NoPoints(o), FALSE)

\* The default point, what the strands draw, and only then the rest of the walk.
WeaveAsk(o, count, seen) == Fill(o, count, seen, FromDefault(o, seen), FALSE)

\* One point: a neighbor of the current one, a random one, or a fallback.
AnnealingAsk(o, count, seen) == Fill(o, 1, seen, FromDefault(o, seen), FALSE)

\* The candidates whose expected improvement is compared: any may be the best.
CandidatePool(seen) == Drawn(Keys \ seen)

BayesAsk(o, count, seen) ==
    IF o.observed = 0 THEN Fill(o, 1, seen, FromDefault(o, seen), FALSE)
    ELSE {[NoPoints(o) EXCEPT !.points = <<k>>, !.slots = <<0>>] : k \in CandidatePool(seen)}
         \union Fill(o, 1, seen, [NoPoints(o) EXCEPT !.drawing = FALSE], FALSE)

\* An offspring of two parents, or a fallback of its own.
NSGA2Offspring(o, count, seen) ==
    Fill(o, Min({count, PopulationSize - Len(o.offspring)}), seen, NoPoints(o), TRUE)

\* A batch never crosses into the next generation.
NSGA2Ask(o, count, seen) ==
    IF Missing(o) > 0 THEN InitialPoints(o, count, seen) ELSE NSGA2Offspring(o, count, seen)
-----------------------------------------------------------------------------
\* _radical_inverse(): the digits reversed, of an index of at most three.
RadicalInverse(index, base) ==
    (index % base) * base * base + ((index \div base) % base) * base + index \div (base * base)

\* 1 in a weight vector.
Unit == 1000000

(***************************************************************************)
(* simplex_weights(): the extreme vectors first, and then those of the     *)
(* Halton sequence on the simplex, rounded down to units.                  *)
(***************************************************************************)
Weights ==
    LET bases == SubSeq(<<2, 3, 5>>, 1, Objectives)
        scale == FoldLeft(LAMBDA product, b : product * b * b * b, 1, bases)
        Raw(n) == [d \in 1 .. Objectives |->
                    RadicalInverse(n, bases[d]) * (scale \div (bases[d] * bases[d] * bases[d]))]
        Halton(n) == [d \in 1 .. Objectives |-> (Raw(n)[d] * Unit) \div SumFunction(Raw(n))]
    IN  [slot \in 1 .. PopulationSize |->
            IF slot <= Objectives THEN [d \in 1 .. Objectives |-> IF d = slot THEN Unit ELSE 0]
            ELSE Halton(slot - Objectives)]

\* Of each slot, those with the nearest weight vectors, itself among them.
Neighborhoods ==
    LET Gap(a, b, d) == (Weights[a][d] - Weights[b][d]) \div 100
        Far(a, b) == SumFunction([d \in 1 .. Objectives |-> Gap(a, b, d) * Gap(a, b, d)])
        Nearer(slot, a, b) == Lexicographic(<<Far(slot, a), a>>, <<Far(slot, b), b>>)
        Rank(slot, i) == Cardinality({j \in 1 .. PopulationSize : Nearer(slot, j, i)})
    IN  [slot \in 1 .. PopulationSize |->
            {i \in 1 .. PopulationSize : Rank(slot, i) < NeighborhoodSize}]

\* tchebycheff(), with the smallest weight of 1e-6.
Tchebycheff(vector, weight, ideal) ==
    LET Apart(d) == IF vector[d] > ideal[d] THEN vector[d] - ideal[d] ELSE ideal[d] - vector[d]
    IN  Max({Max({weight[d], 1}) * Apart(d) : d \in DOMAIN vector})

ParticleMove(o, slot, unseen) == Drawn(unseen)

\* A difference of trials that are all the same moves nothing.
DifferentialMove(o, parents, unseen) ==
    IF Cardinality({o.population[j].id : j \in parents}) > 1 THEN Drawn(unseen) ELSE {}

NeighborhoodMove(o, slot, unseen) == DifferentialMove(o, Neighborhoods[slot], unseen)

Move(o, slot, unseen) ==
    CASE o.strategy = "pso" -> ParticleMove(o, slot, unseen)
      [] o.strategy = "de" -> DifferentialMove(o, 1 .. PopulationSize, unseen)
      [] o.strategy = "moead" -> NeighborhoodMove(o, slot, unseen)

(***************************************************************************)
(* A round of the loop over the slots of PSO, DE and MOEA/D: a slot for    *)
(* which nothing is found is passed over, and no slot has two turns in one *)
(* batch.                                                                  *)
(***************************************************************************)
VisitSlot(o, limit, seen, answer) ==
    LET blocked == seen \union ToSet(answer.points)
        moved == {[key |-> k, cursor |-> answer.cursor, reason |-> Unexplained] :
                    k \in Move(o, answer.next + 1, Keys \ blocked)}
        Passed(p) == [answer EXCEPT !.next = (@ + 1) % PopulationSize,
                                    !.cursor = p.cursor, !.reason = p.reason]
        With(p) == [Passed(p) EXCEPT !.points = Append(@, p.key),
                                     !.slots = Append(@, answer.next + 1)]
    IN  IF Len(answer.points) = limit THEN {answer}
        ELSE {IF p.key = Nothing THEN Passed(p) ELSE With(p) :
                p \in moved \union Fallback(o, blocked, answer.cursor)}

Visit(o, limit, seen) ==
    LET After[attempted \in 0 .. PopulationSize] ==
            IF attempted = 0 THEN {NoPoints(o)}
            ELSE UNION {VisitSlot(o, limit, seen, a) : a \in After[attempted - 1]}
    IN  After[PopulationSize]

SlotsAsk(o, count, seen) ==
    IF Missing(o) > 0 THEN InitialPoints(o, count, seen)
    ELSE Visit(o, Min({count, PopulationSize}), seen)
-----------------------------------------------------------------------------
\* _ask(): the possible answers of a strategy.
Answers(o, count, seen) ==
    CASE o.strategy = "weave" -> WeaveAsk(o, count, seen)
      [] o.strategy = "random" -> RandomAsk(o, count, seen)
      [] o.strategy = "sa" -> AnnealingAsk(o, count, seen)
      [] o.strategy = "bayes" -> BayesAsk(o, count, seen)
      [] o.strategy = "nsga2" -> NSGA2Ask(o, count, seen)
      [] o.strategy \in {"pso", "de", "moead"} -> SlotsAsk(o, count, seen)

\* What ask() returns, and the optimizer with what it remembers of the batch.
Asked(o, count, seen) ==
    {[points |-> a.points,
      reason |-> IF a.reason = Unexplained THEN "proposal_stalled" ELSE a.reason,
      optimizer |-> [o EXCEPT !.slots = a.slots, !.next = a.next, !.cursor = a.cursor]] :
        a \in Answers(o, count, seen)}
-----------------------------------------------------------------------------
\* annealing_energy(): separated bands, and saturating within each.
Energy(t) ==
    CASE t.status = "failed" -> 100
      [] t.status # "failed" /\ ~t.feasible -> 50 + Squash(t.violation) + Squash(t.worst)
      [] OTHER -> SumOfSquashed(t.vector)

\* Mutation: a worse trial may be accepted whatever its kind.
Anneal_AnyKind(current, t) ==
    CASE current = <<>> \/ (current # <<>> /\ Preferred(t, current[1])) -> {<<t>>}
      [] OTHER -> {<<t>>, current}

(***************************************************************************)
(* The transition of simulated annealing: a trial that is not preferred is *)
(* accepted only when it is of the same kind, for certain when its energy  *)
(* is no higher and else with some probability.                            *)
(***************************************************************************)
Anneal(current, t) ==
    IF current = <<>> \/ (current # <<>> /\ Preferred(t, current[1])) THEN {<<t>>}
    ELSE IF t.status = current[1].status /\ t.feasible = current[1].feasible
    THEN IF Energy(t) <= Energy(current[1]) THEN {<<t>>} ELSE {<<t>>, current}
    ELSE {current}

\* The survival of DE, and the personal best of a particle.
Survive(population, slot, t) ==
    IF slot = 0 THEN Append(population, t)
    ELSE IF Preferred(t, population[slot]) THEN [population EXCEPT ![slot] = t]
    ELSE population

\* _update_ideal(); <<>> stands for a vector of infinities.
UpdateIdeal(ideal, t) ==
    CASE ~t.feasible -> ideal
      [] t.feasible /\ ideal = <<>> -> t.vector
      [] OTHER -> [i \in DOMAIN ideal |-> Min({ideal[i], t.vector[i]})]

\* _better_for(): kind first, then the distance from the ideal, then preference.
BetterFor(t, incumbent, slot, ideal) ==
    /\ t.status = "success"
    /\ \/ incumbent.status = "failed"
       \/ t.feasible /\ ~incumbent.feasible
       \/ /\ ~t.feasible /\ ~incumbent.feasible
          /\ Lexicographic(PreferenceKey(t), PreferenceKey(incumbent))
       \/ /\ t.feasible /\ incumbent.feasible
          /\ LET Distance(u) == Tchebycheff(u.vector, Weights[slot], ideal)
             IN  Lexicographic(<<Distance(t)>> \o PreferenceKey(t),
                               <<Distance(incumbent)>> \o PreferenceKey(incumbent))

Decompose(o, slot, t) ==
    LET ideal == UpdateIdeal(o.ideal, t)
        Replaced(i) == i \in Neighborhoods[slot] /\ BetterFor(t, o.population[i], i, ideal)
    IN  [o EXCEPT !.ideal = ideal,
                  !.population =
                     IF slot = 0 THEN Append(@, t)
                     ELSE [i \in DOMAIN @ |-> IF Replaced(i) THEN t ELSE @[i]]]

\* A generation as a list by id; of the order in the code only random draws know.
ById(trialSet) ==
    [i \in 1 .. Cardinality(trialSet) |->
        CHOOSE t \in trialSet : Cardinality({u \in trialSet : u.id < t.id}) = i - 1]

\* Mutation: the generation changes one trial too early.
Breed_Early(o, t) ==
    IF Len(o.population) < PopulationSize THEN [o EXCEPT !.population = Append(@, t)]
    ELSE LET offspring == Append(o.offspring, t)
             all == ToSet(o.population) \union ToSet(offspring)
         IN  IF Len(offspring) < PopulationSize - 1 THEN [o EXCEPT !.offspring = offspring]
             ELSE [o EXCEPT !.offspring = <<>>,
                            !.population = ById(SelectPopulation(all, PopulationSize))]

\* NSGA-II: parents and offspring compete when a generation is complete.
Breed(o, t) ==
    IF Len(o.population) < PopulationSize THEN [o EXCEPT !.population = Append(@, t)]
    ELSE LET offspring == Append(o.offspring, t)
             all == ToSet(o.population) \union ToSet(offspring)
         IN  IF Len(offspring) < PopulationSize THEN [o EXCEPT !.offspring = offspring]
             ELSE [o EXCEPT !.offspring = <<>>,
                            !.population = ById(SelectPopulation(all, PopulationSize))]

\* A deque(maxlen = training_window_size - 1).
Remembered(window, t) ==
    IF Len(window) < Window - 1 THEN Append(window, t) ELSE Append(Tail(window), t)

(***************************************************************************)
(* The Bayesian optimizer remembers the best trial of each kind and a      *)
(* window of recent ones.                                                  *)
(***************************************************************************)
Learn(o, t) ==
    LET kind == IF t.feasible THEN "feasible" ELSE "infeasible"
        rivals == {i \in DOMAIN o.population : o.population[i].feasible = t.feasible}
        better == \A i \in rivals :
                    Lexicographic(PreferenceKey(t), PreferenceKey(o.population[i]))
    IN  IF t.status = "failed" THEN o
        ELSE [o EXCEPT !.recent[kind] = Remembered(@, t),
                       !.population =
                          IF rivals = {} THEN Append(@, t)
                          ELSE [i \in DOMAIN @ |-> IF i \in rivals /\ better THEN t ELSE @[i]]]

\* _training_trials(): the incumbent and the recent trials of its kind.
TrainingTrials(o) ==
    LET best(kind) == {t \in ToSet(o.population) : t.feasible = (kind = "feasible")}
        kind == IF best("feasible") # {} THEN "feasible" ELSE "infeasible"
        recent == o.recent[kind]
    IN  IF best(kind) \subseteq ToSet(recent) THEN recent
        ELSE SetToSeq(best(kind)) \o recent

\* _tell() for one trial of the batch and the slot it was asked for.
Learned(o, slot, t) ==
    CASE o.strategy \in {"weave", "random"} -> {o}
      [] o.strategy = "sa" -> {[o EXCEPT !.population = p] : p \in Anneal(o.population, t)}
      [] o.strategy \in {"de", "pso"} -> {[o EXCEPT !.population = Survive(@, slot, t)]}
      [] o.strategy = "moead" -> {Decompose(o, slot, t)}
      [] o.strategy = "nsga2" -> {Breed(o, t)}
      [] o.strategy = "bayes" -> {Learn(o, t)}

\* tell() for a batch, trial by trial.
Told(o, batch) ==
    LET After[n \in 0 .. Len(batch)] ==
            IF n = 0 THEN {o}
            ELSE UNION {{[next EXCEPT !.observed = @ + 1] :
                            next \in Learned(p, o.slots[n], batch[n])} : p \in After[n - 1]}
    IN  {[p EXCEPT !.slots = <<>>] : p \in After[Len(batch)]}
=============================================================================
