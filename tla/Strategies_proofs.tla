-------------------------- MODULE Strategies_proofs -------------------------
(***************************************************************************)
(* Proofs about the runner of the catalog, for every strategy, every       *)
(* configuration and every order in which the workers finish; and about    *)
(* the strategies of the catalog in it, for every population, domain and   *)
(* batch: what they answer, what they keep, and why a run ends.            *)
(***************************************************************************)
EXTENDS Strategies, Ranking_proofs

\* What the evaluated points of a batch gave, at their places.
ResultsFit ==
    \A i \in DOMAIN results : results[i] \in Outcomes(Len(trials) + i - 1, pending[i])

Accounted ==
    /\ Len(trials) + Len(pending) <= config.budget
    /\ Len(keys) = Len(trials)
    /\ \A i \in DOMAIN trials : trials[i].id = i - 1

Distinct ==
    /\ \A i, j \in DOMAIN keys : keys[i] = keys[j] => i = j
    /\ \A i, j \in DOMAIN pending : pending[i] = pending[j] => i = j
    /\ \A i \in DOMAIN pending, j \in DOMAIN keys : pending[i] # keys[j]

IInv ==
    /\ TypeOK /\ ResultsFit /\ Accounted /\ Distinct
    /\ phase # "running" => pending = <<>>

\* Lengths add up.
LEMMA ConcatenationLength ==
    ASSUME NEW S, NEW a \in Seq(S), NEW b \in Seq(S)
    PROVE  Len(a \o b) = Len(a) + Len(b)
  OBVIOUS

(***************************************************************************)
(* Two sequences without repetitions that have nothing in common make one  *)
(* without repetitions.                                                    *)
(***************************************************************************)
LEMMA DistinctConcatenation ==
    ASSUME NEW S, NEW a \in Seq(S), NEW b \in Seq(S),
           \A i, j \in DOMAIN a : a[i] = a[j] => i = j,
           \A i, j \in DOMAIN b : b[i] = b[j] => i = j,
           \A i \in DOMAIN b, j \in DOMAIN a : b[i] # a[j]
    PROVE  \A i, j \in DOMAIN (a \o b) : (a \o b)[i] = (a \o b)[j] => i = j
<1>1. Len(a) \in Nat /\ Len(b) \in Nat /\ DOMAIN a = 1 .. Len(a) /\ DOMAIN b = 1 .. Len(b)
  OBVIOUS
<1>2. DOMAIN (a \o b) = 1 .. Len(a) + Len(b)
  BY <1>1
<1>3. \A i \in 1 .. Len(a) + Len(b) :
         (a \o b)[i] = IF i <= Len(a) THEN a[i] ELSE b[i - Len(a)]
  BY <1>1
<1>4. SUFFICES ASSUME NEW i \in 1 .. Len(a) + Len(b), NEW j \in 1 .. Len(a) + Len(b),
                      (a \o b)[i] = (a \o b)[j]
               PROVE  i = j
  BY <1>2
<1>5. CASE i <= Len(a) /\ j <= Len(a)
  <2>1. i \in DOMAIN a /\ j \in DOMAIN a /\ a[i] = a[j]
    BY <1>1, <1>3, <1>4, <1>5
  <2> QED  BY <2>1
<1>6. CASE i > Len(a) /\ j > Len(a)
  <2>1. i - Len(a) \in DOMAIN b /\ j - Len(a) \in DOMAIN b
    BY <1>1, <1>6
  <2>2. b[i - Len(a)] = b[j - Len(a)]
    BY <1>1, <1>3, <1>4, <1>6
  <2>3. i - Len(a) = j - Len(a)
    BY <2>1, <2>2
  <2> QED  BY <1>1, <2>3
<1>7. CASE i <= Len(a) /\ j > Len(a)
  <2>1. i \in DOMAIN a /\ j - Len(a) \in DOMAIN b
    BY <1>1, <1>7
  <2>2. a[i] = b[j - Len(a)]
    BY <1>1, <1>3, <1>4, <1>7
  <2> QED  BY <2>1, <2>2
<1>8. CASE i > Len(a) /\ j <= Len(a)
  <2>1. j \in DOMAIN a /\ i - Len(a) \in DOMAIN b
    BY <1>1, <1>8
  <2>2. a[j] = b[i - Len(a)]
    BY <1>1, <1>3, <1>4, <1>8
  <2> QED  BY <2>1, <2>2
<1> QED  BY <1>1, <1>5, <1>6, <1>7, <1>8

LEMMA InitEstablishes == Init => IInv
<1> SUFFICES ASSUME Init PROVE IInv
  OBVIOUS
<1>1. config.budget \in Nat
  BY StrategyRunAssumption DEF Init
<1>2. TypeOK
  BY DEF Init, TypeOK
<1> QED  BY <1>1, <1>2 DEF Init, IInv, ResultsFit, Accounted, Distinct

LEMMA AskPreserves == IInv /\ Ask => IInv'
<1> SUFFICES ASSUME IInv, Ask PROVE IInv'
  OBVIOUS
<1>1. /\ phase = "running" /\ pending = <<>> /\ Left > 0 /\ Contract(pending')
      /\ UNCHANGED <<config, keys, trials, stagnation, phase, results>>
  BY DEF Ask, Between
<1>2. DOMAIN results = {} /\ results' = results
  <2>1. DOMAIN results \subseteq DOMAIN pending
    BY DEF IInv, TypeOK
  <2>2. DOMAIN pending = {}
    BY <1>1
  <2> QED  BY <1>1, <2>1, <2>2
<1>3. TypeOK'
  BY <1>1, <1>2 DEF IInv, TypeOK, Contract
<1>4. ResultsFit'
  BY <1>2 DEF ResultsFit
<1>5. Accounted'
  <2>1. config.budget \in Nat /\ config.batchSize \in Nat
    BY StrategyRunAssumption DEF IInv, TypeOK
  <2>2. Len(trials) \in Nat /\ Len(pending') \in Nat
    BY <1>1 DEF IInv, TypeOK, Contract
  <2>3. Len(pending') <= config.budget - Len(trials)
    BY <1>1, <2>1, <2>2 DEF Contract, Count, Left
  <2>4. Len(trials) + Len(pending') <= config.budget
    BY <2>1, <2>2, <2>3
  <2> QED  BY <1>1, <2>4 DEF IInv, Accounted
<1>6. Distinct'
  BY <1>1 DEF IInv, Distinct, Contract
<1> QED  BY <1>1, <1>3, <1>4, <1>5, <1>6 DEF IInv

LEMMA EvaluatePreserves == IInv /\ Evaluate => IInv'
<1> SUFFICES ASSUME IInv, Evaluate PROVE IInv'
  OBVIOUS
<1>0. PICK i \in Running :
        \E t \in Outcomes(Len(trials) + i - 1, pending[i]) : results' = Collected(i, t)
  BY DEF Evaluate
<1>1. PICK t \in Outcomes(Len(trials) + i - 1, pending[i]) : results' = Collected(i, t)
  BY <1>0
<1>2. UNCHANGED <<config, optimizer, keys, trials, pending, stagnation, phase, stopReason>>
  BY DEF Evaluate
<1>3. i \in DOMAIN pending
  BY <1>0 DEF Running, Unfinished
<1>4. t \in Trials
  <2>1. pending[i] \in Points /\ i \in Nat /\ i > 0 /\ Len(trials) \in Nat
    BY <1>3 DEF IInv, TypeOK
  <2>2. Len(trials) + i - 1 \in Nat
    BY <2>1
  <2> QED  BY <1>1, <2>1, <2>2 DEF Trials
<1>5. /\ DOMAIN results' = DOMAIN results \union {i}
      /\ \A j \in DOMAIN results' : results'[j] = IF j = i THEN t ELSE results[j]
      /\ results' = [j \in DOMAIN results' |-> results'[j]]
  BY <1>1 DEF Collected
<1>6. TypeOK'
  <2>1. DOMAIN results' \subseteq DOMAIN pending'
    BY <1>2, <1>3, <1>5 DEF IInv, TypeOK
  <2>2. \A j \in DOMAIN results' : results'[j] \in Trials
    BY <1>4, <1>5 DEF IInv, TypeOK
  <2>3. results' \in [DOMAIN results' -> Trials]
    BY <1>5, <2>2
  <2> QED  BY <1>2, <2>1, <2>3 DEF IInv, TypeOK
<1>7. ResultsFit'
  BY <1>1, <1>2, <1>5 DEF IInv, ResultsFit
<1> QED  BY <1>2, <1>6, <1>7 DEF IInv, Accounted, Distinct

(***************************************************************************)
(* When no point of the batch is unfinished, the results are a sequence    *)
(* with one trial per point.                                               *)
(***************************************************************************)
LEMMA ResultsComplete ==
    ASSUME IInv, Tell
    PROVE  /\ results \in Seq(Trials) /\ DOMAIN results = DOMAIN pending
           /\ Len(results) = Len(pending)
<1>1. DOMAIN results = DOMAIN pending
  BY DEF IInv, TypeOK, Tell, Unfinished
<1>2. DOMAIN pending = 1 .. Len(pending) /\ Len(pending) \in Nat
  BY DEF IInv, TypeOK
<1>3. results \in [1 .. Len(pending) -> Trials]
  BY <1>1, <1>2 DEF IInv, TypeOK
<1> QED  BY <1>1, <1>2, <1>3

LEMMA TellPreserves == IInv /\ Tell => IInv'
<1> SUFFICES ASSUME IInv, Tell PROVE IInv'
  OBVIOUS
<1>1. /\ results \in Seq(Trials) /\ DOMAIN results = DOMAIN pending
      /\ Len(results) = Len(pending)
  BY ResultsComplete
<1>2. /\ trials' = trials \o results /\ keys' = keys \o pending
      /\ pending' = <<>> /\ results' = <<>> /\ UNCHANGED <<config, phase, stopReason>>
  BY DEF Tell
<1>3. keys \in Seq(Points) /\ pending \in Seq(Points) /\ trials \in Seq(Trials)
  BY DEF IInv, TypeOK
<1>4. TypeOK'
  BY <1>1, <1>2, <1>3 DEF IInv, TypeOK
<1>5. ResultsFit'
  BY <1>2 DEF ResultsFit
<1>6. Accounted'
  <2>1. Len(trials') = Len(trials) + Len(pending) /\ Len(keys') = Len(keys) + Len(pending)
    <3>1. Len(trials \o results) = Len(trials) + Len(results)
      BY <1>1, <1>3, ConcatenationLength, Zenon
    <3>2. Len(keys \o pending) = Len(keys) + Len(pending)
      BY <1>3, ConcatenationLength, Zenon
    <3> QED  BY <1>1, <1>2, <3>1, <3>2
  <2>2. Len(trials') + Len(pending') <= config'.budget /\ Len(keys') = Len(trials')
    <3>1. Len(trials) \in Nat /\ Len(keys) \in Nat /\ Len(pending) \in Nat
      BY <1>3
    <3>2. Len(pending') = 0 /\ config'.budget = config.budget
      BY <1>2
    <3>3. config.budget \in Nat
      BY StrategyRunAssumption DEF IInv, TypeOK
    <3>4. Len(trials) + Len(pending) <= config.budget /\ Len(keys) = Len(trials)
      BY DEF IInv, Accounted
    <3> QED  BY <2>1, <3>1, <3>2, <3>3, <3>4
  <2>3. ASSUME NEW i \in DOMAIN trials' PROVE trials'[i].id = i - 1
    <3>1. i \in 1 .. Len(trials) + Len(pending) /\ Len(trials) \in Nat /\ Len(pending) \in Nat
      BY <1>1, <1>2, <1>3, <2>1
    <3>2. CASE i <= Len(trials)
      BY <1>1, <1>2, <1>3, <3>1, <3>2 DEF IInv, Accounted
    <3>3. CASE i > Len(trials)
      <4> DEFINE j == i - Len(trials)
      <4>1. j \in 1 .. Len(pending) /\ j \in DOMAIN results /\ Len(trials) + j - 1 = i - 1
        BY <1>1, <1>3, <3>1, <3>3
      <4>2. trials'[i] = results[j]
        BY <1>1, <1>2, <1>3, <3>1, <3>3
      <4>3. results[j] \in Outcomes(i - 1, pending[j])
        BY <4>1 DEF IInv, ResultsFit
      <4>4. pending[j] \in Points
        BY <1>3, <4>1
      <4>5. config \in Configs /\ config.budget \in Nat
        BY StrategyRunAssumption DEF IInv, TypeOK
      <4>6. i - 1 \in 0 .. config.budget
        BY <3>1, <4>5 DEF IInv, Accounted
      <4> QED  BY <4>2, <4>3, <4>4, <4>5, <4>6, StrategyRunAssumption
    <3> QED  BY <3>1, <3>2, <3>3
  <2> QED  BY <2>2, <2>3 DEF Accounted
<1>7. Distinct'
  <2>1. \A i, j \in DOMAIN keys' : keys'[i] = keys'[j] => i = j
    BY <1>2, <1>3, DistinctConcatenation DEF IInv, Distinct
  <2> QED  BY <1>2, <2>1 DEF Distinct
<1> QED  BY <1>2, <1>4, <1>5, <1>6, <1>7 DEF IInv

\* The other steps leave the trials, the keys and the batch alone.
LEMMA RestPreserves ==
    ASSUME IInv,
           UNCHANGED <<config, keys, trials, pending, results>>,
           phase' \in {"running", "stopped", "ended", "broken"},
           phase' # "running" => pending = <<>>
    PROVE  IInv'
BY DEF IInv, TypeOK, ResultsFit, Accounted, Distinct

LEMMA NextPreserves == IInv /\ [Next]_vars => IInv'
<1> SUFFICES ASSUME IInv, [Next]_vars PROVE IInv'
  OBVIOUS
<1>1. CASE Ask
  BY <1>1, AskPreserves
<1>2. CASE Evaluate
  BY <1>2, EvaluatePreserves
<1>3. CASE Tell
  BY <1>3, TellPreserves
<1>4. CASE StopAtBudget \/ StopInTime \/ StopStagnated \/ StopEmpty
  BY <1>4, RestPreserves
     DEF StopAtBudget, StopInTime, StopStagnated, StopEmpty, Stop, Between
<1>5. CASE Break
  BY <1>5, RestPreserves DEF Break, Between
<1>6. CASE Publish
  BY <1>6, RestPreserves DEF Publish, IInv
<1>7. CASE UNCHANGED vars
  BY <1>7, RestPreserves DEF vars, IInv, TypeOK
<1> QED  BY <1>1, <1>2, <1>3, <1>4, <1>5, <1>6, <1>7 DEF Next, Loop

LEMMA Inductive == Spec => []IInv
BY InitEstablishes, NextPreserves, PTL DEF Spec

(***************************************************************************)
(* The checks of ask() and the count of the runner keep a run within its   *)
(* budget, with consecutive ids and without a repeated point, whatever the *)
(* strategy answers (strategy.py, optimizers/base.py).                     *)
(***************************************************************************)
THEOREM BudgetIsExact == Spec => []BudgetIsSpentOnNewPoints
<1>1. IInv => BudgetIsSpentOnNewPoints
  <2> SUFFICES ASSUME IInv PROVE BudgetIsSpentOnNewPoints
    OBVIOUS
  <2>1. keys \in Seq(Points) /\ pending \in Seq(Points)
    BY DEF IInv, TypeOK
  <2>2. \A i, j \in DOMAIN (keys \o pending) :
            (keys \o pending)[i] = (keys \o pending)[j] => i = j
    BY <2>1, DistinctConcatenation DEF IInv, Distinct
  <2> QED  BY <2>2 DEF IInv, Accounted, BudgetIsSpentOnNewPoints
<1> QED  BY <1>1, Inductive, PTL

(***************************************************************************)
(* A run with any number of workers, finishing in any order, implements    *)
(* the search of one thread: the strategy is told the trials in the order  *)
(* it proposed their points (strategy.py _evaluate_batch).                 *)
(***************************************************************************)
THEOREM RefinesCatalogSearch == Spec => ImplementsCatalogSearch
<1>1. Init => Sequential!SearchInit
  BY DEF Init, Sequential!SearchInit
<1>2. IInv /\ [Next]_vars => [Sequential!SearchNext]_(Sequential!searchVars)
  <2> SUFFICES ASSUME IInv, [Next]_vars
               PROVE  [Sequential!SearchNext]_(Sequential!searchVars)
    OBVIOUS
  <2> USE DEF Sequential!searchVars
  <2>0. Sequential!Remaining = Left /\ Sequential!Wanted = Count
    BY DEF Sequential!Remaining, Left, Sequential!Wanted, Count
  <2>1. CASE Ask
    <3>1. PICK answer \in Replies :
             /\ answer.points # <<>> /\ Contract(answer.points)
             /\ pending' = answer.points /\ optimizer' = answer.optimizer
      BY <2>1 DEF Ask
    <3>2. Sequential!Acceptable(pending', Sequential!Wanted)
      BY <2>0, <3>1 DEF Contract, Sequential!Acceptable
    <3>3. Sequential!Offer
      BY <2>0, <2>1, <3>1, <3>2 DEF Sequential!Offer, Ask, Between, Replies
    <3> QED  BY <3>3 DEF Sequential!SearchNext
  <2>2. CASE StopEmpty
    <3>1. Sequential!GiveUp
      BY <2>0, <2>2 DEF Sequential!GiveUp, StopEmpty, Stop, Between, Replies
    <3> QED  BY <3>1 DEF Sequential!SearchNext
  <2>3. CASE Tell
    <3>1. /\ results \in Seq(Trials) /\ DOMAIN results = DOMAIN pending
          /\ Len(results) = Len(pending)
      BY <2>3, ResultsComplete
    <3>2. results \in Sequential!Evaluations(pending)
      <4>1. \A i \in DOMAIN pending :
               results[i] \in Outcomes(Len(trials) + i - 1, pending[i])
        BY <3>1 DEF IInv, ResultsFit
      <4>2. results \in [DOMAIN pending ->
                            UNION {Outcomes(Len(trials) + i - 1, pending[i]) :
                                       i \in DOMAIN pending}]
        BY <3>1, <4>1 DEF IInv, TypeOK
      <4> QED  BY <4>1, <4>2 DEF Sequential!Evaluations
    <3>3. Sequential!Complete
      BY <2>3, <3>2 DEF Sequential!Complete, Tell
    <3> QED  BY <3>3 DEF Sequential!SearchNext
  <2>4. CASE Evaluate
    BY <2>4 DEF Evaluate
  <2>5. CASE StopAtBudget \/ StopInTime \/ StopStagnated
    BY <2>5 DEF StopAtBudget, StopInTime, StopStagnated, Stop
  <2>6. CASE Break \/ Publish
    BY <2>6 DEF Break, Publish
  <2>7. CASE UNCHANGED vars
    BY <2>7 DEF vars
  <2> QED  BY <2>1, <2>2, <2>3, <2>4, <2>5, <2>6, <2>7 DEF Next, Loop
<1> QED  BY <1>1, <1>2, Inductive, PTL
         DEF Spec, ImplementsCatalogSearch, Sequential!SearchSpec
-----------------------------------------------------------------------------
(***************************************************************************)
(* The front of a prefix of the trials is no matter of what follows it, so *)
(* a batch only has to be compared with the trials before it.              *)
(***************************************************************************)
MeasuredInv ==
    /\ StagnationIsMeasured
    /\ Len(pending) <= config.batchSize

\* A prefix of the first of two sequences is one of their concatenation.
LEMMA PrefixOfConcatenation ==
    ASSUME NEW S, NEW a \in Seq(S), NEW b \in Seq(S), NEW n \in 0 .. Len(a)
    PROVE  SubSeq(a \o b, 1, n) = SubSeq(a, 1, n)
<1>1. Len(a) \in Nat /\ Len(b) \in Nat /\ n \in Nat /\ n <= Len(a)
  OBVIOUS
<1>2. Len(SubSeq(a \o b, 1, n)) = n /\ Len(SubSeq(a, 1, n)) = n
  BY <1>1
<1>3. ASSUME NEW i \in 1 .. n
      PROVE  SubSeq(a \o b, 1, n)[i] = SubSeq(a, 1, n)[i]
  BY <1>1
<1>4. SubSeq(a \o b, 1, n) \in Seq(S) /\ SubSeq(a, 1, n) \in Seq(S)
  BY <1>1
<1> QED  BY <1>2, <1>3, <1>4

\* The whole of a sequence is one of its prefixes.
LEMMA WholePrefix ==
    ASSUME NEW S, NEW a \in Seq(S)
    PROVE  SubSeq(a, 1, Len(a)) = a
<1>1. Len(a) \in Nat
  OBVIOUS
<1>2. Len(SubSeq(a, 1, Len(a))) = Len(a) /\ SubSeq(a, 1, Len(a)) \in Seq(S)
  BY <1>1
<1>3. \A i \in 1 .. Len(a) : SubSeq(a, 1, Len(a))[i] = a[i]
  BY <1>1
<1> QED  BY <1>1, <1>2, <1>3

LEMMA InitMeasured == Init => MeasuredInv
<1> SUFFICES ASSUME Init PROVE MeasuredInv
  OBVIOUS
<1>1. trials = <<>> /\ pending = <<>> /\ stagnation = 0 /\ config \in Configs
  BY DEF Init
<1>2. Len(trials) = 0 /\ Len(pending) = 0 /\ config.batchSize \in Nat
  BY <1>1, StrategyRunAssumption
<1>3. SubSeq(trials, 1, 0) = trials
  BY <1>1
<1>4. Len(trials) - stagnation = 0
  BY <1>1, <1>2
<1>5. StagnationIsMeasured
  <2>1. stagnation \in 0 .. Len(trials)
    BY <1>1, <1>2
  <2>2. FrontIds(SubSeq(trials, 1, 0)) = FrontIds(trials)
    BY <1>3, Zenon
  <2>3. ~(0 > 0)
    OBVIOUS
  <2> QED  BY <1>4, <2>1, <2>2, <2>3, Zenon DEF StagnationIsMeasured
<1> QED  BY <1>2, <1>5 DEF MeasuredInv

(***************************************************************************)
(* The batch that is told changes the front, and the trials before it are  *)
(* the ones that had another, or it does not, and the front last changed   *)
(* where it did before.                                                    *)
(***************************************************************************)
LEMMA TellMeasured == IInv /\ MeasuredInv /\ Tell => MeasuredInv'
<1> SUFFICES ASSUME IInv, MeasuredInv, Tell PROVE MeasuredInv'
  OBVIOUS
<1> DEFINE N == Len(trials)
           P == Len(pending)
           changed == N - stagnation
<1>1. /\ results \in Seq(Trials) /\ Len(results) = P
      /\ trials \in Seq(Trials) /\ pending \in Seq(Points)
  BY ResultsComplete DEF IInv, TypeOK
<1>2. trials' = trials \o results /\ pending' = <<>> /\ config' = config
  BY DEF Tell
<1>3. /\ N \in Nat /\ P \in Nat /\ P > 0 /\ P <= config.batchSize
      /\ stagnation \in 0 .. N /\ config.batchSize \in Nat
  <2>1. N \in Nat /\ P \in Nat
    BY <1>1
  <2>2. pending # <<>>
    BY DEF Tell
  <2>3. P > 0
    BY <1>1, <2>1, <2>2
  <2>4. config.batchSize \in Nat
    BY StrategyRunAssumption DEF IInv, TypeOK
  <2> QED  BY <2>1, <2>3, <2>4 DEF MeasuredInv, StagnationIsMeasured
<1>4. Len(trials') = N + P /\ trials' \in Seq(Trials)
  <2>1. Len(trials \o results) = Len(trials) + Len(results)
    BY <1>1, ConcatenationLength, Zenon
  <2> QED  BY <1>1, <1>2, <2>1
<1>5. \A n \in 0 .. N : SubSeq(trials', 1, n) = SubSeq(trials, 1, n)
  BY <1>1, <1>2, PrefixOfConcatenation, Zenon
<1>6. SubSeq(trials', 1, N + P) = trials' /\ SubSeq(trials, 1, N) = trials
  <2>1. SubSeq(trials', 1, Len(trials')) = trials'
    BY <1>4, WholePrefix, Zenon
  <2>2. SubSeq(trials, 1, N) = trials
    BY <1>1, WholePrefix, Zenon
  <2> QED  BY <1>4, <2>1, <2>2, Zenon
<1>7. Len(pending') <= config'.batchSize
  BY <1>2, <1>3
<1>8. CASE FrontIds(trials') # FrontIds(trials)
  <2>1. stagnation' = 0
    BY <1>8 DEF Tell
  <2> HIDE DEF N, P
  <2>2. Len(trials') - stagnation' = N + P
    BY <1>3, <1>4, <2>1 DEF N, P
  <2>3. stagnation' \in 0 .. Len(trials')
    BY <1>3, <1>4, <2>1 DEF N, P
  <2>4. N \in 0 .. (N + P) - 1 /\ (N + P) - N <= config'.batchSize
    BY <1>2, <1>3
  <2>5. N \in 0 .. N
    BY <1>3
  <2>6. SubSeq(trials', 1, N) = trials
    BY <1>5, <1>6, <2>5, Zenon
  <2>7. FrontIds(SubSeq(trials', 1, N)) # FrontIds(trials')
    BY <1>8, <2>6, Zenon
  <2>8. FrontIds(SubSeq(trials', 1, N + P)) = FrontIds(trials')
    BY <1>6, Zenon
  <2>9. StagnationIsMeasured'
    BY <2>2, <2>3, <2>4, <2>7, <2>8, Zenon DEF StagnationIsMeasured
  <2> QED  BY <1>7, <2>9, Zenon DEF MeasuredInv
<1>9. CASE FrontIds(trials') = FrontIds(trials)
  <2>1. stagnation' = stagnation + P
    BY <1>9 DEF Tell
  <2>2. /\ FrontIds(SubSeq(trials, 1, changed)) = FrontIds(trials)
        /\ changed > 0 =>
             \E n \in 0 .. changed - 1 :
                 /\ changed - n <= config.batchSize
                 /\ FrontIds(SubSeq(trials, 1, n)) # FrontIds(trials)
    BY DEF MeasuredInv, StagnationIsMeasured
  <2> HIDE DEF N, P
  <2>3. changed \in 0 .. N
    BY <1>3
  <2>4. Len(trials') - stagnation' = changed
    BY <1>3, <1>4, <2>1 DEF N, P
  <2>5. stagnation' \in 0 .. Len(trials')
    <3>1. stagnation + P \in 0 .. N + P
      BY <1>3
    <3>2. Len(trials') = N + P
      BY <1>4
    <3> QED  BY <2>1, <3>1, <3>2, Zenon
  <2>6. FrontIds(SubSeq(trials', 1, changed)) = FrontIds(trials')
    BY <1>5, <1>9, <2>2, <2>3, Zenon
  <2>7. changed > 0 =>
          \E n \in 0 .. changed - 1 :
              /\ changed - n <= config'.batchSize
              /\ FrontIds(SubSeq(trials', 1, n)) # FrontIds(trials')
    <3> SUFFICES ASSUME changed > 0
                 PROVE  \E n \in 0 .. changed - 1 :
                          /\ changed - n <= config'.batchSize
                          /\ FrontIds(SubSeq(trials', 1, n)) # FrontIds(trials')
      OBVIOUS
    <3>1. PICK n \in 0 .. changed - 1 :
             /\ changed - n <= config.batchSize
             /\ FrontIds(SubSeq(trials, 1, n)) # FrontIds(trials)
      BY <2>2
    <3>2. n \in 0 .. N
      BY <1>3, <2>3
    <3>3. FrontIds(SubSeq(trials', 1, n)) # FrontIds(trials')
      BY <1>5, <1>9, <3>1, <3>2, Zenon
    <3> HIDE DEF changed
    <3> QED  BY <1>2, <3>1, <3>3, Zenon
  <2> HIDE DEF changed
  <2>8. StagnationIsMeasured'
    BY <2>4, <2>5, <2>6, <2>7, Zenon DEF StagnationIsMeasured
  <2> QED  BY <1>7, <2>8, Zenon DEF MeasuredInv
<1> QED  BY <1>8, <1>9

\* No other step changes the trials or their count.
LEMMA NextMeasured == IInv /\ MeasuredInv /\ [Next]_vars => MeasuredInv'
<1> SUFFICES ASSUME IInv, MeasuredInv, [Next]_vars PROVE MeasuredInv'
  OBVIOUS
<1>1. CASE Tell
  BY <1>1, TellMeasured
<1>2. CASE Ask
  <2>1. Contract(pending') /\ UNCHANGED <<config, trials, stagnation>>
    BY <1>2 DEF Ask
  <2>2. config.budget \in Nat /\ config.batchSize \in Nat /\ trials \in Seq(Trials)
    BY StrategyRunAssumption DEF IInv, TypeOK
  <2>3. Len(pending') \in Nat /\ Len(pending') <= Count
    BY <2>1 DEF Contract
  <2>4. Count <= config.batchSize /\ Count \in Int
    BY <2>2 DEF Count, Left
  <2>5. Len(pending') <= config'.batchSize
    BY <2>1, <2>2, <2>3, <2>4
  <2>6. StagnationIsMeasured'
    BY <2>1 DEF MeasuredInv, StagnationIsMeasured
  <2> QED  BY <2>5, <2>6 DEF MeasuredInv
<1>3. CASE Evaluate \/ StopAtBudget \/ StopInTime \/ StopStagnated \/ StopEmpty
           \/ Break \/ Publish \/ UNCHANGED vars
  <2>1. UNCHANGED <<config, trials, pending, stagnation>>
    BY <1>3 DEF Evaluate, StopAtBudget, StopInTime, StopStagnated, StopEmpty,
                Stop, Break, Publish, vars
  <2> QED  BY <2>1 DEF MeasuredInv, StagnationIsMeasured
<1> QED  BY <1>1, <1>2, <1>3 DEF Next, Loop

(***************************************************************************)
(* The runner stops for stagnation on a count that is right: so many       *)
(* trials at the end of the run left the front as it was, and no more,     *)
(* with batches of any lengths (strategy.py, signature and frontier_grew). *)
(***************************************************************************)
THEOREM StagnationCountIsExact == Spec => []StagnationIsMeasured
<1>1. MeasuredInv => StagnationIsMeasured
  BY DEF MeasuredInv
<1>2. IInv /\ IInv' /\ MeasuredInv /\ [Next]_vars => MeasuredInv'
  BY NextMeasured
<1> QED  BY <1>1, <1>2, InitMeasured, Inductive, PTL DEF Spec
-----------------------------------------------------------------------------
(* What a loop makes of a set of answers: in each round all those that     *)
(* each answer of the round before leads to.                               *)

Spreads(it, N, start, G) ==
    it = [r \in 0 .. N |-> IF r = 0 THEN {start} ELSE UNION {G[<<r, a>>] : a \in it[r - 1]}]

LEMMA SpreadsExist ==
    ASSUME NEW N \in Nat, NEW X, NEW start \in X, NEW G \in [(1 .. N) \X X -> SUBSET X]
    PROVE  \E it \in [0 .. N -> SUBSET X] : Spreads(it, N, start, G)
<1> DEFINE H == [p \in (1 .. N) \X SUBSET X |-> UNION {G[<<p[1], a>>] : a \in p[2]}]
<1>0. ASSUME NEW r \in 1 .. N, NEW x \in SUBSET X
      PROVE  H[<<r, x>>] = UNION {G[<<r, a>>] : a \in x}
  <2> DEFINE p == <<r, x>>
  <2>1. p \in (1 .. N) \X SUBSET X /\ p[1] = r /\ p[2] = x
    OBVIOUS
  <2> HIDE DEF p
  <2>2. H[p] = UNION {G[<<p[1], a>>] : a \in p[2]}
    BY <2>1
  <2> QED
    BY <2>1, <2>2 DEF p
<1> HIDE DEF H
<1>1. PICK it : Rounds(it, N, {start}, H)
  BY RoundsExist
<1>2. it[0] = {start} /\ \A r \in 1 .. N : it[r] = H[<<r, it[r - 1]>>]
  BY <1>1, RoundsAre
<1>3. \A r \in 1 .. N : r - 1 \in 0 .. N /\ r \in 0 .. N /\ r # 0
  OBVIOUS
<1>4. ASSUME NEW r \in 1 .. N, it[r - 1] \in SUBSET X
      PROVE  it[r] = UNION {G[<<r, a>>] : a \in it[r - 1]} /\ it[r] \in SUBSET X
  <2>2. it[r] = UNION {G[<<r, a>>] : a \in it[r - 1]}
    BY <1>0, <1>2, <1>4
  <2>3. \A a \in it[r - 1] : G[<<r, a>>] \in SUBSET X
    BY <1>4
  <2> QED
    BY <2>2, <2>3
<1> DEFINE Good == {r \in 0 .. N : it[r] \in SUBSET X}
<1>5. 0 \in Good
  BY <1>2
<1>6. \A r \in 1 .. N : r - 1 \in Good => r \in Good
  BY <1>3, <1>4
<1> HIDE DEF Good
<1>7. \A r \in 0 .. N : r \in Good
  BY <1>5, <1>6, RoundsKeep
<1>8. \A r \in 0 .. N : it[r] \in SUBSET X
  BY <1>7 DEF Good
<1>9. it = [r \in 0 .. N |-> it[r]]
  BY <1>1 DEF Rounds
<1>10. it \in [0 .. N -> SUBSET X]
  BY <1>8, <1>9
<1>11. ASSUME NEW r \in 0 .. N
       PROVE  it[r] = IF r = 0 THEN {start} ELSE UNION {G[<<r, a>>] : a \in it[r - 1]}
  <2>1. CASE r = 0
    BY <1>2, <2>1
  <2>2. CASE r # 0
    <3>1. r \in 1 .. N /\ r - 1 \in 0 .. N
      BY <2>2
    <3> QED
      BY <1>4, <1>8, <2>2, <3>1
  <2> QED
    BY <2>1, <2>2
<1> DEFINE new == [r \in 0 .. N |-> IF r = 0 THEN {start} ELSE UNION {G[<<r, a>>] : a \in it[r - 1]}]
           old == [r \in 0 .. N |-> it[r]]
<1>12. old = new
  BY <1>11, Zenon
<1>13. Spreads(it, N, start, G)
  BY <1>9, <1>12, Zenon DEF Spreads
<1> QED
  BY <1>10, <1>13
-----------------------------------------------------------------------------
(* Answers.                                                                *)

Memory == Seq(Trial(Objectives))

\* The optimizers of the catalog.
Optimizer ==
    [strategy : AllStrategies, walk : {w \in Seq(Keys) : Enumerates(w)},
     population : Memory, offspring : Memory,
     recent : [feasible : Memory, infeasible : Memory],
     slots : Seq(0 .. PopulationSize), next : 0 .. PopulationSize - 1,
     ideal : Seq(Int), cursor : Nat, observed : Nat]

Walked(o, known, cursor) ==
    cursor \in 0 .. Len(o.walk) /\ \A i \in 1 .. cursor : o.walk[i] \in known

\* A point that was found, or a reason why there is none.
Found(o, blocked, p) ==
    /\ p.key \in (Keys \ blocked) \union {Nothing}
    /\ p.key # Nothing => /\ p.reason = Unexplained
                          /\ Walked(o, blocked \union {p.key}, p.cursor)
    /\ p.key = Nothing =>
         /\ Walked(o, blocked, p.cursor)
         /\ \/ p.reason = "search_space_exhausted" /\ o.walk # <<>> /\ p.cursor = Len(o.walk)
            \/ p.reason = "proposal_stalled" /\ o.walk = <<>>

LEMMA FallbackFinds ==
    ASSUME NEW o \in Optimizer, NEW blocked \in SUBSET Keys, NEW cursor,
           Walked(o, blocked, cursor), NEW p \in Fallback(o, blocked, cursor)
    PROVE  Found(o, blocked, p)
<1> DEFINE ahead == {i \in cursor + 1 .. Len(o.walk) : o.walk[i] \notin blocked}
           immigrants == IF o.strategy = "weave" THEN {} ELSE Drawn(Keys \ blocked)
<1>1. o.walk \in Seq(Keys) /\ cursor \in 0 .. Len(o.walk) /\ Len(o.walk) \in Nat
  BY DEF Optimizer, Walked
<1>2. CASE o.walk # <<>> /\ ahead # {}
  <2> DEFINE m == Min(ahead)
  <2>1. ahead \in SUBSET Nat
    BY <1>1
  <2>2. m \in ahead /\ \A y \in ahead : m <= y
    BY <1>2, <2>1, MinIsLeast
  <2>3. p = [key |-> o.walk[m], cursor |-> m, reason |-> Unexplained]
    BY <1>2, Zenon DEF Fallback
  <2> HIDE DEF m
  <2>4. m \in cursor + 1 .. Len(o.walk) /\ o.walk[m] \notin blocked
    BY <2>2
  <2>5. o.walk[m] \in Keys
    BY <1>1, <2>4
  <2>6. \A i \in 1 .. m : o.walk[i] \in blocked \union {o.walk[m]}
    <3> SUFFICES ASSUME NEW i \in 1 .. m, o.walk[i] \notin blocked PROVE i = m
      OBVIOUS
    <3>1. i \in 1 .. Len(o.walk)
      BY <1>1, <2>4
    <3>2. ~(i <= cursor)
      BY <3>1 DEF Walked
    <3>3. i \in ahead
      BY <1>1, <3>1, <3>2
    <3> QED
      BY <1>1, <2>2, <2>4, <3>1, <3>3
  <2>7. m \in 0 .. Len(o.walk)
    BY <1>1, <2>4
  <2>8. p.key = o.walk[m] /\ p.cursor = m /\ p.reason = Unexplained
    BY <2>3
  <2>9. p.key # Nothing
    BY <2>5, <2>8, NothingAssumption
  <2> QED
    BY <2>4, <2>5, <2>6, <2>7, <2>8, <2>9 DEF Found, Walked
<1>3. CASE o.walk # <<>> /\ ahead = {}
  <2>1. p = [key |-> Nothing, cursor |-> Len(o.walk), reason |-> "search_space_exhausted"]
    BY <1>3, Zenon DEF Fallback
  <2>2. \A i \in 1 .. Len(o.walk) : o.walk[i] \in blocked
    <3> SUFFICES ASSUME NEW i \in 1 .. Len(o.walk), o.walk[i] \notin blocked PROVE FALSE
      OBVIOUS
    <3>1. ~(i <= cursor)
      BY DEF Walked
    <3>2. i \in ahead
      BY <1>1, <3>1
    <3> QED
      BY <1>3, <3>2
  <2>3. Len(o.walk) \in 0 .. Len(o.walk)
    BY <1>1
  <2>4. p.key = Nothing /\ p.cursor = Len(o.walk) /\ p.reason = "search_space_exhausted"
    BY <2>1
  <2> QED
    BY <1>3, <2>2, <2>3, <2>4 DEF Found, Walked
<1>4. CASE o.walk = <<>>
  <2>1. p \in {[key |-> k, cursor |-> cursor, reason |-> Unexplained] : k \in immigrants}
               \union {[key |-> Nothing, cursor |-> cursor, reason |-> "proposal_stalled"]}
    BY <1>4, Zenon DEF Fallback
  <2>2. cursor = 0
    BY <1>1, <1>4
  <2>3. CASE p = [key |-> Nothing, cursor |-> cursor, reason |-> "proposal_stalled"]
    <3>1. p.key = Nothing /\ p.cursor = cursor /\ p.reason = "proposal_stalled"
      BY <2>3
    <3> QED
      BY <1>4, <3>1 DEF Found
  <2>4. CASE p \in {[key |-> k, cursor |-> cursor, reason |-> Unexplained] : k \in immigrants}
    <3>1. PICK k \in immigrants : p = [key |-> k, cursor |-> cursor, reason |-> Unexplained]
      BY <2>4
    <3>2. Keys \ blocked \in SUBSET Keys
      OBVIOUS
    <3>3. k \in Keys \ blocked
      BY <3>2, OptimizersAssumption
    <3>4. p.key = k /\ p.cursor = cursor /\ p.reason = Unexplained
      BY <3>1
    <3>5. k # Nothing
      BY <3>3, NothingAssumption
    <3> QED
      BY <3>3, <3>4, <3>5 DEF Found, Walked
  <2> QED
    BY <2>1, <2>3, <2>4
<1> QED
  BY <1>2, <1>3, <1>4

\* So does an attempt that succeeds.
LEMMA AttemptFinds ==
    ASSUME NEW o, NEW blocked \in SUBSET Keys, NEW cursor, Walked(o, blocked, cursor),
           NEW unseen, unseen \subseteq Keys \ blocked, NEW k \in unseen
    PROVE  Found(o, blocked, [key |-> k, cursor |-> cursor, reason |-> Unexplained])
<1> DEFINE p == [key |-> k, cursor |-> cursor, reason |-> Unexplained]
<1>1. p.key = k /\ p.cursor = cursor /\ p.reason = Unexplained
  OBVIOUS
<1> HIDE DEF p
<1>2. k # Nothing /\ k \in Keys \ blocked
  BY NothingAssumption
<1>3. Found(o, blocked, p)
  BY <1>1, <1>2 DEF Found, Walked
<1> QED
  BY <1>3 DEF p


\* A sequence with one element more.
LEMMA AppendParts ==
    ASSUME NEW S, NEW s \in Seq(S), NEW x \in S
    PROVE  /\ Append(s, x) \in Seq(S) /\ Append(s, x) # <<>>
           /\ Len(s) \in Nat /\ DOMAIN s = 1 .. Len(s)
           /\ Len(Append(s, x)) = Len(s) + 1
           /\ DOMAIN Append(s, x) = 1 .. Len(s) + 1
           /\ \A i \in 1 .. Len(s) : Append(s, x)[i] = s[i]
           /\ Append(s, x)[Len(s) + 1] = x
           /\ ToSet(Append(s, x)) = ToSet(s) \union {x}
<1> DEFINE more == Append(s, x)
<1>1. /\ more \in Seq(S) /\ Len(s) \in Nat /\ Len(more) = Len(s) + 1
      /\ DOMAIN s = 1 .. Len(s) /\ DOMAIN more = 1 .. Len(s) + 1
      /\ \A i \in 1 .. Len(s) : more[i] = s[i]
      /\ more[Len(s) + 1] = x
  OBVIOUS
<1> HIDE DEF more
<1>2. DOMAIN more = DOMAIN s \union {Len(s) + 1} /\ Len(s) + 1 \in DOMAIN more
  BY <1>1
<1>3. ToSet(more) = ToSet(s) \union {x}
  BY <1>1, <1>2 DEF ToSet
<1>4. more # <<>>
  BY <1>1
<1> QED
  BY <1>1, <1>3, <1>4, Zenon DEF more

Reasons == {Unexplained, "search_space_exhausted", "proposal_stalled"}

Answer ==
    [points : Seq(Keys), slots : Seq(0 .. PopulationSize), next : 0 .. PopulationSize - 1,
     cursor : Nat, reason : Reasons, drawing : BOOLEAN]

(***************************************************************************)
(* What holds of every answer on its way: its points are new and distinct, *)
(* one slot goes with each, what the walk has passed is known, and the     *)
(* reason is a true one.                                                   *)
(***************************************************************************)
ReasonHolds(o, a) ==
    /\ a.reason = "search_space_exhausted" => o.walk # <<>> /\ a.cursor = Len(o.walk)
    /\ a.reason = "proposal_stalled" => o.walk = <<>>

Answering(o, seen, a) ==
    /\ a \in Answer
    /\ Len(a.slots) = Len(a.points)
    /\ \A i, j \in DOMAIN a.points : a.points[i] = a.points[j] => i = j
    /\ \A i \in DOMAIN a.points : a.points[i] \notin seen
    /\ Walked(o, seen \union ToSet(a.points), a.cursor)
    /\ ReasonHolds(o, a)

\* An answer with one point more, and one with a reason for none.
Longer(a, p, slot, next, drawing, b) ==
    b = [points |-> Append(a.points, p.key), slots |-> Append(a.slots, slot),
         next |-> next, cursor |-> p.cursor, reason |-> Unexplained,
         drawing |-> drawing]

Unextended(a, p, next, b) ==
    b = [points |-> a.points, slots |-> a.slots,
         next |-> next, cursor |-> p.cursor, reason |-> p.reason,
         drawing |-> a.drawing]

LEMMA WithPoint ==
    ASSUME NEW o, NEW seen, NEW a, Answering(o, seen, a),
           NEW p, Found(o, seen \union ToSet(a.points), p), p.key # Nothing,
           NEW slot \in 0 .. PopulationSize, NEW next \in 0 .. PopulationSize - 1,
           NEW drawing \in BOOLEAN, NEW b, Longer(a, p, slot, next, drawing, b)
    PROVE  Answering(o, seen, b)
<1> DEFINE q == a.points
           k == p.key
<1>1. /\ a.points \in Seq(Keys) /\ a.slots \in Seq(0 .. PopulationSize)
      /\ Len(a.slots) = Len(a.points)
  BY DEF Answering, Answer
<1>2. k \in Keys /\ k \notin seen /\ k \notin ToSet(q) /\ p.cursor \in 0 .. Len(o.walk)
      /\ \A i \in 1 .. p.cursor : o.walk[i] \in (seen \union ToSet(q)) \union {k}
  BY DEF Found, Walked
<1>3. b.points = Append(q, k) /\ b.slots = Append(a.slots, slot) /\ b.next = next
      /\ b.cursor = p.cursor /\ b.reason = Unexplained /\ b.drawing = drawing
  BY DEF Longer
<1>4. /\ Append(q, k) \in Seq(Keys) /\ Len(q) \in Nat /\ DOMAIN q = 1 .. Len(q)
      /\ Len(Append(q, k)) = Len(q) + 1 /\ DOMAIN Append(q, k) = 1 .. Len(q) + 1
      /\ \A i \in 1 .. Len(q) : Append(q, k)[i] = q[i]
      /\ Append(q, k)[Len(q) + 1] = k
      /\ ToSet(Append(q, k)) = ToSet(q) \union {k}
  BY <1>1, <1>2, AppendParts
<1>5. Append(a.slots, slot) \in Seq(0 .. PopulationSize)
      /\ Len(Append(a.slots, slot)) = Len(a.slots) + 1
  BY <1>1, AppendParts
<1>6. b \in Answer
  <2>1. p.cursor \in Nat /\ Unexplained \in Reasons
    BY <1>2 DEF Reasons
  <2> QED
    BY <1>4, <1>5, <2>1 DEF Answer, Longer
<1>7. Len(b.slots) = Len(b.points)
  BY <1>1, <1>3, <1>4, <1>5
<1>8. \A i \in DOMAIN q : q[i] \in ToSet(q) /\ q[i] \notin seen
  BY DEF ToSet, Answering
<1>9. \A i, j \in DOMAIN q : q[i] = q[j] => i = j
  BY DEF Answering
<1> HIDE DEF q, k
<1>10. ASSUME NEW i \in DOMAIN b.points, NEW j \in DOMAIN b.points, b.points[i] = b.points[j]
       PROVE  i = j
  <2>1. i \in 1 .. Len(q) + 1 /\ j \in 1 .. Len(q) + 1
    BY <1>3, <1>4
  <2>2. CASE i \in 1 .. Len(q) /\ j \in 1 .. Len(q)
    BY <1>3, <1>4, <1>9, <1>10, <2>2
  <2>3. CASE i = Len(q) + 1 /\ j \in 1 .. Len(q)
    BY <1>2, <1>3, <1>4, <1>8, <1>10, <2>3
  <2>4. CASE i \in 1 .. Len(q) /\ j = Len(q) + 1
    BY <1>2, <1>3, <1>4, <1>8, <1>10, <2>4
  <2>5. CASE i = Len(q) + 1 /\ j = Len(q) + 1
    BY <2>5
  <2> QED
    BY <1>4, <2>1, <2>2, <2>3, <2>4, <2>5
<1>11. ASSUME NEW i \in DOMAIN b.points
       PROVE  b.points[i] \notin seen
  <2>1. i \in 1 .. Len(q) \/ i = Len(q) + 1
    BY <1>3, <1>4
  <2> QED
    BY <1>2, <1>3, <1>4, <1>8, <2>1
<1>12. Walked(o, seen \union ToSet(b.points), b.cursor)
  BY <1>2, <1>3, <1>4 DEF Walked
<1>13. ReasonHolds(o, b)
  BY <1>3 DEF ReasonHolds, Unexplained
<1> QED
  BY <1>6, <1>7, <1>10, <1>11, <1>12, <1>13 DEF Answering

LEMMA WithoutPoint ==
    ASSUME NEW o, NEW seen, NEW a, Answering(o, seen, a),
           NEW p, Found(o, seen \union ToSet(a.points), p), p.key = Nothing,
           NEW next \in 0 .. PopulationSize - 1, NEW b, Unextended(a, p, next, b)
    PROVE  Answering(o, seen, b) /\ b.reason # Unexplained
<1>1. /\ a.points \in Seq(Keys) /\ a.slots \in Seq(0 .. PopulationSize)
      /\ a.drawing \in BOOLEAN
  BY DEF Answering, Answer
<1>2. /\ Walked(o, seen \union ToSet(a.points), p.cursor)
      /\ \/ p.reason = "search_space_exhausted" /\ o.walk # <<>> /\ p.cursor = Len(o.walk)
         \/ p.reason = "proposal_stalled" /\ o.walk = <<>>
  BY DEF Found
<1>3. b.points = a.points /\ b.slots = a.slots /\ b.next = next
      /\ b.cursor = p.cursor /\ b.reason = p.reason /\ b.drawing = a.drawing
  BY DEF Unextended
<1>4. b \in Answer
  <2>1. p.reason \in Reasons /\ p.cursor \in Nat
    BY <1>2 DEF Reasons, Walked
  <2> QED
    BY <1>1, <2>1 DEF Answer, Unextended
<1>5. ReasonHolds(o, b) /\ b.reason # Unexplained
  BY <1>2, <1>3 DEF ReasonHolds, Unexplained
<1>6. Walked(o, seen \union ToSet(b.points), b.cursor)
  BY <1>2, <1>3
<1> QED
  BY <1>3, <1>4, <1>5, <1>6 DEF Answering


\* An answer that fills a batch, after some rounds: no slots are given out.
Completing(o, count, seen, r) ==
    {a \in Answer :
        /\ Answering(o, seen, a)
        /\ \A i \in DOMAIN a.slots : a.slots[i] = 0
        /\ a.next = o.next /\ Len(a.points) <= count
        /\ a.reason = Unexplained => Len(a.points) >= r}

LEMMA OneMoreKeeps ==
    ASSUME NEW o \in Optimizer, NEW seen \in SUBSET Keys, NEW count \in Nat,
           NEW r \in 1 .. count, NEW separate \in BOOLEAN,
           NEW a \in Completing(o, count, seen, r - 1),
           NEW b \in OneMore(o, count, seen, separate, a)
    PROVE  b \in Completing(o, count, seen, r)
<1> DEFINE blocked == seen \union ToSet(a.points)
           drawn == IF a.drawing THEN Attempts(blocked, a.cursor) ELSE {}
           fallbacks == Fallback(o, blocked, a.cursor)
           With(p, drawing) == [a EXCEPT !.points = Append(@, p.key), !.slots = Append(@, 0),
                                         !.cursor = p.cursor, !.drawing = drawing]
           Ended(p) == [a EXCEPT !.cursor = p.cursor, !.reason = p.reason]
<1>1. /\ a \in Answer /\ Answering(o, seen, a) /\ \A i \in DOMAIN a.slots : a.slots[i] = 0
      /\ a.next = o.next /\ Len(a.points) <= count
      /\ a.reason = Unexplained => Len(a.points) >= r - 1
  BY DEF Completing
<1>2. /\ a.points \in Seq(Keys) /\ a.slots \in Seq(0 .. PopulationSize) /\ a.cursor \in Nat
      /\ a.next \in 0 .. PopulationSize - 1 /\ a.drawing \in BOOLEAN /\ Len(a.points) \in Nat
      /\ Len(a.slots) = Len(a.points)
  BY <1>1 DEF Answer, Answering
<1>3. blocked \in SUBSET Keys /\ Walked(o, blocked, a.cursor)
  BY <1>1, <1>2 DEF Answering, ToSet
<1>4. CASE Len(a.points) = count \/ a.reason # Unexplained
  <2>1. b = a
    BY <1>4, Zenon DEF OneMore
  <2> QED
    BY <1>1, <1>2, <1>4, <2>1 DEF Completing
<1>5. CASE ~(Len(a.points) = count \/ a.reason # Unexplained)
  <2>1. b \in {With(p, TRUE) : p \in drawn}
              \union {IF p.key = Nothing THEN Ended(p) ELSE With(p, separate) : p \in fallbacks}
    BY <1>5, Zenon DEF OneMore
  <2>2. ASSUME NEW p, Found(o, blocked, p), p.key # Nothing, NEW drawing \in BOOLEAN,
               b = With(p, drawing)
        PROVE  b \in Completing(o, count, seen, r)
    <3>1. b = [points |-> Append(a.points, p.key), slots |-> Append(a.slots, 0),
               next |-> a.next, cursor |-> p.cursor, reason |-> Unexplained,
               drawing |-> drawing]
      BY <1>1, <1>5, <2>2 DEF Answer
    <3>2. 0 \in 0 .. PopulationSize
      BY OptimizersAssumption
    <3>3. Answering(o, seen, b)
      <4>1. /\ Answering(o, seen, a) /\ Found(o, seen \union ToSet(a.points), p)
            /\ p.key # Nothing /\ a.next \in 0 .. PopulationSize - 1
        BY <1>1, <1>2, <2>2
      <4>2. Longer(a, p, 0, a.next, drawing, b)
        BY <3>1 DEF Longer
      <4> QED
        BY <2>2, <3>2, <4>1, <4>2, WithPoint
    <3>4. p.key \in Keys
      BY <2>2 DEF Found
    <3>5. /\ Len(b.points) = Len(a.points) + 1
          /\ DOMAIN b.slots = 1 .. Len(a.slots) + 1
          /\ DOMAIN a.slots = 1 .. Len(a.slots)
          /\ \A i \in 1 .. Len(a.slots) : b.slots[i] = a.slots[i]
          /\ b.slots[Len(a.slots) + 1] = 0
      BY <1>2, <3>1, <3>2, <3>4, AppendParts
    <3>6. \A i \in DOMAIN b.slots : b.slots[i] = 0
      BY <1>1, <1>2, <3>5
    <3>7. b.next = o.next /\ b \in Answer
      BY <1>1, <3>1, <3>3 DEF Answering
    <3>8. Len(b.points) <= count /\ Len(b.points) >= r
      BY <1>1, <1>2, <1>5, <3>5
    <3> QED
      BY <3>3, <3>6, <3>7, <3>8 DEF Completing
  <2>3. ASSUME NEW p \in drawn, b = With(p, TRUE)
        PROVE  b \in Completing(o, count, seen, r)
    <3>1. p \in Attempts(blocked, a.cursor)
      BY <2>3
    <3>2. PICK k \in Drawn(Keys \ blocked) :
             p = [key |-> k, cursor |-> a.cursor, reason |-> Unexplained]
      BY <3>1 DEF Attempts
    <3>3. Keys \ blocked \in SUBSET Keys
      OBVIOUS
    <3> HIDE DEF blocked
    <3>4. Drawn(Keys \ blocked) \subseteq Keys \ blocked
      BY <3>3, OptimizersAssumption
    <3>5. Found(o, blocked, p)
      BY <1>3, <3>2, <3>4, AttemptFinds
    <3>6. p.key = k /\ k # Nothing
      BY <3>2, <3>4, NothingAssumption
    <3> QED
      BY <2>2, <2>3, <3>5, <3>6
  <2>4. ASSUME NEW p \in fallbacks, p.key # Nothing, b = With(p, separate)
        PROVE  b \in Completing(o, count, seen, r)
    <3>1. Found(o, blocked, p)
      <4> HIDE DEF blocked
      <4> QED
        BY <1>3, <2>4, FallbackFinds
    <3> QED
      BY <2>2, <2>4, <3>1
  <2>5. ASSUME NEW p \in fallbacks, p.key = Nothing, b = Ended(p)
        PROVE  b \in Completing(o, count, seen, r)
    <3>1. Found(o, blocked, p)
      <4> HIDE DEF blocked
      <4> QED
        BY <1>3, <2>5, FallbackFinds
    <3>2. b = [points |-> a.points, slots |-> a.slots, next |-> a.next,
               cursor |-> p.cursor, reason |-> p.reason, drawing |-> a.drawing]
      BY <1>1, <2>5 DEF Answer
    <3>3. Answering(o, seen, b) /\ b.reason # Unexplained
      <4>1. /\ Answering(o, seen, a) /\ Found(o, seen \union ToSet(a.points), p)
            /\ p.key = Nothing /\ a.next \in 0 .. PopulationSize - 1
        BY <1>1, <1>2, <2>5, <3>1
      <4>2. Unextended(a, p, a.next, b)
        BY <3>2 DEF Unextended
      <4> QED
        BY <4>1, <4>2, WithoutPoint
    <3> QED
      BY <1>1, <3>2, <3>3 DEF Completing, Answering
  <2> QED
    BY <2>1, <2>3, <2>4, <2>5
<1> QED
  BY <1>4, <1>5

\* The answers of a strategy that fills a batch, as far as it can.
LEMMA FillAnswers ==
    ASSUME NEW o \in Optimizer, NEW seen \in SUBSET Keys, NEW count \in Nat,
           NEW separate \in BOOLEAN, NEW begun \in Completing(o, count, seen, 0),
           NEW b \in Fill(o, count, seen, begun, separate)
    PROVE  b \in Completing(o, count, seen, count)
<1> DEFINE X == Completing(o, count, seen, 0)
           Looped(it) == it = [round \in 0 .. count |->
                IF round = 0 THEN {begun}
                ELSE UNION {OneMore(o, count, seen, separate, a) : a \in it[round - 1]}]
           it == CHOOSE it : Looped(it)
<1>1. Fill(o, count, seen, begun, separate) = it[count]
  BY Zenon DEF Fill
<1>2. \A r \in 1 .. count : Completing(o, count, seen, r) \subseteq X
                            /\ r - 1 \in 0 .. count /\ r \in 0 .. count /\ r # 0
  BY DEF Completing, Answer
<1>3. \E f : Looped(f)
  <2> DEFINE G == [p \in (1 .. count) \X X |-> OneMore(o, count, seen, separate, p[2])]
  <2>1. ASSUME NEW r \in 1 .. count, NEW a \in X
        PROVE  OneMore(o, count, seen, separate, a) \in SUBSET X
    <3>1. 1 \in 1 .. count /\ 1 - 1 = 0
      OBVIOUS
    <3>2. \A c \in OneMore(o, count, seen, separate, a) : c \in Completing(o, count, seen, 1)
      BY <3>1, OneMoreKeeps
    <3> QED
      BY <1>2, <3>1, <3>2
  <2>2. G \in [(1 .. count) \X X -> SUBSET X]
    <3> HIDE DEF X
    <3>1. \A p \in (1 .. count) \X X : p[1] \in 1 .. count /\ p[2] \in X
      OBVIOUS
    <3> QED
      BY <2>1, <3>1
  <2>3. ASSUME NEW r \in 1 .. count, NEW a \in X
        PROVE  G[<<r, a>>] = OneMore(o, count, seen, separate, a)
    <3> HIDE DEF X
    <3> QED
      OBVIOUS
  <2> HIDE DEF G
  <2>4. begun \in X
    OBVIOUS
  <2> HIDE DEF X
  <2>5. PICK f \in [0 .. count -> SUBSET X] : Spreads(f, count, begun, G)
    BY <2>2, <2>4, SpreadsExist
  <2>6. \A r \in 0 .. count :
          f[r] = IF r = 0 THEN {begun} ELSE UNION {G[<<r, a>>] : a \in f[r - 1]}
    BY <2>5, Zenon DEF Spreads
  <2>7. ASSUME NEW r \in 0 .. count
        PROVE  f[r] = IF r = 0 THEN {begun}
                      ELSE UNION {OneMore(o, count, seen, separate, a) : a \in f[r - 1]}
    <3>1. CASE r = 0
      BY <2>6, <3>1
    <3>2. CASE r # 0
      <4>1. r \in 1 .. count /\ r - 1 \in 0 .. count
        BY <3>2
      <4>2. f[r - 1] \in SUBSET X
        BY <2>5, <4>1
      <4>3. \A a \in f[r - 1] : G[<<r, a>>] = OneMore(o, count, seen, separate, a)
        BY <2>3, <4>1, <4>2
      <4>4. UNION {G[<<r, a>>] : a \in f[r - 1]}
              = UNION {OneMore(o, count, seen, separate, a) : a \in f[r - 1]}
        BY <4>3
      <4> QED
        BY <2>6, <3>2, <4>4
    <3> QED
      BY <3>1, <3>2
  <2> DEFINE old == [r \in 0 .. count |-> f[r]]
             new == [r \in 0 .. count |->
                       IF r = 0 THEN {begun}
                       ELSE UNION {OneMore(o, count, seen, separate, a) : a \in f[r - 1]}]
  <2>8. f = old
    BY <2>5
  <2>9. old = new
    BY <2>7, Zenon
  <2> QED
    BY <2>8, <2>9, Zenon
<1> HIDE DEF Looped
<1>4. Looped(it)
  BY <1>3, Zenon
<1> HIDE DEF it
<1>5. \A r \in 0 .. count :
        it[r] = IF r = 0 THEN {begun}
                ELSE UNION {OneMore(o, count, seen, separate, a) : a \in it[r - 1]}
  BY <1>4, Zenon DEF Looped
<1> DEFINE Good == {r \in 0 .. count : it[r] \subseteq Completing(o, count, seen, r)}
<1>6. 0 \in Good
  <2>1. 0 \in 0 .. count
    OBVIOUS
  <2> QED
    BY <1>5, <2>1
<1>7. ASSUME NEW r \in 1 .. count, r - 1 \in Good PROVE r \in Good
  <2>1. it[r] = UNION {OneMore(o, count, seen, separate, a) : a \in it[r - 1]}
    BY <1>2, <1>5
  <2>2. \A a \in it[r - 1] : \A c \in OneMore(o, count, seen, separate, a) :
            c \in Completing(o, count, seen, r)
    BY <1>7, OneMoreKeeps
  <2> QED
    BY <1>2, <2>1, <2>2
<1> HIDE DEF Good
<1>8. \A r \in 0 .. count : r \in Good
  BY <1>6, <1>7, RoundsKeep
<1>9. count \in Good
  BY <1>8
<1> QED
  BY <1>1, <1>9 DEF Good
-----------------------------------------------------------------------------
(* The strategies whose slots have turns.                                  *)

Slotted == {"pso", "de", "moead"}

\* What they move to is new.
LEMMA MoveIsNew ==
    ASSUME NEW o, o.strategy \in Slotted, NEW slot, NEW unseen \in SUBSET Keys
    PROVE  Move(o, slot, unseen) \subseteq unseen
<1>1. Drawn(unseen) \subseteq unseen
  BY OptimizersAssumption
<1>2. ParticleMove(o, slot, unseen) \subseteq unseen
  BY <1>1 DEF ParticleMove
<1>3. \A parents : DifferentialMove(o, parents, unseen) \subseteq unseen
  BY <1>1 DEF DifferentialMove
<1>4. NeighborhoodMove(o, slot, unseen) \subseteq unseen
  BY <1>3 DEF NeighborhoodMove
<1>5. CASE o.strategy = "pso"
  BY <1>2, <1>5 DEF Move
<1>6. CASE o.strategy = "de"
  BY <1>3, <1>6 DEF Move
<1>7. CASE o.strategy = "moead"
  BY <1>4, <1>7 DEF Move
<1> QED
  BY <1>5, <1>6, <1>7 DEF Slotted

\* The slot after one, and the one whose turn it is after so many others.
After(slot) == IF slot + 1 = PopulationSize THEN 0 ELSE slot + 1

Turn(o, s) ==
    IF o.next + s < PopulationSize THEN o.next + s ELSE o.next + s - PopulationSize

LEMMA NextSlot ==
    ASSUME NEW slot \in 0 .. PopulationSize - 1
    PROVE  /\ (slot + 1) % PopulationSize = After(slot)
           /\ After(slot) \in 0 .. PopulationSize - 1
<1>1. PopulationSize \in Nat /\ PopulationSize >= 4
  BY OptimizersAssumption
<1>2. CASE slot + 1 = PopulationSize
  <2>1. PopulationSize % PopulationSize = 0
    BY <1>1
  <2> QED
    BY <1>1, <1>2, <2>1 DEF After
<1>3. CASE slot + 1 # PopulationSize
  <2>1. slot + 1 \in 0 .. PopulationSize - 1
    BY <1>1, <1>3
  <2>2. \A n \in 0 .. PopulationSize - 1 : n % PopulationSize = n
    BY <1>1
  <2> QED
    BY <1>3, <2>1, <2>2 DEF After
<1> QED
  BY <1>2, <1>3

LEMMA TurnsDiffer ==
    ASSUME NEW o, o.next \in 0 .. PopulationSize - 1, NEW s \in 0 .. PopulationSize - 1
    PROVE  /\ Turn(o, s) \in 0 .. PopulationSize - 1
           /\ Turn(o, s + 1) = After(Turn(o, s))
           /\ \A r \in 0 .. s - 1 : Turn(o, r) # Turn(o, s)
<1> DEFINE n == o.next
<1> HIDE DEF n
<1>1. PopulationSize \in Nat /\ PopulationSize >= 4 /\ n \in 0 .. PopulationSize - 1
  BY OptimizersAssumption DEF n
<1>2. \A r : Turn(o, r) = IF n + r < PopulationSize THEN n + r ELSE n + r - PopulationSize
  BY DEF Turn, n
<1>3. Turn(o, s) \in 0 .. PopulationSize - 1
  BY <1>1, <1>2
<1>4. Turn(o, s + 1) = After(Turn(o, s))
  BY <1>1, <1>2 DEF After
<1>5. \A r \in 0 .. s - 1 : Turn(o, r) # Turn(o, s)
  BY <1>1, <1>2
<1> QED
  BY <1>3, <1>4, <1>5

\* An answer of theirs on its way.
Partial(o, limit, seen) ==
    {a \in Answer : Answering(o, seen, a) /\ Len(a.points) <= limit}

\* What one turn makes of it.
Turned(a, b, limit) ==
    \/ Len(a.points) = limit /\ b = a
    \/ /\ Len(a.points) # limit /\ b.next = After(a.next)
       /\ \/ b.points = a.points /\ b.slots = a.slots /\ b.reason # Unexplained
          \/ b.points # <<>> /\ b.slots = Append(a.slots, a.next + 1)

LEMMA VisitSlotTurns ==
    ASSUME NEW o \in Optimizer, o.strategy \in Slotted, NEW limit \in Nat,
           NEW seen \in SUBSET Keys, NEW a \in Partial(o, limit, seen),
           NEW b \in VisitSlot(o, limit, seen, a)
    PROVE  b \in Partial(o, limit, seen) /\ Turned(a, b, limit)
<1> DEFINE blocked == seen \union ToSet(a.points)
           moved == {[key |-> k, cursor |-> a.cursor, reason |-> Unexplained] :
                       k \in Move(o, a.next + 1, Keys \ blocked)}
           Passed(p) == [a EXCEPT !.next = (@ + 1) % PopulationSize,
                                  !.cursor = p.cursor, !.reason = p.reason]
           With(p) == [Passed(p) EXCEPT !.points = Append(@, p.key),
                                        !.slots = Append(@, a.next + 1)]
<1>1. a \in Answer /\ Answering(o, seen, a) /\ Len(a.points) <= limit
  BY DEF Partial
<1>2. /\ a.points \in Seq(Keys) /\ a.slots \in Seq(0 .. PopulationSize) /\ a.cursor \in Nat
      /\ a.next \in 0 .. PopulationSize - 1 /\ a.drawing \in BOOLEAN /\ Len(a.points) \in Nat
  BY <1>1 DEF Answer
<1>3. blocked \in SUBSET Keys /\ Walked(o, blocked, a.cursor)
  BY <1>1, <1>2 DEF Answering, ToSet
<1>4. /\ (a.next + 1) % PopulationSize = After(a.next)
      /\ After(a.next) \in 0 .. PopulationSize - 1
      /\ a.next + 1 \in 0 .. PopulationSize
  <2>1. PopulationSize \in Nat
    BY OptimizersAssumption
  <2> QED
    BY <1>2, <2>1, NextSlot
<1>5. CASE Len(a.points) = limit
  <2>1. b = a
    BY <1>5, Zenon DEF VisitSlot
  <2> QED
    BY <1>5, <2>1 DEF Turned
<1>6. CASE Len(a.points) # limit
  <2>1. b \in {IF p.key = Nothing THEN Passed(p) ELSE With(p) :
                p \in moved \union Fallback(o, blocked, a.cursor)}
    BY <1>6, Zenon DEF VisitSlot
  <2>2. PICK p \in moved \union Fallback(o, blocked, a.cursor) :
           b = IF p.key = Nothing THEN Passed(p) ELSE With(p)
    <3> HIDE DEF moved, Passed, With, blocked
    <3> QED
      BY <2>1, Zenon
  <2>3. Found(o, blocked, p)
    <3>1. CASE p \in moved
      <4>1. Keys \ blocked \in SUBSET Keys
        OBVIOUS
      <4> DEFINE unseen == Move(o, a.next + 1, Keys \ blocked)
      <4>2. unseen \subseteq Keys \ blocked
        BY <4>1, MoveIsNew
      <4>3. PICK k \in unseen : p = [key |-> k, cursor |-> a.cursor, reason |-> Unexplained]
        BY <3>1
      <4> HIDE DEF blocked, unseen
      <4> QED
        BY <1>3, <4>2, <4>3, AttemptFinds
    <3>2. CASE p \in Fallback(o, blocked, a.cursor)
      <4> HIDE DEF blocked
      <4> QED
        BY <1>3, <3>2, FallbackFinds
    <3> QED
      BY <2>2, <3>1, <3>2
  <2>4. CASE p.key = Nothing
    <3>1. b = Passed(p)
      BY <2>2, <2>4
    <3>2. Unextended(a, p, After(a.next), b)
      BY <1>1, <1>4, <3>1 DEF Unextended, Answer
    <3>3. Answering(o, seen, b) /\ b.reason # Unexplained
      BY <1>1, <1>4, <2>3, <2>4, <3>2, WithoutPoint
    <3>4. b.points = a.points /\ b.slots = a.slots /\ b.next = After(a.next)
      BY <3>2 DEF Unextended
    <3>5. Turned(a, b, limit)
      BY <1>6, <3>3, <3>4 DEF Turned
    <3>6. b \in Partial(o, limit, seen)
      BY <1>1, <3>3, <3>4 DEF Partial, Answering
    <3> QED
      BY <3>5, <3>6
  <2>5. CASE p.key # Nothing
    <3>1. b = With(p)
      BY <2>2, <2>5
    <3>2. p.reason = Unexplained /\ p.key \in Keys
      BY <2>3, <2>5 DEF Found
    <3>3. Longer(a, p, a.next + 1, After(a.next), a.drawing, b)
      BY <1>1, <1>4, <3>1, <3>2 DEF Longer, Answer
    <3>4. Answering(o, seen, b)
      BY <1>1, <1>2, <1>4, <2>3, <2>5, <3>3, WithPoint
    <3>5. b.points = Append(a.points, p.key) /\ b.slots = Append(a.slots, a.next + 1)
          /\ b.next = After(a.next)
      BY <3>3 DEF Longer
    <3>6. b.points # <<>> /\ Len(b.points) = Len(a.points) + 1
      <4>1. /\ Append(a.points, p.key) # <<>>
            /\ Len(Append(a.points, p.key)) = Len(a.points) + 1
        BY <1>2, <3>2, AppendParts
      <4> QED
        BY <3>5, <4>1
    <3>7. Turned(a, b, limit)
      BY <1>6, <3>5, <3>6 DEF Turned
    <3>8. Len(b.points) <= limit
      BY <1>1, <1>2, <1>6, <3>6
    <3>9. b \in Partial(o, limit, seen)
      BY <3>4, <3>8 DEF Partial, Answering
    <3> QED
      BY <3>7, <3>9
  <2> QED
    BY <2>4, <2>5
<1> QED
  BY <1>5, <1>6

(***************************************************************************)
(* After r turns: every slot that has a point had one of them, and when    *)
(* nothing was found there is a reason.                                    *)
(***************************************************************************)
Visiting(o, limit, seen, r) ==
    {a \in Partial(o, limit, seen) :
        /\ Len(a.points) = limit \/ a.next = Turn(o, r)
        /\ \A i \in DOMAIN a.slots : \E s \in 0 .. r - 1 : a.slots[i] = Turn(o, s) + 1
        /\ \A i, j \in DOMAIN a.slots : a.slots[i] = a.slots[j] => i = j
        /\ r > 0 /\ a.points = <<>> => a.reason # Unexplained}

LEMMA VisitSlotKeeps ==
    ASSUME NEW o \in Optimizer, o.strategy \in Slotted, NEW limit \in Nat \ {0},
           NEW seen \in SUBSET Keys, NEW r \in 1 .. PopulationSize,
           NEW a \in Visiting(o, limit, seen, r - 1),
           NEW b \in VisitSlot(o, limit, seen, a)
    PROVE  b \in Visiting(o, limit, seen, r)
<1>1. /\ a \in Partial(o, limit, seen)
      /\ Len(a.points) = limit \/ a.next = Turn(o, r - 1)
      /\ \A i \in DOMAIN a.slots : \E s \in 0 .. (r - 1) - 1 : a.slots[i] = Turn(o, s) + 1
      /\ \A i, j \in DOMAIN a.slots : a.slots[i] = a.slots[j] => i = j
      /\ r - 1 > 0 /\ a.points = <<>> => a.reason # Unexplained
  BY DEF Visiting
<1>2. b \in Partial(o, limit, seen) /\ Turned(a, b, limit)
  BY <1>1, VisitSlotTurns
<1>3. PopulationSize \in Nat /\ r - 1 \in 0 .. PopulationSize - 1 /\ (r - 1) + 1 = r
      /\ 0 .. (r - 1) - 1 \subseteq 0 .. r - 1 /\ r - 1 \in 0 .. r - 1 /\ r \in Nat
  BY OptimizersAssumption
<1>4. /\ o.next \in 0 .. PopulationSize - 1
      /\ a.slots \in Seq(0 .. PopulationSize) /\ a.next \in 0 .. PopulationSize - 1
  BY <1>1 DEF Optimizer, Partial, Answer
<1>5. /\ Turn(o, r - 1) \in 0 .. PopulationSize - 1
      /\ Turn(o, r) = After(Turn(o, r - 1))
      /\ \A s \in 0 .. (r - 1) - 1 : Turn(o, s) # Turn(o, r - 1)
  BY <1>3, <1>4, TurnsDiffer
<1>6. \A s \in 0 .. (r - 1) - 1 : Turn(o, s) \in 0 .. PopulationSize - 1
  <2>1. \A s \in 0 .. (r - 1) - 1 : s \in 0 .. PopulationSize - 1
    BY <1>3
  <2> QED
    BY <1>4, <2>1, TurnsDiffer
<1>7. CASE Len(a.points) = limit /\ b = a
  <2>1. b.points # <<>>
    BY <1>7
  <2>2. \A i \in DOMAIN b.slots : \E s \in 0 .. r - 1 : b.slots[i] = Turn(o, s) + 1
    BY <1>1, <1>3, <1>7
  <2> QED
    BY <1>1, <1>2, <1>7, <2>1, <2>2 DEF Visiting
<1>8. CASE Len(a.points) # limit /\ b.next = After(a.next)
  <2>1. a.next = Turn(o, r - 1) /\ b.next = Turn(o, r)
    BY <1>1, <1>5, <1>8
  <2>2. CASE b.points = a.points /\ b.slots = a.slots /\ b.reason # Unexplained
    <3>1. \A i \in DOMAIN b.slots : \E s \in 0 .. r - 1 : b.slots[i] = Turn(o, s) + 1
      BY <1>1, <1>3, <2>2
    <3> QED
      BY <1>1, <1>2, <2>1, <2>2, <3>1 DEF Visiting
  <2>3. CASE b.points # <<>> /\ b.slots = Append(a.slots, a.next + 1)
    <3> DEFINE n == Len(a.slots)
               new == a.next + 1
    <3>1. new \in 0 .. PopulationSize /\ new = Turn(o, r - 1) + 1
      BY <1>3, <1>4, <2>1
    <3>2. /\ DOMAIN a.slots = 1 .. n /\ n \in Nat /\ DOMAIN b.slots = 1 .. n + 1
          /\ \A i \in 1 .. n : b.slots[i] = a.slots[i]
          /\ b.slots[n + 1] = new
      BY <1>4, <2>3, <3>1, AppendParts
    <3>3. \A i \in 1 .. n : a.slots[i] # new
      <4> SUFFICES ASSUME NEW i \in 1 .. n, a.slots[i] = new PROVE FALSE
        OBVIOUS
      <4>1. PICK s \in 0 .. (r - 1) - 1 : a.slots[i] = Turn(o, s) + 1
        BY <1>1, <3>2
      <4>2. Turn(o, s) # Turn(o, r - 1) /\ Turn(o, s) \in 0 .. PopulationSize - 1
        BY <1>5, <1>6
      <4>3. Turn(o, s) + 1 = Turn(o, r - 1) + 1
        BY <3>1, <4>1
      <4> QED
        BY <1>5, <4>2, <4>3
    <3> HIDE DEF n, new
    <3>4. ASSUME NEW i \in DOMAIN b.slots
          PROVE  \E s \in 0 .. r - 1 : b.slots[i] = Turn(o, s) + 1
      <4>1. CASE i \in 1 .. n
        BY <1>1, <1>3, <3>2, <4>1, ZenonT(60)
      <4>2. CASE i = n + 1
        BY <1>3, <3>1, <3>2, <4>2
      <4> QED
        BY <3>2, <4>1, <4>2
    <3>5. ASSUME NEW i \in DOMAIN b.slots, NEW j \in DOMAIN b.slots, b.slots[i] = b.slots[j]
          PROVE  i = j
      <4>1. CASE i \in 1 .. n /\ j \in 1 .. n
        BY <1>1, <3>2, <3>5, <4>1
      <4>2. CASE i = n + 1 /\ j \in 1 .. n
        BY <3>2, <3>3, <3>5, <4>2
      <4>3. CASE i \in 1 .. n /\ j = n + 1
        BY <3>2, <3>3, <3>5, <4>3
      <4> QED
        BY <3>2, <4>1, <4>2, <4>3
    <3> QED
      BY <1>2, <2>1, <2>3, <3>4, <3>5 DEF Visiting
  <2> QED
    BY <1>2, <1>8, <2>2, <2>3 DEF Turned
<1> QED
  BY <1>2, <1>7, <1>8 DEF Turned


LEMMA VisitAnswers ==
    ASSUME NEW o \in Optimizer, o.strategy \in Slotted, NEW limit \in Nat \ {0},
           NEW seen \in SUBSET Keys, Answering(o, seen, NoPoints(o)),
           NEW b \in Visit(o, limit, seen)
    PROVE  b \in Visiting(o, limit, seen, PopulationSize)
<1> DEFINE N == PopulationSize
           start == NoPoints(o)
           X == Partial(o, limit, seen)
           Looped(it) == it = [attempted \in 0 .. N |->
                IF attempted = 0 THEN {start}
                ELSE UNION {VisitSlot(o, limit, seen, a) : a \in it[attempted - 1]}]
           it == CHOOSE it : Looped(it)
<1>1. Visit(o, limit, seen) = it[N]
  BY Zenon DEF Visit
<1>2. N \in Nat /\ \A r \in 1 .. N : r - 1 \in 0 .. N /\ r \in 0 .. N /\ r # 0
  BY OptimizersAssumption
<1>3. start.points = <<>> /\ start.slots = <<>> /\ start.next = o.next
  BY DEF NoPoints
<1>4. start \in Visiting(o, limit, seen, 0) /\ start \in X
  <2>1. Len(start.points) = 0 /\ DOMAIN start.slots = {} /\ start \in Answer
    BY <1>3 DEF Answering
  <2>2. start \in X
    BY <2>1 DEF Partial
  <2>3. o.next \in 0 .. N - 1
    BY DEF Optimizer
  <2>4. Turn(o, 0) = o.next
    BY <1>2, <2>3 DEF Turn
  <2> HIDE DEF X, start
  <2> QED
    BY <1>3, <2>1, <2>2, <2>4 DEF Visiting, X
<1> HIDE DEF start, N
<1>5. \E f : Looped(f)
  <2> DEFINE G == [p \in (1 .. N) \X X |-> VisitSlot(o, limit, seen, p[2])]
  <2>1. ASSUME NEW a \in X PROVE VisitSlot(o, limit, seen, a) \in SUBSET X
    BY VisitSlotTurns
  <2> HIDE DEF X
  <2>2. G \in [(1 .. N) \X X -> SUBSET X]
    <3>1. \A p \in (1 .. N) \X X : p[2] \in X
      OBVIOUS
    <3> QED
      BY <2>1, <3>1
  <2>3. \A r \in 1 .. N, a \in X : G[<<r, a>>] = VisitSlot(o, limit, seen, a)
    OBVIOUS
  <2> HIDE DEF G
  <2>4. PICK f \in [0 .. N -> SUBSET X] : Spreads(f, N, start, G)
    BY <1>2, <1>4, <2>2, SpreadsExist
  <2>5. \A r \in 0 .. N :
          f[r] = IF r = 0 THEN {start} ELSE UNION {G[<<r, a>>] : a \in f[r - 1]}
    BY <2>4, Zenon DEF Spreads
  <2>6. ASSUME NEW r \in 0 .. N
        PROVE  f[r] = IF r = 0 THEN {start}
                      ELSE UNION {VisitSlot(o, limit, seen, a) : a \in f[r - 1]}
    <3>1. CASE r = 0
      BY <2>5, <3>1
    <3>2. CASE r # 0
      <4>1. r \in 1 .. N /\ r - 1 \in 0 .. N
        BY <1>2, <3>2
      <4>2. f[r - 1] \in SUBSET X
        BY <2>4, <4>1
      <4>3. \A a \in f[r - 1] : G[<<r, a>>] = VisitSlot(o, limit, seen, a)
        BY <2>3, <4>1, <4>2
      <4>4. UNION {G[<<r, a>>] : a \in f[r - 1]}
              = UNION {VisitSlot(o, limit, seen, a) : a \in f[r - 1]}
        BY <4>3
      <4> QED
        BY <2>5, <3>2, <4>4
    <3> QED
      BY <3>1, <3>2
  <2> DEFINE old == [r \in 0 .. N |-> f[r]]
             new == [r \in 0 .. N |->
                       IF r = 0 THEN {start}
                       ELSE UNION {VisitSlot(o, limit, seen, a) : a \in f[r - 1]}]
  <2>7. f = old
    BY <2>4
  <2>8. old = new
    BY <2>6, Zenon
  <2> QED
    BY <2>7, <2>8, Zenon
<1> HIDE DEF Looped
<1>6. Looped(it)
  BY <1>5, Zenon
<1> HIDE DEF it
<1>7. \A r \in 0 .. N :
        it[r] = IF r = 0 THEN {start}
                ELSE UNION {VisitSlot(o, limit, seen, a) : a \in it[r - 1]}
  BY <1>6, Zenon DEF Looped
<1> DEFINE Good == {r \in 0 .. N : it[r] \subseteq Visiting(o, limit, seen, r)}
<1>8. 0 \in Good
  <2>1. 0 \in 0 .. N
    BY <1>2
  <2> QED
    BY <1>4, <1>7, <2>1
<1>9. ASSUME NEW r \in 1 .. N, r - 1 \in Good PROVE r \in Good
  <2>1. it[r] = UNION {VisitSlot(o, limit, seen, a) : a \in it[r - 1]}
    BY <1>2, <1>7
  <2>2. \A a \in it[r - 1] : \A c \in VisitSlot(o, limit, seen, a) :
            c \in Visiting(o, limit, seen, r)
    BY <1>9, VisitSlotKeeps DEF N
  <2> QED
    BY <1>2, <2>1, <2>2
<1> HIDE DEF Good
<1>10. \A r \in 0 .. N : r \in Good
  BY <1>2, <1>8, <1>9, RoundsKeep
<1>11. N \in Good
  BY <1>2, <1>10
<1> QED
  BY <1>1, <1>11 DEF Good, N
-----------------------------------------------------------------------------
(* What a strategy of the catalog answers.                                 *)

\* What an optimizer may be asked in, with the keys that are known.
Fits(o, known) ==
    o \in Optimizer /\ Walked(o, known, o.cursor) /\ Len(o.offspring) < PopulationSize

\* The slots of a batch: those of the population, or none in particular.
Planned(o, slots) ==
    IF o.strategy \in Slotted /\ Missing(o) <= 0
    THEN \A i \in DOMAIN slots : slots[i] # 0
    ELSE /\ \A i \in DOMAIN slots : slots[i] = 0
         /\ o.strategy \in Slotted => Len(slots) <= Missing(o)

DistinctSlots(slots) ==
    \A i, j \in DOMAIN slots : slots[i] = slots[j] /\ slots[i] # 0 => i = j

Given(o, count, seen, a) ==
    /\ Answering(o, seen, a) /\ Len(a.points) <= count
    /\ a.points = <<>> => a.reason # Unexplained
    /\ DistinctSlots(a.slots) /\ Planned(o, a.slots)

LEMMA NoPointsAnswer ==
    ASSUME NEW o, NEW seen \in SUBSET Keys, Fits(o, seen), NEW count \in Nat
    PROVE  /\ Answering(o, seen, NoPoints(o))
           /\ NoPoints(o) \in Completing(o, count, seen, 0)
           /\ [NoPoints(o) EXCEPT !.drawing = FALSE] \in Completing(o, count, seen, 0)
<1> DEFINE a == NoPoints(o)
           b == [NoPoints(o) EXCEPT !.drawing = FALSE]
<1>1. o.next \in 0 .. PopulationSize - 1 /\ o.cursor \in Nat /\ Walked(o, seen, o.cursor)
  BY DEF Fits, Optimizer
<1>2. ASSUME NEW c \in {a, b}
      PROVE  /\ c.points = <<>> /\ c.slots = <<>> /\ c.next = o.next /\ c.cursor = o.cursor
             /\ c.reason = Unexplained /\ c \in Answer
  <2>1. <<>> \in Seq(Keys) /\ <<>> \in Seq(0 .. PopulationSize) /\ Unexplained \in Reasons
    BY DEF Reasons
  <2>2. ASSUME NEW drawing \in BOOLEAN,
               c = [points |-> <<>>, slots |-> <<>>, next |-> o.next, cursor |-> o.cursor,
                    reason |-> Unexplained, drawing |-> drawing]
        PROVE  /\ c.points = <<>> /\ c.slots = <<>> /\ c.next = o.next /\ c.cursor = o.cursor
               /\ c.reason = Unexplained /\ c \in Answer
    BY <1>1, <2>1, <2>2 DEF Answer
  <2>3. /\ a = [points |-> <<>>, slots |-> <<>>, next |-> o.next, cursor |-> o.cursor,
                reason |-> Unexplained, drawing |-> TRUE]
        /\ b = [points |-> <<>>, slots |-> <<>>, next |-> o.next, cursor |-> o.cursor,
                reason |-> Unexplained, drawing |-> FALSE]
    <3> DEFINE n == NoPoints(o)
    <3>1. n = [points |-> <<>>, slots |-> <<>>, next |-> o.next, cursor |-> o.cursor,
               reason |-> Unexplained, drawing |-> TRUE]
      BY DEF NoPoints
    <3>2. n \in Answer /\ n.points = <<>> /\ n.slots = <<>> /\ n.next = o.next
          /\ n.cursor = o.cursor /\ n.reason = Unexplained
      BY <1>1, <2>1, <3>1 DEF Answer
    <3>3. a = n /\ b = [n EXCEPT !.drawing = FALSE]
      OBVIOUS
    <3> HIDE DEF n, a, b
    <3> QED
      BY <3>1, <3>2, <3>3 DEF Answer
  <2> HIDE DEF a, b
  <2> QED
    BY <2>2, <2>3
<1> HIDE DEF a, b
<1>3. ASSUME NEW c \in {a, b}
      PROVE  Answering(o, seen, c) /\ c \in Completing(o, count, seen, 0)
  <2>1. /\ c.points = <<>> /\ c.slots = <<>> /\ c.next = o.next /\ c.cursor = o.cursor
        /\ c.reason = Unexplained /\ c \in Answer
    BY <1>2
  <2>2. DOMAIN c.points = {} /\ DOMAIN c.slots = {} /\ Len(c.points) = 0 /\ Len(c.slots) = 0
    BY <2>1
  <2>3. ToSet(c.points) = {}
    BY <2>2 DEF ToSet
  <2>4. ReasonHolds(o, c)
    BY <2>1 DEF ReasonHolds, Unexplained
  <2>5. Walked(o, seen \union ToSet(c.points), c.cursor)
    BY <1>1, <2>1, <2>3
  <2>6. Answering(o, seen, c)
    BY <2>1, <2>2, <2>4, <2>5 DEF Answering
  <2> QED
    BY <2>1, <2>2, <2>6 DEF Completing
<1> QED
  BY <1>3 DEF a, b

LEMMA FromDefaultAnswer ==
    ASSUME NEW o, NEW seen \in SUBSET Keys, Fits(o, seen), NEW count \in Nat \ {0}
    PROVE  FromDefault(o, seen) \in Completing(o, count, seen, 0)
<1> DEFINE a == NoPoints(o)
           b == [NoPoints(o) EXCEPT !.points = <<Default>>, !.slots = <<0>>]
<1>1. o.next \in 0 .. PopulationSize - 1 /\ o.cursor \in Nat /\ Walked(o, seen, o.cursor)
  BY DEF Fits, Optimizer
<1>2. a \in Completing(o, count, seen, 0)
  BY NoPointsAnswer
<1>3. CASE FromDefault(o, seen) = a
  BY <1>2, <1>3
<1>4. CASE FromDefault(o, seen) = b /\ Default \notin seen
  <2>1. Default \in Keys /\ 0 \in 0 .. PopulationSize
    BY OptimizersAssumption
  <2>2. /\ b.points = <<Default>> /\ b.slots = <<0>> /\ b.next = o.next
        /\ b.cursor = o.cursor /\ b.reason = Unexplained /\ b \in Answer
    <3>1. <<Default>> \in Seq(Keys) /\ <<0>> \in Seq(0 .. PopulationSize) /\ Unexplained \in Reasons
      BY <2>1 DEF Reasons
    <3>2. b = [points |-> <<Default>>, slots |-> <<0>>, next |-> o.next, cursor |-> o.cursor,
               reason |-> Unexplained, drawing |-> TRUE]
      <4>1. a \in Answer
        BY <1>2 DEF Completing
      <4>2. /\ a.next = o.next /\ a.cursor = o.cursor /\ a.reason = Unexplained
            /\ a.drawing = TRUE
        BY DEF NoPoints
      <4> HIDE DEF a
      <4>3. b = [a EXCEPT !.points = <<Default>>, !.slots = <<0>>]
        BY DEF a
      <4> HIDE DEF b
      <4> QED
        BY <4>1, <4>2, <4>3 DEF Answer
    <3> HIDE DEF b
    <3> QED
      BY <1>1, <3>1, <3>2 DEF Answer
  <2> HIDE DEF b
  <2>3. /\ DOMAIN b.points = {1} /\ DOMAIN b.slots = {1} /\ b.points[1] = Default
        /\ b.slots[1] = 0 /\ Len(b.points) = 1 /\ Len(b.slots) = 1
    BY <2>2
  <2>4. ToSet(b.points) = {Default}
    BY <2>3 DEF ToSet
  <2>5. ReasonHolds(o, b)
    BY <2>2 DEF ReasonHolds, Unexplained
  <2>6. Walked(o, seen \union ToSet(b.points), b.cursor)
    BY <1>1, <2>2 DEF Walked
  <2>7. Answering(o, seen, b)
    BY <1>4, <2>2, <2>3, <2>5, <2>6 DEF Answering
  <2>8. b \in Completing(o, count, seen, 0)
    <3>1. Len(b.points) <= count /\ Len(b.points) >= 0
      BY <2>3
    <3> QED
      BY <2>2, <2>3, <2>7, <3>1 DEF Completing
  <2> QED
    BY <1>4, <2>8
<1> QED
  BY <1>3, <1>4 DEF FromDefault

\* An answer of the loop that fills a batch of n is one to a larger request.
LEMMA CompletingGives ==
    ASSUME NEW o \in Optimizer, NEW seen, NEW count \in Nat, NEW n \in 1 .. count,
           NEW a \in Completing(o, n, seen, n),
           o.strategy \in Slotted => Missing(o) > 0 /\ n <= Missing(o)
    PROVE  Given(o, count, seen, a)
<1>1. /\ Answering(o, seen, a) /\ \A i \in DOMAIN a.slots : a.slots[i] = 0
      /\ Len(a.points) <= n /\ (a.reason = Unexplained => Len(a.points) >= n)
      /\ a \in Answer /\ Len(a.points) = Len(a.slots)
  BY DEF Completing, Answering
<1>2. Len(a.points) \in Nat /\ (a.points = <<>> => Len(a.points) = 0)
  BY <1>1 DEF Answer
<1>3. Len(a.points) <= count /\ (a.points = <<>> => a.reason # Unexplained)
  BY <1>1, <1>2
<1>4. Missing(o) \in Int
  BY OptimizersAssumption DEF Missing, Optimizer, Memory
<1>5. Planned(o, a.slots)
  BY <1>1, <1>2, <1>4 DEF Planned
<1>6. DistinctSlots(a.slots)
  BY <1>1 DEF DistinctSlots
<1> QED
  BY <1>1, <1>3, <1>5, <1>6 DEF Given

LEMMA InitialAnswers ==
    ASSUME NEW o, NEW seen \in SUBSET Keys, Fits(o, seen), NEW count \in Nat \ {0},
           Missing(o) > 0, NEW a \in InitialPoints(o, count, seen)
    PROVE  Given(o, count, seen, a)
<1> DEFINE n == Min({count, Missing(o)})
<1>1. o \in Optimizer /\ Missing(o) \in Int
  BY OptimizersAssumption DEF Missing, Fits, Optimizer, Memory
<1>2. n \in 1 .. count /\ n <= Missing(o) /\ n \in Nat \ {0}
  <2>1. n = IF count <= Missing(o) THEN count ELSE Missing(o)
    BY <1>1, MinOfTwo
  <2> HIDE DEF n
  <2> QED
    BY <1>1, <2>1
<1>3. a \in Fill(o, n, seen, FromDefault(o, seen), FALSE)
  BY DEF InitialPoints
<1> HIDE DEF n
<1>4. FromDefault(o, seen) \in Completing(o, n, seen, 0)
  BY <1>2, FromDefaultAnswer
<1>5. a \in Completing(o, n, seen, n)
  BY <1>1, <1>2, <1>3, <1>4, FillAnswers
<1> QED
  BY <1>1, <1>2, <1>5, CompletingGives

\* The strategies without slots fill a batch of n from what they have begun.
LEMMA FilledAnswers ==
    ASSUME NEW o, NEW seen \in SUBSET Keys, Fits(o, seen), NEW count \in Nat \ {0},
           o.strategy \notin Slotted, NEW n \in 1 .. count, NEW separate \in BOOLEAN,
           NEW begun \in {NoPoints(o), [NoPoints(o) EXCEPT !.drawing = FALSE],
                          FromDefault(o, seen)},
           NEW a \in Fill(o, n, seen, begun, separate)
    PROVE  Given(o, count, seen, a)
<1>1. o \in Optimizer /\ n \in Nat \ {0}
  BY DEF Fits
<1>2. begun \in Completing(o, n, seen, 0)
  <2>1. /\ NoPoints(o) \in Completing(o, n, seen, 0)
        /\ [NoPoints(o) EXCEPT !.drawing = FALSE] \in Completing(o, n, seen, 0)
    BY <1>1, NoPointsAnswer
  <2>2. FromDefault(o, seen) \in Completing(o, n, seen, 0)
    BY <1>1, FromDefaultAnswer
  <2> QED
    BY <2>1, <2>2, Zenon
<1>3. a \in Completing(o, n, seen, n)
  BY <1>1, <1>2, FillAnswers
<1> QED
  BY <1>1, <1>3, CompletingGives

LEMMA SlotsAnswers ==
    ASSUME NEW o, NEW seen \in SUBSET Keys, Fits(o, seen), NEW count \in Nat \ {0},
           o.strategy \in Slotted, NEW a \in SlotsAsk(o, count, seen)
    PROVE  Given(o, count, seen, a)
<1>1. o \in Optimizer /\ Missing(o) \in Int
  BY OptimizersAssumption, SMTT(30) DEF Missing, Fits, Optimizer, Memory
<1>2. CASE Missing(o) > 0
  BY <1>2, InitialAnswers DEF SlotsAsk
<1>3. CASE ~(Missing(o) > 0)
  <2> DEFINE n == Min({count, PopulationSize})
  <2>1. PopulationSize \in Nat /\ PopulationSize >= 4
    BY OptimizersAssumption
  <2>2. n \in Nat \ {0} /\ n <= count
    <3>1. n = IF count <= PopulationSize THEN count ELSE PopulationSize
      BY <2>1, MinOfTwo
    <3> HIDE DEF n
    <3> QED
      BY <2>1, <3>1
  <2>3. a \in Visit(o, n, seen)
    BY <1>3 DEF SlotsAsk
  <2> HIDE DEF n
  <2>4. Answering(o, seen, NoPoints(o))
    BY NoPointsAnswer
  <2>5. a \in Visiting(o, n, seen, PopulationSize)
    BY <1>1, <2>2, <2>3, <2>4, VisitAnswers
  <2>6. /\ Answering(o, seen, a) /\ Len(a.points) <= n /\ a \in Answer
        /\ \A i \in DOMAIN a.slots : \E s \in 0 .. PopulationSize - 1 :
              a.slots[i] = Turn(o, s) + 1
        /\ \A i, j \in DOMAIN a.slots : a.slots[i] = a.slots[j] => i = j
        /\ a.points = <<>> => a.reason # Unexplained
    BY <2>1, <2>5 DEF Visiting, Partial
  <2>7. Len(a.points) <= count
    <3>1. Len(a.points) \in Nat
      BY <2>6 DEF Answer
    <3> QED
      BY <2>2, <2>6, <3>1
  <2>8. \A s \in 0 .. PopulationSize - 1 : Turn(o, s) + 1 # 0
    <3>1. o.next \in 0 .. PopulationSize - 1
      BY <1>1 DEF Optimizer
    <3>2. \A s \in 0 .. PopulationSize - 1 : Turn(o, s) \in 0 .. PopulationSize - 1
      BY <3>1, TurnsDiffer
    <3> QED
      BY <2>1, <3>2
  <2>9. Planned(o, a.slots)
    BY <1>1, <1>3, <2>6, <2>8 DEF Planned
  <2>10. DistinctSlots(a.slots)
    BY <2>6 DEF DistinctSlots
  <2> QED
    BY <2>6, <2>7, <2>9, <2>10 DEF Given
<1> QED
  BY <1>2, <1>3


LEMMA CatalogAnswers ==
    ASSUME NEW o, NEW seen \in SUBSET Keys, Fits(o, seen), NEW count \in Nat \ {0},
           NEW a \in Answers(o, count, seen)
    PROVE  Given(o, count, seen, a)
<1>1. o \in Optimizer /\ o.strategy \in AllStrategies /\ Missing(o) \in Int
  BY OptimizersAssumption, SMTT(30) DEF Missing, Fits, Optimizer, Memory
<1>2. count \in 1 .. count /\ 1 \in 1 .. count
  OBVIOUS
<1>3. CASE o.strategy = "weave"
  <2>1. a \in Fill(o, count, seen, FromDefault(o, seen), FALSE)
    BY <1>3 DEF Answers, WeaveAsk
  <2> QED
    BY <1>2, <1>3, <2>1, FilledAnswers DEF Slotted
<1>4. CASE o.strategy = "random"
  <2>1. a \in Fill(o, count, seen, NoPoints(o), FALSE)
    BY <1>4 DEF Answers, RandomAsk
  <2> QED
    BY <1>2, <1>4, <2>1, FilledAnswers DEF Slotted
<1>5. CASE o.strategy = "sa"
  <2>1. a \in Fill(o, 1, seen, FromDefault(o, seen), FALSE)
    BY <1>5 DEF Answers, AnnealingAsk
  <2> QED
    BY <1>2, <1>5, <2>1, FilledAnswers DEF Slotted
<1>6. CASE o.strategy = "bayes"
  <2>1. a \in BayesAsk(o, count, seen)
    BY <1>6 DEF Answers
  <2>2. o.strategy \notin Slotted
    BY <1>6 DEF Slotted
  <2>3. CASE o.observed = 0
    <3>1. a \in Fill(o, 1, seen, FromDefault(o, seen), FALSE)
      BY <2>1, <2>3 DEF BayesAsk
    <3> QED
      BY <1>2, <2>2, <3>1, FilledAnswers
  <2>4. CASE o.observed # 0
           /\ a \in Fill(o, 1, seen, [NoPoints(o) EXCEPT !.drawing = FALSE], FALSE)
    BY <1>2, <2>2, <2>4, FilledAnswers
  <2>5. CASE o.observed # 0 /\ a \in {[NoPoints(o) EXCEPT !.points = <<k>>, !.slots = <<0>>] :
                                         k \in CandidatePool(seen)}
    <3>1. PICK k \in CandidatePool(seen) :
             a = [NoPoints(o) EXCEPT !.points = <<k>>, !.slots = <<0>>]
      BY <2>5
    <3>2. Keys \ seen \in SUBSET Keys
      OBVIOUS
    <3>3. k \in Keys \ seen
      BY <3>2, OptimizersAssumption DEF CandidatePool
    <3>4. 0 \in 0 .. PopulationSize
      BY OptimizersAssumption
    <3>5. /\ NoPoints(o) \in Answer /\ Answering(o, seen, NoPoints(o))
      BY NoPointsAnswer DEF Answering
    <3>6. /\ NoPoints(o).next = o.next /\ NoPoints(o).cursor = o.cursor
          /\ NoPoints(o).reason = Unexplained /\ NoPoints(o).points = <<>>
      BY DEF NoPoints
    <3>7. <<k>> \in Seq(Keys) /\ <<0>> \in Seq(0 .. PopulationSize)
      BY <3>3, <3>4
    <3>8. /\ a.points = <<k>> /\ a.slots = <<0>> /\ a.cursor = o.cursor
          /\ a.reason = Unexplained /\ a \in Answer
      BY <3>1, <3>5, <3>6, <3>7 DEF Answer
    <3>9. /\ DOMAIN a.points = {1} /\ DOMAIN a.slots = {1} /\ a.points[1] = k
          /\ a.slots[1] = 0 /\ Len(a.points) = 1 /\ Len(a.slots) = 1 /\ a.points # <<>>
      BY <3>8
    <3>10. Walked(o, seen, o.cursor)
      BY DEF Fits
    <3>11. Walked(o, seen \union ToSet(a.points), a.cursor)
      BY <3>8, <3>10 DEF Walked
    <3>12. ReasonHolds(o, a)
      BY <3>8 DEF ReasonHolds, Unexplained
    <3>13. Answering(o, seen, a)
      BY <3>3, <3>8, <3>9, <3>11, <3>12 DEF Answering
    <3>14. Planned(o, a.slots) /\ DistinctSlots(a.slots)
      BY <2>2, <3>9 DEF Planned, DistinctSlots
    <3>15. Len(a.points) <= count
      BY <3>9
    <3> QED
      BY <3>9, <3>13, <3>14, <3>15 DEF Given
  <2> QED
    BY <2>1, <2>3, <2>4, <2>5 DEF BayesAsk
<1>7. CASE o.strategy = "nsga2"
  <2>1. a \in NSGA2Ask(o, count, seen)
    BY <1>7 DEF Answers
  <2>2. CASE Missing(o) > 0
    BY <2>1, <2>2, InitialAnswers DEF NSGA2Ask
  <2>3. CASE ~(Missing(o) > 0)
    <3> DEFINE room == PopulationSize - Len(o.offspring)
               n == Min({count, room})
    <3>1. a \in Fill(o, n, seen, NoPoints(o), TRUE)
      BY <2>1, <2>3 DEF NSGA2Ask, NSGA2Offspring
    <3>2. Len(o.offspring) \in Nat /\ Len(o.offspring) < PopulationSize
          /\ PopulationSize \in Nat
      BY OptimizersAssumption DEF Fits, Optimizer, Memory
    <3>3. room \in Nat \ {0}
      BY <3>2
    <3>4. n = IF count <= room THEN count ELSE room
      BY <3>3, MinOfTwo
    <3> HIDE DEF n, room
    <3>5. n \in 1 .. count
      BY <3>3, <3>4
    <3>6. o.strategy \notin Slotted
      BY <1>7 DEF Slotted
    <3> QED
      BY <3>1, <3>5, <3>6, FilledAnswers
  <2> QED
    BY <2>2, <2>3
<1>8. CASE o.strategy \in Slotted
  <2>1. a \in SlotsAsk(o, count, seen)
    BY <1>8 DEF Answers, Slotted
  <2> QED
    BY <1>8, <2>1, SlotsAnswers
<1> QED
  BY <1>1, <1>3, <1>4, <1>5, <1>6, <1>7, <1>8 DEF AllStrategies, Slotted

\* Two optimizers that remember the same.
Remembers(o, next) ==
    /\ next.strategy = o.strategy /\ next.walk = o.walk /\ next.population = o.population
    /\ next.offspring = o.offspring /\ next.recent = o.recent /\ next.ideal = o.ideal
    /\ next.observed = o.observed

(***************************************************************************)
(* What ask() returns keeps the contract, and an empty answer has a true   *)
(* reason.                                                                 *)
(***************************************************************************)
Replied(o, count, seen, answer) ==
    /\ answer.points \in Seq(Keys) /\ Len(answer.points) <= count
    /\ \A i, j \in DOMAIN answer.points : answer.points[i] = answer.points[j] => i = j
    /\ \A i \in DOMAIN answer.points : answer.points[i] \notin seen
    /\ Fits(answer.optimizer, seen \union ToSet(answer.points))
    /\ Remembers(o, answer.optimizer)
    /\ Len(answer.optimizer.slots) = Len(answer.points)
    /\ DistinctSlots(answer.optimizer.slots) /\ Planned(o, answer.optimizer.slots)
    /\ answer.points = <<>> =>
         \/ answer.reason = "search_space_exhausted" /\ o.walk # <<>> /\ Keys \subseteq seen
         \/ answer.reason = "proposal_stalled" /\ o.walk = <<>>

LEMMA AskedReplies ==
    ASSUME NEW o, NEW seen \in SUBSET Keys, Fits(o, seen), NEW count \in Nat \ {0},
           NEW answer \in Asked(o, count, seen)
    PROVE  Replied(o, count, seen, answer)
<1>1. PICK a \in Answers(o, count, seen) :
        answer = [points |-> a.points,
                  reason |-> IF a.reason = Unexplained THEN "proposal_stalled" ELSE a.reason,
                  optimizer |-> [o EXCEPT !.slots = a.slots, !.next = a.next,
                                          !.cursor = a.cursor]]
  BY DEF Asked
<1>2. Given(o, count, seen, a)
  BY CatalogAnswers
<1> DEFINE p == [o EXCEPT !.slots = a.slots, !.next = a.next, !.cursor = a.cursor]
<1>3. /\ answer.points = a.points /\ answer.optimizer = p
      /\ answer.reason = IF a.reason = Unexplained THEN "proposal_stalled" ELSE a.reason
  BY <1>1
<1>4. /\ Answering(o, seen, a) /\ Len(a.points) <= count /\ a \in Answer
      /\ a.points = <<>> => a.reason # Unexplained
      /\ DistinctSlots(a.slots) /\ Planned(o, a.slots)
      /\ Walked(o, seen \union ToSet(a.points), a.cursor) /\ ReasonHolds(o, a)
      /\ Len(a.slots) = Len(a.points)
  BY <1>2 DEF Given, Answering
<1>5. /\ a.points \in Seq(Keys) /\ a.slots \in Seq(0 .. PopulationSize)
      /\ a.next \in 0 .. PopulationSize - 1 /\ a.cursor \in Nat /\ a.reason \in Reasons
  BY <1>4 DEF Answer
<1>6. o \in Optimizer /\ Len(o.offspring) < PopulationSize
  BY DEF Fits
<1>7. p \in Optimizer /\ p.slots = a.slots /\ p.cursor = a.cursor /\ Remembers(o, p)
  BY <1>5, <1>6 DEF Optimizer, Remembers
<1> HIDE DEF p
<1>8. Fits(p, seen \union ToSet(a.points))
  BY <1>4, <1>6, <1>7 DEF Fits, Walked, Remembers
<1>9. ASSUME a.points = <<>>
      PROVE  \/ answer.reason = "search_space_exhausted" /\ o.walk # <<>> /\ Keys \subseteq seen
             \/ answer.reason = "proposal_stalled" /\ o.walk = <<>>
  <2>1. a.reason # Unexplained /\ answer.reason = a.reason
    BY <1>3, <1>4, <1>9
  <2>2. CASE a.reason = "proposal_stalled"
    BY <1>4, <2>1, <2>2 DEF ReasonHolds
  <2>3. CASE a.reason = "search_space_exhausted"
    <3>1. o.walk # <<>> /\ a.cursor = Len(o.walk)
      BY <1>4, <2>3 DEF ReasonHolds
    <3>2. ToSet(a.points) = {}
      BY <1>9 DEF ToSet
    <3>3. \A i \in 1 .. Len(o.walk) : o.walk[i] \in seen
      BY <1>4, <3>1, <3>2 DEF Walked
    <3>4. ToSet(o.walk) = Keys /\ o.walk \in Seq(Keys)
      BY <1>6, <3>1 DEF Optimizer, Enumerates
    <3>5. Keys \subseteq seen
      BY <3>3, <3>4 DEF ToSet
    <3> QED
      BY <2>1, <2>3, <3>1, <3>5
  <2> QED
    BY <1>5, <2>1, <2>2, <2>3 DEF Reasons
<1>10. \A i, j \in DOMAIN a.points : a.points[i] = a.points[j] => i = j
  BY <1>4 DEF Answering
<1>11. \A i \in DOMAIN a.points : a.points[i] \notin seen
  BY <1>4 DEF Answering
<1> QED
  BY <1>3, <1>4, <1>5, <1>7, <1>8, <1>9, <1>10, <1>11 DEF Replied
-----------------------------------------------------------------------------
(* What a strategy breeds from: kinds of trials, and how many there are.   *)

\* A trial that is at least of the kind of another one.
AtLeast(t, u) ==
    /\ u.feasible => t.feasible
    /\ u.status = "success" => t.status = "success"

\* No trial of a memory is lost to a worse kind.
Upholds(p, q) == FeasibleIn(q) >= FeasibleIn(p) /\ SuccessfulIn(q) >= SuccessfulIn(p)

LEMMA PreferredIsAtLeast ==
    ASSUME NEW t \in Trial(Objectives), NEW u \in Trial(Objectives),
           Preferred(t, u) \/ Lexicographic(PreferenceKey(t), PreferenceKey(u))
    PROVE  AtLeast(t, u)
<1> DEFINE a == PreferenceKey(t)
           b == PreferenceKey(u)
<1>1. Objectives \in Nat
  BY OptimizersAssumption
<1>2. Lexicographic(a, b)
  BY <1>1, KeyDecides
<1>3. /\ a \in Seq(Int) /\ 1 \in DOMAIN a /\ b \in Seq(Int) /\ 1 \in DOMAIN b
      /\ a[1] = IF t.status = "failed" THEN 2 ELSE IF t.feasible THEN 0 ELSE 1
      /\ b[1] = IF u.status = "failed" THEN 2 ELSE IF u.feasible THEN 0 ELSE 1
  BY <1>1, KeyKind
<1> HIDE DEF a, b
<1>4. a[1] <= b[1]
  <2>1. PICK i \in DOMAIN a \intersect DOMAIN b :
           a[i] < b[i] /\ \A j \in 1 .. i - 1 : a[j] = b[j]
    BY <1>2 DEF Lexicographic
  <2>2. i \in Nat \ {0} /\ a[1] \in Int /\ b[1] \in Int
    BY <1>3, <2>1
  <2>3. CASE i = 1
    BY <2>1, <2>2, <2>3
  <2>4. CASE i # 1
    <3>1. 1 \in 1 .. i - 1
      BY <2>2, <2>4
    <3> QED
      BY <2>1, <2>2, <3>1
  <2> QED
    BY <2>3, <2>4
<1>5. /\ t.status \in {"success", "failed"} /\ u.status \in {"success", "failed"}
      /\ t.feasible \in BOOLEAN /\ u.feasible \in BOOLEAN
      /\ t.feasible => t.status = "success"
      /\ u.feasible => u.status = "success"
  <2>1. t.status \in {"success", "failed"} /\ u.status \in {"success", "failed"}
    BY DEF Trial, Successful, Unsuccessful
  <2> QED
    BY <1>1, <2>1, TrialTypes
<1>6. u.feasible => t.feasible
  <2> SUFFICES ASSUME u.feasible PROVE t.feasible
    OBVIOUS
  <2>1. b[1] = 0
    BY <1>3, <1>5
  <2>2. a[1] # 1 /\ a[1] # 2
    BY <1>4, <2>1
  <2> QED
    BY <1>3, <2>2
<1>7. u.status = "success" => t.status = "success"
  <2> SUFFICES ASSUME u.status = "success", t.status = "failed" PROVE FALSE
    BY <1>5
  <2>1. a[1] = 2
    BY <1>3
  <2>2. b[1] = 0 \/ b[1] = 1
    BY <1>3
  <2> QED
    BY <1>4, <2>1, <2>2
<1> QED
  BY <1>6, <1>7 DEF AtLeast

\* Places that are filled stay filled with no worse a kind.
LEMMA PlacesUphold ==
    ASSUME NEW p \in Memory, NEW q \in Memory,
           \A i \in DOMAIN p : i \in DOMAIN q /\ AtLeast(q[i], p[i])
    PROVE  Upholds(p, q)
<1> DEFINE F(s) == {i \in DOMAIN s : s[i].feasible}
           S(s) == {i \in DOMAIN s : s[i].status = "success"}
<1>1. ASSUME NEW s \in Memory PROVE IsFiniteSet(F(s)) /\ IsFiniteSet(S(s))
  <2>1. DOMAIN s = 1 .. Len(s) /\ Len(s) \in Int
    BY DEF Memory
  <2>2. IsFiniteSet(DOMAIN s)
    BY <2>1, FS_Interval
  <2>3. F(s) \in SUBSET DOMAIN s /\ S(s) \in SUBSET DOMAIN s
    OBVIOUS
  <2> HIDE DEF F, S
  <2> QED
    BY <2>2, <2>3, FS_Subset
<1>2. F(p) \in SUBSET F(q) /\ S(p) \in SUBSET S(q)
  BY DEF AtLeast
<1>3. /\ FeasibleIn(p) = Cardinality(F(p)) /\ FeasibleIn(q) = Cardinality(F(q))
      /\ SuccessfulIn(p) = Cardinality(S(p)) /\ SuccessfulIn(q) = Cardinality(S(q))
  BY DEF FeasibleIn, SuccessfulIn
<1> HIDE DEF F, S
<1>4. Cardinality(F(p)) <= Cardinality(F(q)) /\ Cardinality(S(p)) <= Cardinality(S(q))
  BY <1>1, <1>2, FS_Subset
<1>5. /\ Cardinality(F(p)) \in Nat /\ Cardinality(F(q)) \in Nat
      /\ Cardinality(S(p)) \in Nat /\ Cardinality(S(q)) \in Nat
  BY <1>1, FS_CardinalityType
<1> QED
  BY <1>3, <1>4, <1>5 DEF Upholds

LEMMA UpholdsIsTransitive ==
    ASSUME NEW p \in Memory, NEW q \in Memory, NEW r \in Memory, Upholds(p, q), Upholds(q, r)
    PROVE  Upholds(p, r)
<1>1. ASSUME NEW s \in Memory PROVE FeasibleIn(s) \in Nat /\ SuccessfulIn(s) \in Nat
  <2> DEFINE F == {i \in DOMAIN s : s[i].feasible}
             S == {i \in DOMAIN s : s[i].status = "success"}
  <2>1. DOMAIN s = 1 .. Len(s) /\ Len(s) \in Int
    BY DEF Memory
  <2>2. IsFiniteSet(DOMAIN s)
    BY <2>1, FS_Interval
  <2>3. F \in SUBSET DOMAIN s /\ S \in SUBSET DOMAIN s
    OBVIOUS
  <2>4. FeasibleIn(s) = Cardinality(F) /\ SuccessfulIn(s) = Cardinality(S)
    BY DEF FeasibleIn, SuccessfulIn
  <2> HIDE DEF F, S
  <2> QED
    BY <2>2, <2>3, <2>4, FS_Subset, FS_CardinalityType
<1>2. /\ FeasibleIn(p) \in Nat /\ FeasibleIn(q) \in Nat /\ FeasibleIn(r) \in Nat
      /\ SuccessfulIn(p) \in Nat /\ SuccessfulIn(q) \in Nat /\ SuccessfulIn(r) \in Nat
  BY <1>1
<1> QED
  BY <1>2 DEF Upholds

\* A memory of distinct trials has as many of a kind as the set of them.
Distinctly(s) == \A i, j \in DOMAIN s : s[i] = s[j] => i = j

LEMMA KindsAreCounted ==
    ASSUME NEW p \in Memory, Distinctly(p)
    PROVE  /\ FeasibleIn(p) = Cardinality({t \in ToSet(p) : t.feasible})
           /\ SuccessfulIn(p) = Cardinality({t \in ToSet(p) : t.status = "success"})
           /\ Len(p) = Cardinality(ToSet(p)) /\ IsFiniteSet(ToSet(p))
<1>1. DOMAIN p = 1 .. Len(p) /\ Len(p) \in Nat
  BY DEF Memory
<1>2. IsFiniteSet(1 .. Len(p)) /\ Cardinality(1 .. Len(p)) = Len(p)
  <2> DEFINE n == Len(p)
  <2>1. n \in Nat
    BY <1>1
  <2> HIDE DEF n
  <2>2. IsFiniteSet(1 .. n) /\ Cardinality(1 .. n) = IF 1 > n THEN 0 ELSE n - 1 + 1
    BY <2>1, FS_Interval
  <2>3. IsFiniteSet(1 .. n) /\ Cardinality(1 .. n) = n
    BY <2>1, <2>2
  <2> QED
    BY <2>3 DEF n
<1>3. ASSUME NEW I \in SUBSET DOMAIN p
      PROVE  LET T == {p[i] : i \in I}
             IN  Cardinality(I) = Cardinality(T) /\ IsFiniteSet(T)
  <2> DEFINE T == {p[i] : i \in I}
             f == [i \in I |-> p[i]]
  <2>1. f \in Bijection(I, T)
    <3>1. f \in [I -> T] /\ \A i \in I : f[i] = p[i] /\ i \in DOMAIN p
      OBVIOUS
    <3>2. \A t \in T : \E i \in I : f[i] = t
      BY <3>1
    <3>3. \A i, j \in I : f[i] = f[j] => i = j
      BY <3>1 DEF Distinctly
    <3> HIDE DEF f, T
    <3> QED
      BY <3>1, <3>2, <3>3 DEF Bijection, Injection, Surjection, IsInjective
  <2>2. IsFiniteSet(I)
    BY <1>1, <1>2, FS_Subset
  <2> HIDE DEF f, T
  <2>3. ExistsBijection(I, T)
    BY <2>1 DEF ExistsBijection
  <2>4. Cardinality(I) = Cardinality(T) /\ IsFiniteSet(T)
    BY <2>2, <2>3, FS_Bijection
  <2> QED
    BY <2>4 DEF T
<1>4. Len(p) = Cardinality(ToSet(p)) /\ IsFiniteSet(ToSet(p))
  <2>1. ToSet(p) = {p[i] : i \in DOMAIN p}
    BY DEF ToSet
  <2>2. Cardinality(DOMAIN p) = Cardinality({p[i] : i \in DOMAIN p})
        /\ IsFiniteSet({p[i] : i \in DOMAIN p})
    BY <1>3
  <2> QED
    BY <1>1, <1>2, <2>1, <2>2
<1>5. FeasibleIn(p) = Cardinality({t \in ToSet(p) : t.feasible})
  <2> DEFINE I == {i \in DOMAIN p : p[i].feasible}
  <2>1. {p[i] : i \in I} = {t \in ToSet(p) : t.feasible}
    BY DEF ToSet
  <2>2. FeasibleIn(p) = Cardinality(I) /\ I \in SUBSET DOMAIN p
    BY DEF FeasibleIn
  <2> HIDE DEF I
  <2>3. Cardinality(I) = Cardinality({p[i] : i \in I})
    BY <1>3, <2>2
  <2> QED
    BY <2>1, <2>2, <2>3
<1>6. SuccessfulIn(p) = Cardinality({t \in ToSet(p) : t.status = "success"})
  <2> DEFINE I == {i \in DOMAIN p : p[i].status = "success"}
  <2>1. {p[i] : i \in I} = {t \in ToSet(p) : t.status = "success"}
    BY DEF ToSet
  <2>2. SuccessfulIn(p) = Cardinality(I) /\ I \in SUBSET DOMAIN p
    BY DEF SuccessfulIn
  <2> HIDE DEF I
  <2>3. Cardinality(I) = Cardinality({p[i] : i \in I})
    BY <1>3, <2>2
  <2> QED
    BY <2>1, <2>2, <2>3
<1> QED
  BY <1>4, <1>5, <1>6
-----------------------------------------------------------------------------
(* What a strategy keeps of the trials it was told.                        *)

\* The trials of a run of N, told in the order of their ids.
Numbered(D, N) ==
    /\ D \in SUBSET Trial(Objectives) /\ IsFiniteSet(D)
    /\ \A t \in D : t.id \in 0 .. N - 1
    /\ \A s, t \in D : s.id = t.id => s = t

FeasibleOf(D) == {t \in D : t.feasible}

Windowed(s, E) == Len(s) < Window /\ ToSet(s) \subseteq E

\* One trial of each kind, and no other is preferred to it.
Bests(population, D) ==
    /\ \A i \in DOMAIN population : population[i].status = "success"
    /\ \A i, j \in DOMAIN population :
          population[i].feasible = population[j].feasible => i = j
    /\ \A t \in D : t.status = "success" =>
          \E i \in DOMAIN population :
             /\ population[i].feasible = t.feasible
             /\ population[i] = t \/ Preferred(population[i], t)

\* A window of each kind.
Windows(recent, D) ==
    /\ Windowed(recent.feasible, {t \in D : t.status = "success" /\ t.feasible})
    /\ Windowed(recent.infeasible, {t \in D : t.status = "success" /\ ~t.feasible})

Learns(o, D) == Bests(o.population, D) /\ Windows(o.recent, D)

Generations(o, N) ==
    /\ Distinctly(o.population)
    /\ Len(o.offspring) = (N - Min({N, PopulationSize})) % PopulationSize

Keeps(o, D, N) ==
    /\ o \in Optimizer /\ Len(o.offspring) < PopulationSize
    /\ ToSet(o.population) \subseteq D /\ ToSet(o.offspring) \subseteq D
    /\ o.strategy = "sa" => Len(o.population) <= 1
    /\ o.strategy \in Evolutionary => Len(o.population) = Min({N, PopulationSize})
    /\ o.strategy = "nsga2" => Generations(o, N)
    /\ o.strategy = "moead" => o.ideal = IdealOf(FeasibleOf(D))
    /\ o.strategy = "bayes" => Learns(o, D)

\* A population is completed by points without a slot, and then has slots.
SlotFits(o, slot) ==
    slot \in 0 .. PopulationSize /\ (o.strategy \in Slotted => (slot = 0) = (Missing(o) > 0))

\* What a trial that is told does not touch.
Same(o, q) ==
    /\ q.strategy = o.strategy /\ q.walk = o.walk /\ q.slots = o.slots
    /\ q.next = o.next /\ q.cursor = o.cursor /\ q.observed = o.observed

Advances(o, q, D, N) == Keeps(q, D, N) /\ Same(o, q) /\ Upholds(o.population, q.population)

LEMMA NumberedMore ==
    ASSUME NEW N \in Nat, NEW D, Numbered(D, N), NEW t \in Trial(Objectives), t.id = N
    PROVE  Numbered(D \union {t}, N + 1) /\ t \notin D
<1>1. \A s \in D : s.id \in 0 .. N - 1 /\ s.id # N /\ s.id \in 0 .. (N + 1) - 1
  BY DEF Numbered
<1>2. N \in 0 .. (N + 1) - 1
  OBVIOUS
<1>3. IsFiniteSet(D \union {t})
  BY FS_AddElement DEF Numbered
<1> QED
  BY <1>1, <1>2, <1>3 DEF Numbered

LEMMA WithPopulation ==
    ASSUME NEW o \in Optimizer, NEW p \in Memory, NEW q, q = [o EXCEPT !.population = p]
    PROVE  /\ q \in Optimizer /\ q.population = p /\ q.offspring = o.offspring
           /\ q.recent = o.recent /\ q.ideal = o.ideal /\ Same(o, q)
BY DEF Optimizer, Same

\* The size of a population of N trials.
LEMMA FullSize ==
    ASSUME NEW N \in Nat
    PROVE  /\ PopulationSize \in Nat /\ PopulationSize >= 4
           /\ Min({N, PopulationSize}) = IF N <= PopulationSize THEN N ELSE PopulationSize
<1>1. PopulationSize \in Nat /\ PopulationSize >= 4
  BY OptimizersAssumption
<1> QED
  BY <1>1, MinOfTwo

\* A memory with one trial more.
LEMMA AppendUpholds ==
    ASSUME NEW p \in Memory, NEW t \in Trial(Objectives)
    PROVE  /\ Append(p, t) \in Memory /\ Len(p) \in Nat /\ Len(Append(p, t)) = Len(p) + 1
           /\ ToSet(Append(p, t)) = ToSet(p) \union {t}
           /\ Upholds(p, Append(p, t))
           /\ Distinctly(p) /\ t \notin ToSet(p) => Distinctly(Append(p, t))
<1> DEFINE q == Append(p, t)
<1>1. /\ q \in Memory /\ Len(p) \in Nat /\ DOMAIN p = 1 .. Len(p) /\ Len(q) = Len(p) + 1
      /\ DOMAIN q = 1 .. Len(p) + 1 /\ \A i \in 1 .. Len(p) : q[i] = p[i]
      /\ q[Len(p) + 1] = t /\ ToSet(q) = ToSet(p) \union {t}
  BY AppendParts DEF Memory
<1> HIDE DEF q
<1>2. \A i \in DOMAIN p : i \in DOMAIN q /\ AtLeast(q[i], p[i])
  BY <1>1 DEF AtLeast
<1>3. Upholds(p, q)
  BY <1>1, <1>2, PlacesUphold
<1>4. Distinctly(p) /\ t \notin ToSet(p) => Distinctly(q)
  <2> SUFFICES ASSUME Distinctly(p), t \notin ToSet(p),
                      NEW i \in DOMAIN q, NEW j \in DOMAIN q, q[i] = q[j]
               PROVE  i = j
    BY DEF Distinctly
  <2>1. \A k \in 1 .. Len(p) : q[k] \in ToSet(p) /\ q[k] # t
    BY <1>1 DEF ToSet
  <2>2. CASE i \in 1 .. Len(p) /\ j \in 1 .. Len(p)
    BY <1>1, <2>2 DEF Distinctly
  <2>3. CASE i = Len(p) + 1 \/ j = Len(p) + 1
    BY <1>1, <2>1, <2>3
  <2> QED
    BY <1>1, <2>2, <2>3
<1> QED
  BY <1>1, <1>3, <1>4 DEF q

\* A memory where some trials are replaced.
LEMMA ReplacedUpholds ==
    ASSUME NEW p \in Memory, NEW t \in Trial(Objectives), NEW q, DOMAIN q = DOMAIN p,
           q = [i \in DOMAIN p |-> q[i]],
           \A i \in DOMAIN p : q[i] = p[i] \/ (q[i] = t /\ AtLeast(t, p[i]))
    PROVE  /\ q \in Memory /\ Len(q) = Len(p) /\ ToSet(q) \subseteq ToSet(p) \union {t}
           /\ Upholds(p, q)
<1>1. DOMAIN p = 1 .. Len(p) /\ Len(p) \in Nat /\ \A i \in DOMAIN p : p[i] \in Trial(Objectives)
  BY DEF Memory
<1>2. q \in [1 .. Len(p) -> Trial(Objectives)]
  BY <1>1
<1>3. q \in Memory /\ Len(q) = Len(p)
  BY <1>1, <1>2 DEF Memory
<1>4. ToSet(q) \subseteq ToSet(p) \union {t}
  BY DEF ToSet
<1>5. \A i \in DOMAIN p : i \in DOMAIN q /\ AtLeast(q[i], p[i])
  BY DEF AtLeast
<1>6. Upholds(p, q)
  BY <1>3, <1>5, PlacesUphold
<1> QED
  BY <1>3, <1>4, <1>6

(***************************************************************************)
(* Simulated annealing gives its current trial up for a preferred one or   *)
(* for one of the same kind.                                               *)
(***************************************************************************)
LEMMA AnnealAdvances ==
    ASSUME NEW N \in Nat, NEW D, Numbered(D, N), NEW o, Keeps(o, D, N), o.strategy = "sa",
           NEW t \in Trial(Objectives), t.id = N,
           NEW p \in Anneal(o.population, t), NEW q, q = [o EXCEPT !.population = p]
    PROVE  Advances(o, q, D \union {t}, N + 1)
<1> DEFINE c == o.population
<1>1. /\ o \in Optimizer /\ c \in Memory /\ Len(c) <= 1 /\ Len(c) \in Nat
      /\ ToSet(c) \subseteq D /\ ToSet(o.offspring) \subseteq D
      /\ Len(o.offspring) < PopulationSize
  BY DEF Keeps, Optimizer, Memory
<1>2. p = <<t>> \/ p = c
  BY Zenon DEF Anneal
<1>3. p = <<t>> /\ c # <<>> => AtLeast(t, c[1]) /\ DOMAIN c = {1}
  <2> SUFFICES ASSUME p = <<t>>, c # <<>> PROVE AtLeast(t, c[1]) /\ DOMAIN c = {1}
    OBVIOUS
  <2>1. Len(c) = 1 /\ DOMAIN c = {1} /\ c[1] \in Trial(Objectives)
    BY <1>1 DEF Memory
  <2>2. CASE Preferred(t, c[1])
    BY <2>1, <2>2, PreferredIsAtLeast
  <2>3. CASE ~Preferred(t, c[1]) /\ t.status = c[1].status /\ t.feasible = c[1].feasible
    BY <2>1, <2>3 DEF AtLeast
  <2>4. CASE ~Preferred(t, c[1]) /\ ~(t.status = c[1].status /\ t.feasible = c[1].feasible)
    <3>1. p = c
      BY <2>4, Zenon DEF Anneal
    <3>2. c[1] = t
      BY <3>1
    <3> QED
      BY <2>1, <3>2 DEF AtLeast
  <2> QED
    BY <2>2, <2>3, <2>4
<1>4. p \in Memory /\ Len(p) <= 1 /\ ToSet(p) \subseteq D \union {t} /\ Upholds(c, p)
  <2>1. CASE p = c
    <3>1. \A i \in DOMAIN c : AtLeast(c[i], c[i])
      BY DEF AtLeast
    <3> HIDE DEF c
    <3> QED
      BY <1>1, <2>1, <3>1, PlacesUphold
  <2>2. CASE p = <<t>>
    <3>1. p \in Memory /\ Len(p) <= 1 /\ DOMAIN p = {1} /\ p[1] = t
      BY <2>2 DEF Memory
    <3>2. ToSet(p) \subseteq D \union {t}
      BY <3>1 DEF ToSet
    <3>3. \A i \in DOMAIN c : i \in DOMAIN p /\ AtLeast(p[i], c[i])
      <4>1. CASE c = <<>>
        <5>1. DOMAIN c = {}
          BY <4>1
        <5> QED
          BY <5>1
      <4>2. CASE c # <<>>
        BY <1>3, <2>2, <3>1, <4>2
      <4> QED
        BY <4>1, <4>2
    <3> HIDE DEF c
    <3> QED
      BY <1>1, <3>1, <3>2, <3>3, PlacesUphold
  <2> QED
    BY <1>2, <2>1, <2>2
<1>5. /\ q \in Optimizer /\ q.population = p /\ q.offspring = o.offspring
      /\ q.recent = o.recent /\ q.ideal = o.ideal /\ Same(o, q)
  BY <1>1, <1>4, WithPopulation
<1>6. q.strategy = "sa"
  BY <1>5 DEF Same
<1>7. Keeps(q, D \union {t}, N + 1)
  BY <1>1, <1>4, <1>5, <1>6 DEF Keeps, Evolutionary
<1> QED
  BY <1>4, <1>5, <1>7 DEF Advances

(***************************************************************************)
(* DE and PSO replace a trial by a preferred one.                          *)
(***************************************************************************)
LEMMA SurviveAdvances ==
    ASSUME NEW N \in Nat, NEW D, Numbered(D, N), NEW o, Keeps(o, D, N),
           o.strategy \in {"de", "pso"}, NEW slot, SlotFits(o, slot),
           NEW t \in Trial(Objectives), t.id = N,
           NEW q, q = [o EXCEPT !.population = Survive(@, slot, t)]
    PROVE  Advances(o, q, D \union {t}, N + 1)
<1> DEFINE c == o.population
           p == Survive(c, slot, t)
           P == PopulationSize
<1>1. /\ o \in Optimizer /\ c \in Memory /\ Len(c) \in Nat
      /\ ToSet(c) \subseteq D /\ ToSet(o.offspring) \subseteq D
      /\ Len(o.offspring) < PopulationSize /\ Len(c) = Min({N, P})
  BY DEF Keeps, Optimizer, Memory, Evolutionary
<1>2. P \in Nat /\ P >= 4 /\ Len(c) = IF N <= P THEN N ELSE P
  BY <1>1, FullSize
<1>3. slot \in 0 .. P /\ ((slot = 0) = (P - Len(c) > 0))
  BY DEF SlotFits, Missing, Slotted
<1>4. N + 1 \in Nat /\ Min({N + 1, P}) = IF N + 1 <= P THEN N + 1 ELSE P
  BY FullSize
<1>5. p \in Memory /\ Len(p) = Min({N + 1, P}) /\ ToSet(p) \subseteq D \union {t}
      /\ Upholds(c, p)
  <2>1. CASE slot = 0
    <3>1. p = Append(c, t)
      BY <2>1 DEF Survive
    <3> HIDE DEF c, p
    <3>2. p \in Memory /\ Len(p) = Len(c) + 1 /\ ToSet(p) = ToSet(c) \union {t} /\ Upholds(c, p)
      BY <1>1, <3>1, AppendUpholds
    <3>3. N < P
      BY <1>1, <1>2, <1>3, <2>1
    <3> QED
      BY <1>1, <1>2, <1>4, <3>2, <3>3
  <2>2. CASE slot # 0
    <3>1. slot \in DOMAIN c /\ Len(c) = P /\ P <= N
      <4>1. Len(c) = P
        BY <1>1, <1>2, <1>3, <2>2
      <4>2. DOMAIN c = 1 .. Len(c)
        BY <1>1 DEF Memory
      <4> HIDE DEF c
      <4> QED
        BY <1>2, <1>3, <2>2, <4>1, <4>2
    <3>2. (p = [c EXCEPT ![slot] = t] /\ AtLeast(t, c[slot])) \/ p = c
      <4>1. CASE Preferred(t, c[slot])
        <5>1. c[slot] \in Trial(Objectives)
          BY <1>1, <3>1 DEF Memory
        <5>2. p = [c EXCEPT ![slot] = t]
          BY <2>2, <4>1 DEF Survive
        <5> QED
          BY <4>1, <5>1, <5>2, PreferredIsAtLeast
      <4>2. CASE ~Preferred(t, c[slot])
        BY <2>2, <4>2 DEF Survive
      <4> QED
        BY <4>1, <4>2
    <3>3. /\ DOMAIN p = DOMAIN c /\ p = [i \in DOMAIN c |-> p[i]]
          /\ \A i \in DOMAIN c : p[i] = c[i] \/ (p[i] = t /\ AtLeast(t, c[i]))
      <4>1. c = [i \in DOMAIN c |-> c[i]]
        BY <1>1 DEF Memory
      <4> HIDE DEF c, p
      <4>2. CASE p = c
        <5>1. DOMAIN p = DOMAIN c /\ p = [i \in DOMAIN c |-> p[i]]
          BY <4>1, <4>2
        <5>2. \A i \in DOMAIN c : p[i] = c[i]
          BY <4>2
        <5> QED
          BY <5>1, <5>2, Zenon
      <4>3. CASE p = [c EXCEPT ![slot] = t] /\ AtLeast(t, c[slot])
        <5>1. p = [i \in DOMAIN c |-> IF i = slot THEN t ELSE c[i]]
          BY <3>1, <4>1, <4>3
        <5>2. DOMAIN p = DOMAIN c /\ \A i \in DOMAIN c : p[i] = IF i = slot THEN t ELSE c[i]
          BY <5>1
        <5>3. p = [i \in DOMAIN c |-> p[i]]
          BY <5>1, <5>2
        <5>4. \A i \in DOMAIN c : p[i] = c[i] \/ (p[i] = t /\ i = slot)
          BY <5>2
        <5>5. \A i \in DOMAIN c : p[i] = c[i] \/ (p[i] = t /\ AtLeast(t, c[i]))
          BY <4>3, <5>4, Zenon
        <5> QED
          BY <5>2, <5>3, <5>5, Zenon
      <4> QED
        BY <3>2, <4>2, <4>3
    <3> HIDE DEF c, p
    <3>4. p \in Memory /\ Len(p) = Len(c) /\ ToSet(p) \subseteq ToSet(c) \union {t}
          /\ Upholds(c, p)
      BY <1>1, <3>3, ReplacedUpholds
    <3> QED
      BY <1>1, <1>2, <1>4, <3>1, <3>4
  <2> QED
    BY <2>1, <2>2
<1>6. q = [o EXCEPT !.population = p]
  OBVIOUS
<1> HIDE DEF p
<1>7. /\ q \in Optimizer /\ q.population = p /\ q.offspring = o.offspring
      /\ q.recent = o.recent /\ q.ideal = o.ideal /\ Same(o, q)
  BY <1>1, <1>5, <1>6, WithPopulation
<1>8. q.strategy \in {"de", "pso"}
  BY <1>7 DEF Same
<1>9. Keeps(q, D \union {t}, N + 1)
  BY <1>1, <1>5, <1>7, <1>8 DEF Keeps
<1> QED
  BY <1>5, <1>7, <1>9 DEF Advances
-----------------------------------------------------------------------------
(* The ideal of MOEA/D.                                                    *)

\* In every component the least value of some trials.
Least(F, ideal) ==
    /\ ideal \in [1 .. Objectives -> Int]
    /\ \A d \in 1 .. Objectives : /\ \E t \in F : ideal[d] = t.vector[d]
                                  /\ \A t \in F : ideal[d] <= t.vector[d]

LEMMA LeastIsUnique ==
    ASSUME NEW F \in SUBSET Successful(Objectives), NEW a, Least(F, a), NEW b, Least(F, b)
    PROVE  a = b
<1>1. \A t \in F : t.vector \in [1 .. Objectives -> Int]
  BY DEF Successful
<1>2. ASSUME NEW d \in 1 .. Objectives PROVE a[d] = b[d]
  <2>1. PICK s \in F : a[d] = s.vector[d]
    BY DEF Least
  <2>2. PICK t \in F : b[d] = t.vector[d]
    BY DEF Least
  <2>3. a[d] <= t.vector[d] /\ b[d] <= s.vector[d] /\ a[d] \in Int /\ b[d] \in Int
    BY DEF Least
  <2> QED
    BY <2>1, <2>2, <2>3
<1>3. a = [d \in 1 .. Objectives |-> a[d]] /\ b = [d \in 1 .. Objectives |-> b[d]]
  BY DEF Least
<1> DEFINE left == [d \in 1 .. Objectives |-> a[d]]
           right == [d \in 1 .. Objectives |-> b[d]]
<1>4. left = right
  BY <1>2, Zenon
<1> QED
  BY <1>3, <1>4, Zenon

LEMMA IdealIsLeast ==
    ASSUME NEW F \in SUBSET Successful(Objectives), IsFiniteSet(F), F # {}
    PROVE  Least(F, IdealOf(F))
<1>1. \A t \in F : t.vector \in [1 .. Objectives -> Int] /\ DOMAIN t.vector = 1 .. Objectives
  BY DEF Successful
<1>2. (CHOOSE t \in F : TRUE) \in F
  OBVIOUS
<1>3. DOMAIN (CHOOSE t \in F : TRUE).vector = 1 .. Objectives
  BY <1>1, <1>2
<1>4. ASSUME NEW d \in 1 .. Objectives
      PROVE  /\ Min(Values(F, d)) \in Int
             /\ \E t \in F : Min(Values(F, d)) = t.vector[d]
             /\ \A t \in F : Min(Values(F, d)) <= t.vector[d]
  <2> DEFINE f == [t \in F |-> t.vector[d]]
             values == {t.vector[d] : t \in F}
  <2>1. \A t \in F : t.vector[d] \in Int
    BY <1>1
  <2>2. IsFiniteSet({f[t] : t \in F})
    <3> HIDE DEF f
    <3> QED
      BY ImageIsFinite
  <2>3. {f[t] : t \in F} = values
    OBVIOUS
  <2>4. values \in SUBSET Int /\ values # {} /\ Values(F, d) = values
    BY <2>1 DEF Values
  <2>5. \A t \in F : t.vector[d] \in values
    OBVIOUS
  <2>6. \A v \in values : \E t \in F : v = t.vector[d]
    OBVIOUS
  <2> HIDE DEF values, f
  <2>7. Min(values) \in values /\ \A x \in values : Min(values) <= x
    BY <2>2, <2>3, <2>4, Extremes
  <2> QED
    BY <2>4, <2>5, <2>6, <2>7
<1>5. IdealOf(F) = [d \in 1 .. Objectives |-> Min(Values(F, d))]
  BY <1>3, Zenon DEF IdealOf, Values
<1>6. \A d \in 1 .. Objectives : IdealOf(F)[d] = Min(Values(F, d))
  BY <1>5
<1>7. IdealOf(F) \in [1 .. Objectives -> Int]
  BY <1>4, <1>5
<1> QED
  BY <1>4, <1>6, <1>7 DEF Least

LEMMA IdealFollows ==
    ASSUME NEW D \in SUBSET Trial(Objectives), IsFiniteSet(D), NEW t \in Trial(Objectives)
    PROVE  /\ UpdateIdeal(IdealOf(FeasibleOf(D)), t) = IdealOf(FeasibleOf(D \union {t}))
           /\ IdealOf(FeasibleOf(D)) \in Seq(Int)
<1> DEFINE F == FeasibleOf(D)
           G == FeasibleOf(D \union {t})
           n == Objectives
           a == IdealOf(F)
<1>1. n \in Nat \ {0}
  BY OptimizersAssumption
<1>2. ASSUME NEW E \in SUBSET Trial(n), IsFiniteSet(E)
      PROVE  FeasibleOf(E) \in SUBSET Successful(n) /\ IsFiniteSet(FeasibleOf(E))
  <2>1. FeasibleOf(E) \in SUBSET E
    BY DEF FeasibleOf
  <2>2. \A s \in Trial(n) : s.feasible => s \in Successful(n)
    BY DEF Trial, Unsuccessful
  <2>3. FeasibleOf(E) \in SUBSET Successful(n)
    BY <2>2 DEF FeasibleOf
  <2> QED
    BY <1>2, <2>1, <2>3, FS_Subset
<1>3. D \union {t} \in SUBSET Trial(n) /\ IsFiniteSet(D \union {t})
  BY FS_AddElement
<1>4. /\ F \in SUBSET Successful(n) /\ IsFiniteSet(F)
      /\ G \in SUBSET Successful(n) /\ IsFiniteSet(G)
  BY <1>2, <1>3
<1>5. G = IF t.feasible THEN F \union {t} ELSE F
  BY DEF FeasibleOf
<1>6. F # {} => Least(F, a)
  BY <1>4, IdealIsLeast
<1>7. F = {} => a = <<>>
  BY DEF IdealOf
<1>8. F # {} => a # <<>>
  <2> SUFFICES ASSUME F # {}, a = <<>> PROVE FALSE
    OBVIOUS
  <2>1. DOMAIN a = 1 .. n
    BY <1>6 DEF Least
  <2>2. DOMAIN a = {}
    OBVIOUS
  <2> QED
    BY <1>1, <2>1, <2>2
<1>9. a \in Seq(Int)
  <2>1. CASE F = {}
    <3>1. <<>> \in Seq(Int)
      OBVIOUS
    <3> HIDE DEF a, F
    <3> QED
      BY <1>7, <2>1, <3>1
  <2>2. CASE F # {}
    <3>1. a \in [1 .. n -> Int]
      BY <1>6, <2>2 DEF Least
    <3> QED
      BY <1>1, <3>1
  <2> QED
    BY <2>1, <2>2
<1>10. UpdateIdeal(a, t) = IdealOf(G)
  <2> HIDE DEF F, G, a
  <2>1. CASE ~t.feasible
    <3>1. UpdateIdeal(a, t) = a
      BY <2>1, Zenon DEF UpdateIdeal
    <3> QED
      BY <1>5, <2>1, <3>1 DEF a
  <2>2. CASE t.feasible
    <3>1. G = F \union {t} /\ t \in G /\ G # {}
      BY <1>5, <2>2
    <3>2. t \in Successful(n)
      BY <1>4, <3>1
    <3>3. t.vector \in [1 .. n -> Int]
      BY <3>2 DEF Successful
    <3>4. Least(G, IdealOf(G))
      BY <1>4, <3>1, IdealIsLeast
    <3>5. Least(G, UpdateIdeal(a, t))
      <4>1. CASE F = {}
        <5>1. UpdateIdeal(a, t) = t.vector
          BY <1>7, <2>2, <4>1, Zenon DEF UpdateIdeal
        <5>2. G = {t}
          BY <3>1, <4>1
        <5>3. ASSUME NEW d \in 1 .. n
              PROVE  t.vector[d] \in Int /\ t.vector[d] <= t.vector[d]
          <6> DEFINE x == t.vector[d]
          <6>1. x \in Int
            BY <3>3
          <6> HIDE DEF x
          <6>2. x \in Int /\ x <= x
            BY <6>1
          <6> QED
            BY <6>2 DEF x
        <5> DEFINE v == t.vector
        <5>4. \A d \in 1 .. n : (\E s \in G : v[d] = s.vector[d]) /\ \A s \in G : v[d] <= s.vector[d]
          BY <5>2, <5>3
        <5> HIDE DEF v
        <5>5. Least(G, v)
          BY <3>3, <5>4 DEF Least, v
        <5> QED
          BY <5>1, <5>5 DEF v
      <4>2. CASE F # {}
        <5> DEFINE b == [i \in 1 .. n |-> Min({a[i], t.vector[i]})]
        <5>1. a \in [1 .. n -> Int] /\ DOMAIN a = 1 .. n
          BY <1>6, <4>2 DEF Least
        <5>2. UpdateIdeal(a, t) = [i \in DOMAIN a |-> Min({a[i], t.vector[i]})]
          BY <1>8, <2>2, <4>2, Zenon DEF UpdateIdeal
        <5>3. UpdateIdeal(a, t) = b
          BY <5>1, <5>2, Zenon
        <5>4. ASSUME NEW i \in 1 .. n
              PROVE  b[i] = (IF a[i] <= t.vector[i] THEN a[i] ELSE t.vector[i]) /\ b[i] \in Int
          <6>1. a[i] \in Int /\ t.vector[i] \in Int
            BY <3>3, <5>1
          <6>2. Min({a[i], t.vector[i]}) = IF a[i] <= t.vector[i] THEN a[i] ELSE t.vector[i]
            BY <6>1, MinOfTwo
          <6> QED
            BY <6>1, <6>2
        <5>5. b \in [1 .. n -> Int]
          <6>1. b = [i \in 1 .. n |-> b[i]]
            OBVIOUS
          <6> HIDE DEF b
          <6> QED
            BY <5>4, <6>1
        <5> HIDE DEF b
        <5>6. ASSUME NEW i \in 1 .. n
              PROVE  (\E s \in G : b[i] = s.vector[i]) /\ \A s \in G : b[i] <= s.vector[i]
          <6>1. PICK s \in F : a[i] = s.vector[i]
            BY <1>6, <4>2 DEF Least
          <6>2. \A u \in F : a[i] <= u.vector[i]
            BY <1>6, <4>2 DEF Least
          <6>3. \A u \in G : u.vector[i] \in Int
            BY <1>4 DEF Successful
          <6>4. a[i] \in Int /\ t.vector[i] \in Int
            BY <3>3, <5>1
          <6> QED
            BY <3>1, <5>4, <6>1, <6>2, <6>3, <6>4
        <5> QED
          BY <5>3, <5>5, <5>6 DEF Least
      <4> QED
        BY <4>1, <4>2
    <3> QED
      BY <1>4, <3>4, <3>5, LeastIsUnique
  <2> QED
    BY <2>1, <2>2
<1> QED
  BY <1>9, <1>10

LEMMA BetterIsAtLeast ==
    ASSUME NEW t \in Trial(Objectives), NEW u \in Trial(Objectives), NEW slot, NEW ideal,
           BetterFor(t, u, slot, ideal)
    PROVE  AtLeast(t, u)
<1>1. /\ t.feasible \in BOOLEAN /\ u.feasible \in BOOLEAN
      /\ u.feasible => u.status = "success"
  BY OptimizersAssumption, TrialTypes
<1>2. /\ t.status = "success"
      /\ \/ u.status = "failed"
         \/ t.feasible
         \/ ~u.feasible
  BY DEF BetterFor
<1> QED
  BY <1>1, <1>2 DEF AtLeast


(***************************************************************************)
(* MOEA/D replaces the trials of a neighborhood by one that is better for  *)
(* them.                                                                   *)
(***************************************************************************)
LEMMA DecomposeAdvances ==
    ASSUME NEW N \in Nat, NEW D, Numbered(D, N), NEW o, Keeps(o, D, N),
           o.strategy = "moead", NEW slot, SlotFits(o, slot),
           NEW t \in Trial(Objectives), t.id = N, NEW q, q = Decompose(o, slot, t)
    PROVE  Advances(o, q, D \union {t}, N + 1)
<1> DEFINE c == o.population
           P == PopulationSize
           ideal == UpdateIdeal(o.ideal, t)
           Replaced(i) == i \in Neighborhoods[slot] /\ BetterFor(t, c[i], i, ideal)
           r == [i \in DOMAIN c |-> IF Replaced(i) THEN t ELSE c[i]]
           p == IF slot = 0 THEN Append(c, t) ELSE r
<1>1. /\ o \in Optimizer /\ c \in Memory /\ Len(c) \in Nat
      /\ ToSet(c) \subseteq D /\ ToSet(o.offspring) \subseteq D
      /\ Len(o.offspring) < PopulationSize /\ Len(c) = Min({N, P})
      /\ o.ideal = IdealOf(FeasibleOf(D))
  BY DEF Keeps, Optimizer, Memory, Evolutionary
<1>2. P \in Nat /\ P >= 4 /\ Len(c) = IF N <= P THEN N ELSE P
  BY <1>1, FullSize
<1>3. slot \in 0 .. P /\ ((slot = 0) = (P - Len(c) > 0))
  BY DEF SlotFits, Missing, Slotted
<1>4. N + 1 \in Nat /\ Min({N + 1, P}) = IF N + 1 <= P THEN N + 1 ELSE P
  BY FullSize
<1>5. p \in Memory /\ Len(p) = Min({N + 1, P}) /\ ToSet(p) \subseteq D \union {t}
      /\ Upholds(c, p)
  <2>1. CASE slot = 0
    <3>1. p = Append(c, t)
      BY <2>1
    <3> HIDE DEF c, p
    <3>2. p \in Memory /\ Len(p) = Len(c) + 1 /\ ToSet(p) = ToSet(c) \union {t} /\ Upholds(c, p)
      BY <1>1, <3>1, AppendUpholds
    <3>3. N < P
      BY <1>1, <1>2, <1>3, <2>1
    <3> QED
      BY <1>1, <1>2, <1>4, <3>2, <3>3
  <2>2. CASE slot # 0
    <3>1. Len(c) = P /\ P <= N
      <4> HIDE DEF c
      <4> QED
        BY <1>2, <1>3, <2>2
    <3>2. p = r
      BY <2>2
    <3>3. \A i \in DOMAIN c : c[i] \in Trial(Objectives)
      BY <1>1 DEF Memory
    <3>4. \A i \in DOMAIN c : Replaced(i) => AtLeast(t, c[i])
      BY <3>3, BetterIsAtLeast
    <3> HIDE DEF p, Replaced
    <3>5. DOMAIN p = DOMAIN c /\ \A i \in DOMAIN c : p[i] = IF Replaced(i) THEN t ELSE c[i]
      BY <3>2
    <3>6. p = [i \in DOMAIN c |-> p[i]]
      BY <3>2
    <3>7. \A i \in DOMAIN c : p[i] = c[i] \/ (p[i] = t /\ AtLeast(t, c[i]))
      BY <3>4, <3>5
    <3> HIDE DEF c
    <3>8. p \in Memory /\ Len(p) = Len(c) /\ ToSet(p) \subseteq ToSet(c) \union {t}
          /\ Upholds(c, p)
      BY <1>1, <3>5, <3>6, <3>7, ReplacedUpholds
    <3> QED
      BY <1>1, <1>2, <1>4, <3>1, <3>8
  <2> QED
    BY <2>1, <2>2
<1>6. q = [o EXCEPT !.ideal = ideal, !.population = p]
  <2>1. q = [o EXCEPT !.ideal = ideal,
                      !.population = IF slot = 0 THEN Append(@, t)
                                     ELSE [i \in DOMAIN @ |-> IF Replaced(i) THEN t ELSE @[i]]]
    BY Zenon DEF Decompose
  <2> QED
    BY <2>1
<1>7. ideal = IdealOf(FeasibleOf(D \union {t})) /\ ideal \in Seq(Int)
  <2>1. D \in SUBSET Trial(Objectives) /\ IsFiniteSet(D)
    BY DEF Numbered
  <2>2. D \union {t} \in SUBSET Trial(Objectives) /\ IsFiniteSet(D \union {t})
    BY <2>1, FS_AddElement
  <2>3. ideal = IdealOf(FeasibleOf(D \union {t}))
    BY <1>1, <2>1, IdealFollows
  <2>4. IdealOf(FeasibleOf(D \union {t})) \in Seq(Int)
    BY <2>2, IdealFollows
  <2> QED
    BY <2>3, <2>4
<1> HIDE DEF p, ideal
<1>8. /\ q \in Optimizer /\ q.population = p /\ q.offspring = o.offspring
      /\ q.recent = o.recent /\ q.ideal = ideal /\ Same(o, q)
  BY <1>1, <1>5, <1>6, <1>7, ZenonT(60) DEF Optimizer, Same
<1>9. q.strategy = "moead"
  BY <1>8 DEF Same
<1>10. Keeps(q, D \union {t}, N + 1)
  BY <1>1, <1>5, <1>7, <1>8, <1>9 DEF Keeps
<1> QED
  BY <1>5, <1>8, <1>10 DEF Advances
-----------------------------------------------------------------------------
(* The generations of NSGA-II.                                             *)

\* Trials with distinct ids are listed in the order of these.
LEMMA ByIdLists ==
    ASSUME NEW S \in SUBSET Trial(Objectives), IsFiniteSet(S),
           \A s, t \in S : s.id = t.id => s = t
    PROVE  /\ ById(S) \in Memory /\ Len(ById(S)) = Cardinality(S)
           /\ ToSet(ById(S)) = S /\ Distinctly(ById(S))
<1> DEFINE N == Cardinality(S)
           R == {p \in S \X S : p[1].id < p[2].id}
           Position(t) == Cardinality({u \in S : u.id < t.id})
           list == [i \in 1 .. N |-> CHOOSE t \in S : Position(t) = i - 1]
<1>1. N \in Nat
  BY FS_CardinalityType
<1>2. \A s \in S : s.id \in Int
  BY OptimizersAssumption, TrialTypes
<1>3. \A s, t \in S : <<s, t>> \in R <=> s.id < t.id
  OBVIOUS
<1>4. StrictOrder(S, R)
  <2> HIDE DEF R
  <2>1. \A s \in S : <<s, s>> \notin R
    BY <1>2, <1>3
  <2>2. \A s, t, u \in S : <<s, t>> \in R /\ <<t, u>> \in R => <<s, u>> \in R
    BY <1>2, <1>3
  <2>3. \A s, t \in S : s # t => <<s, t>> \in R \/ <<t, s>> \in R
    BY <1>2, <1>3
  <2> QED
    BY <2>1, <2>2, <2>3 DEF StrictOrder
<1>5. \A t \in S : Rank(S, R, t) = Position(t)
  <2> SUFFICES ASSUME NEW t \in S PROVE Rank(S, R, t) = Position(t)
    OBVIOUS
  <2>1. {u \in S : <<u, t>> \in R} = {u \in S : u.id < t.id}
    <3> HIDE DEF R
    <3> QED
      BY <1>3
  <2> QED
    BY <2>1 DEF Rank
<1>6. ASSUME NEW i \in 1 .. N PROVE list[i] \in S /\ Position(list[i]) = i - 1
  <2> DEFINE Low(k) == {t \in S : Rank(S, R, t) < k}
  <2>1. i \in Nat /\ i - 1 \in Nat /\ i <= N /\ i - 1 <= N
    BY <1>1
  <2>2. Cardinality(Low(i)) = i /\ Cardinality(Low(i - 1)) = i - 1
    <3> HIDE DEF R
    <3> QED
      BY <1>4, <2>1, RankSelects
  <2>3. \E t \in S : Rank(S, R, t) < i /\ ~(Rank(S, R, t) < i - 1)
    <3> SUFFICES ASSUME \A t \in S : Rank(S, R, t) < i => Rank(S, R, t) < i - 1 PROVE FALSE
      OBVIOUS
    <3>1. \A t \in S : Rank(S, R, t) \in Int
      <4>1. \A t \in S : IsFiniteSet({u \in S : <<u, t>> \in R})
        <5>1. \A t \in S : {u \in S : <<u, t>> \in R} \in SUBSET S
          OBVIOUS
        <5> QED
          BY <5>1, FS_Subset
      <4> QED
        BY <4>1, FS_CardinalityType DEF Rank
    <3>2. Low(i) = Low(i - 1)
      <4> HIDE DEF R
      <4> QED
        BY <2>1, <3>1
    <3> HIDE DEF Low
    <3> QED
      BY <2>1, <2>2, <3>2
  <2>4. PICK t \in S : Rank(S, R, t) < i /\ ~(Rank(S, R, t) < i - 1)
    BY <2>3
  <2>5. Position(t) < i /\ ~(Position(t) < i - 1)
    BY <1>5, <2>4
  <2>6. Position(t) \in Nat
    <3>1. {u \in S : u.id < t.id} \in SUBSET S
      OBVIOUS
    <3> QED
      BY <3>1, FS_Subset, FS_CardinalityType
  <2>7. Position(t) = i - 1
    <3> HIDE DEF Position
    <3> QED
      BY <2>1, <2>5, <2>6
  <2>8. list[i] = CHOOSE t_1 \in S : Position(t_1) = i - 1
    OBVIOUS
  <2> HIDE DEF list, Position
  <2> QED
    BY <2>7, <2>8, Zenon
<1>7. ById(S) = list
  BY Zenon DEF ById
<1>8. list \in [1 .. N -> S]
  <2>1. \A i \in 1 .. N : (CHOOSE t \in S : Position(t) = i - 1) \in S
    BY <1>6
  <2> HIDE DEF Position
  <2> QED
    BY <2>1
<1> HIDE DEF list, Position, N
<1>9. list \in [1 .. N -> S] /\ DOMAIN list = 1 .. N
  BY <1>8
<1>10. list \in Memory /\ Len(list) = N
  <2>1. list \in Seq(S) /\ Len(list) = N
    BY <1>1, <1>9
  <2> QED
    BY <2>1 DEF Memory
<1>11. \A i, j \in 1 .. N : list[i] = list[j] => i = j
  <2> SUFFICES ASSUME NEW i \in 1 .. N, NEW j \in 1 .. N, list[i] = list[j] PROVE i = j
    OBVIOUS
  <2>1. i - 1 = j - 1
    BY <1>6
  <2> QED
    BY <1>1, <2>1
<1>12. Distinctly(list)
  BY <1>9, <1>11 DEF Distinctly
<1>13. list \in Surjection(1 .. N, S)
  <2>1. list \in Injection(1 .. N, S)
    BY <1>9, <1>11 DEF Injection, IsInjective
  <2>2. Cardinality(1 .. N) = N
    <3>1. Cardinality(1 .. N) = IF 1 > N THEN 0 ELSE N - 1 + 1
      BY <1>1, FS_Interval
    <3> QED
      BY <1>1, <3>1
  <2> QED
    BY <2>1, <2>2, FS_Injection DEF N
<1>14. ToSet(list) = S
  <2>1. \A t \in S : \E i \in 1 .. N : list[i] = t
    BY <1>13 DEF Surjection
  <2> QED
    BY <1>9, <2>1 DEF ToSet
<1> QED
  BY <1>7, <1>10, <1>12, <1>14 DEF N

\* A dominator is in an earlier front.
LEMMA DominatorsComeFirst ==
    ASSUME NEW S, NEW fronts, Fronts(S, fronts), NEW u \in S, NEW v \in S, Dominates(u, v)
    PROVE  \E i, j \in DOMAIN fronts : i < j /\ u \in fronts[i] /\ v \in fronts[j]
<1>1. /\ Len(fronts) \in Nat /\ DOMAIN fronts = 1 .. Len(fronts)
      /\ \A i, j \in 0 .. Len(fronts) : i <= j => Upto(fronts, i) \subseteq Upto(fronts, j)
      /\ \A i, j \in 1 .. Len(fronts) : i <= j => fronts[i] \subseteq Upto(fronts, j)
      /\ \A i \in 1 .. Len(fronts) : fronts[i] \subseteq S \ Upto(fronts, i - 1)
  BY UptoParts
<1>2. \A t \in S : \E i \in 1 .. Len(fronts) : t \in fronts[i]
  BY DEF Fronts, Upto
<1>3. PICK i \in 1 .. Len(fronts) : u \in fronts[i]
  BY <1>2
<1>4. PICK j \in 1 .. Len(fronts) : v \in fronts[j]
  BY <1>2
<1>5. i < j
  <2> SUFFICES ASSUME j <= i PROVE FALSE
    BY <1>1, <1>3, <1>4
  <2>1. fronts[j] = Undominated(S \ Upto(fronts, j - 1))
    BY <1>1, <1>4 DEF Fronts
  <2>2. u \notin Upto(fronts, i - 1)
    BY <1>1, <1>3
  <2>3. j - 1 \in 0 .. Len(fronts) /\ i - 1 \in 0 .. Len(fronts) /\ j - 1 <= i - 1
    BY <1>1
  <2>4. u \in S \ Upto(fronts, j - 1)
    BY <1>1, <2>2, <2>3
  <2> QED
    BY <1>4, <2>1, <2>4 DEF Undominated
<1> QED
  BY <1>1, <1>3, <1>4, <1>5

(***************************************************************************)
(* A selection keeps as many trials of a kind as any population of its     *)
(* size has, when each of the kind dominates each of the others.           *)
(***************************************************************************)
Superior(S, K) == \A u \in K : \A v \in S \ K : Dominates(u, v)

LEMMA SelectionKeepsTheKind ==
    ASSUME NEW S, IsFiniteSet(S), NEW fronts, Fronts(S, fronts), NEW room,
           NEW P, Populates(S, fronts, room, P), NEW Q \in SUBSET S,
           Cardinality(Q) = room, NEW K \in SUBSET S, Superior(S, K)
    PROVE  Cardinality(P) = room /\ Cardinality(P \cap K) >= Cardinality(Q \cap K)
<1>1. P \in SUBSET S
  BY DEF Populates
<1>2. IsFiniteSet(P) /\ IsFiniteSet(Q)
  BY <1>1, FS_Subset
<1>3. Cardinality(P) \in Nat /\ Cardinality(Q) \in Nat
  BY <1>2, FS_CardinalityType
<1>4. Cardinality(P) = room
  <2>1. CASE Cardinality(P) = room
    BY <2>1
  <2>2. CASE P = S /\ Cardinality(S) <= room
    <3>1. Cardinality(Q) <= Cardinality(S)
      BY FS_Subset
    <3> QED
      BY <1>3, <2>2, <3>1
  <2> QED
    BY <2>1, <2>2 DEF Populates
<1>5. /\ IsFiniteSet(P \cap K) /\ IsFiniteSet(Q \cap K)
      /\ Cardinality(P \cap K) \in Nat /\ Cardinality(Q \cap K) \in Nat
      /\ Cardinality(Q \cap K) <= Cardinality(Q)
  BY <1>2, FS_Intersection, FS_CardinalityType
<1>6. CASE K \subseteq P
  <2>1. Q \cap K \in SUBSET (P \cap K)
    BY <1>6
  <2>2. Cardinality(Q \cap K) <= Cardinality(P \cap K)
    BY <1>5, <2>1, FS_Subset
  <2> QED
    BY <1>4, <1>5, <2>2
<1>7. CASE ~(K \subseteq P)
  <2>1. PICK u \in K : u \notin P
    BY <1>7
  <2>2. ASSUME NEW v \in P, v \notin K PROVE FALSE
    <3>1. u \in S /\ v \in S /\ Dominates(u, v)
      BY <1>1, <2>2 DEF Superior
    <3>2. PICK i \in DOMAIN fronts, j \in DOMAIN fronts :
             i < j /\ u \in fronts[i] /\ v \in fronts[j]
      BY <3>1, DominatorsComeFirst
    <3>3. fronts[j] \cap P # {}
      BY <2>2, <3>2
    <3>4. fronts[i] \subseteq P
      BY <3>2, <3>3 DEF Populates
    <3> QED
      BY <2>1, <3>2, <3>4
  <2>3. P \cap K = P
    BY <2>2
  <2> QED
    BY <1>3, <1>4, <1>5, <2>3
<1> QED
  BY <1>6, <1>7

LEMMA SelectionUpholds ==
    ASSUME NEW S \in SUBSET Trial(Objectives), IsFiniteSet(S),
           \A s, t \in S : s.id = t.id => s = t,
           NEW p \in Memory, Distinctly(p), ToSet(p) \subseteq S,
           NEW q, q = ById(SelectPopulation(S, Len(p)))
    PROVE  /\ q \in Memory /\ Len(q) = Len(p) /\ ToSet(q) \subseteq S
           /\ Distinctly(q) /\ Upholds(p, q)
<1> DEFINE P == SelectPopulation(S, Len(p))
           fronts == NonDominatedSort(S)
           Q == ToSet(p)
           F == {t \in S : t.feasible}
           Z == {t \in S : t.status = "success"}
<1>1. Objectives \in Nat /\ Len(p) \in Nat
  BY OptimizersAssumption DEF Memory
<1>2. Fronts(S, fronts)
  BY <1>1, SortIsExact
<1>3. Populates(S, fronts, Len(p), P)
  BY <1>1, PopulationIsExact
<1>4. /\ Cardinality(Q) = Len(p) /\ IsFiniteSet(Q) /\ Q \in SUBSET S
      /\ FeasibleIn(p) = Cardinality({t \in Q : t.feasible})
      /\ SuccessfulIn(p) = Cardinality({t \in Q : t.status = "success"})
  BY KindsAreCounted
<1>5. \A t \in S : /\ t.feasible \in BOOLEAN /\ (t.feasible => t.status = "success")
                   /\ t.status \in {"success", "failed"}
  <2>1. \A t \in S : t.feasible \in BOOLEAN /\ (t.feasible => t.status = "success")
    BY <1>1, TrialTypes
  <2>2. \A t \in S : t.status \in {"success", "failed"}
    BY DEF Trial, Successful, Unsuccessful
  <2> QED
    BY <2>1, <2>2
<1>6. Superior(S, F)
  BY <1>5 DEF Dominates, Superior
<1>7. Superior(S, Z)
  BY <1>5 DEF Dominates, Superior
<1>8. F \in SUBSET S /\ Z \in SUBSET S
  OBVIOUS
<1>9. P \in SUBSET S
  BY <1>3 DEF Populates
<1>10. /\ {t \in Q : t.feasible} = Q \cap F /\ {t \in P : t.feasible} = P \cap F
       /\ {t \in Q : t.status = "success"} = Q \cap Z
       /\ {t \in P : t.status = "success"} = P \cap Z
  BY <1>4, <1>9
<1> HIDE DEF P, Q, F, Z, fronts
<1>11. Cardinality(P) = Len(p) /\ Cardinality(P \cap F) >= Cardinality(Q \cap F)
  BY <1>2, <1>3, <1>4, <1>6, <1>8, SelectionKeepsTheKind
<1>12. Cardinality(P \cap Z) >= Cardinality(Q \cap Z)
  BY <1>2, <1>3, <1>4, <1>7, <1>8, SelectionKeepsTheKind
<1>13. IsFiniteSet(P) /\ P \in SUBSET Trial(Objectives) /\ \A s, t \in P : s.id = t.id => s = t
  BY <1>9, FS_Subset
<1>14. q \in Memory /\ Len(q) = Cardinality(P) /\ ToSet(q) = P /\ Distinctly(q)
  BY <1>13, ByIdLists DEF P
<1>15. /\ FeasibleIn(q) = Cardinality({t \in P : t.feasible})
       /\ SuccessfulIn(q) = Cardinality({t \in P : t.status = "success"})
  BY <1>14, KindsAreCounted
<1>16. Upholds(p, q)
  BY <1>4, <1>10, <1>11, <1>12, <1>15 DEF Upholds
<1> QED
  BY <1>9, <1>11, <1>14, <1>16


\* Counting on in a cycle.
LEMMA ModStep ==
    ASSUME NEW a \in Nat, NEW P \in Nat \ {0}
    PROVE  /\ a % P \in 0 .. P - 1
           /\ (a + 1) % P = IF (a % P) + 1 < P THEN (a % P) + 1 ELSE 0
<1> DEFINE q == a \div P
           r == a % P
           u == (a + 1) \div P
           v == (a + 1) % P
<1>1. q \in Int /\ r \in 0 .. P - 1 /\ a = P * q + r
  OBVIOUS
<1>2. u \in Int /\ v \in 0 .. P - 1 /\ a + 1 = P * u + v
  OBVIOUS
<1> HIDE DEF q, r, u, v
<1>3. P * q \in Int /\ P * u \in Int
  BY <1>1, <1>2
<1>4. v - r = P * q - P * u + 1
  BY <1>1, <1>2, <1>3
<1>5. CASE u = q
  <2>1. P * u = P * q
    BY <1>5
  <2>2. v = r + 1
    BY <1>1, <1>2, <1>3, <1>4, <2>1
  <2> QED
    BY <1>1, <1>2, <2>2 DEF r, v
<1>6. CASE u = q + 1
  <2>1. P * u = P * q + P
    BY <1>1, <1>6
  <2>2. v = r + 1 - P
    BY <1>1, <1>2, <1>3, <1>4, <2>1
  <2>3. v = 0 /\ r + 1 = P
    BY <1>1, <1>2, <2>2
  <2> QED
    BY <1>1, <2>3 DEF r, v
<1>7. CASE u < q
  <2>1. PICK k \in Nat : q = u + 1 + k
    <3>1. q - u - 1 \in Nat /\ q = u + 1 + (q - u - 1)
      BY <1>1, <1>2, <1>7
    <3> QED
      BY <3>1
  <2>2. P * k \in Nat
    OBVIOUS
  <2>3. P * q = P * u + P + P * k
    BY <1>2, <2>1
  <2> QED
    BY <1>1, <1>2, <1>3, <1>4, <2>2, <2>3
<1>8. CASE u > q + 1
  <2>1. PICK k \in Nat : u = q + 2 + k
    <3>1. u - q - 2 \in Nat /\ u = q + 2 + (u - q - 2)
      BY <1>1, <1>2, <1>8
    <3> QED
      BY <3>1
  <2>2. P * k \in Nat
    OBVIOUS
  <2>3. P * u = P * q + P + P + P * k
    BY <1>1, <2>1
  <2> QED
    BY <1>1, <1>2, <1>3, <1>4, <2>2, <2>3
<1> QED
  BY <1>1, <1>2, <1>5, <1>6, <1>7, <1>8

(***************************************************************************)
(* A trial completes the first population, joins the offspring, or ends a  *)
(* generation.                                                             *)
(***************************************************************************)
LEMMA BreedAdvances ==
    ASSUME NEW N \in Nat, NEW D, Numbered(D, N), NEW o, Keeps(o, D, N),
           o.strategy = "nsga2", NEW t \in Trial(Objectives), t.id = N,
           NEW q, q = Breed(o, t)
    PROVE  Advances(o, q, D \union {t}, N + 1)
<1> DEFINE c == o.population
           P == PopulationSize
           more == Append(o.offspring, t)
           all == ToSet(c) \union ToSet(more)
           next == ById(SelectPopulation(all, P))
<1>1. /\ o \in Optimizer /\ c \in Memory /\ Len(c) \in Nat
      /\ ToSet(c) \subseteq D /\ ToSet(o.offspring) \subseteq D
      /\ Len(o.offspring) < P /\ Len(c) = Min({N, P})
      /\ Distinctly(c) /\ Len(o.offspring) = (N - Min({N, P})) % P
      /\ o.offspring \in Memory
  BY DEF Keeps, Optimizer, Memory, Evolutionary, Generations
<1>2. P \in Nat /\ P >= 4 /\ Min({N, P}) = IF N <= P THEN N ELSE P
  BY FullSize
<1>3. N + 1 \in Nat /\ Min({N + 1, P}) = IF N + 1 <= P THEN N + 1 ELSE P
  BY FullSize
<1>4. Numbered(D \union {t}, N + 1) /\ t \notin D
  BY NumberedMore
<1>5. CASE Len(c) < P
  <2> DEFINE p == Append(c, t)
  <2>1. /\ p \in Memory /\ Len(p) = Len(c) + 1 /\ ToSet(p) = ToSet(c) \union {t}
        /\ Upholds(c, p) /\ Distinctly(p)
    <3>1. t \notin ToSet(c)
      BY <1>1, <1>4
    <3> HIDE DEF c
    <3> QED
      BY <1>1, <3>1, AppendUpholds
  <2>2. q = [o EXCEPT !.population = p]
    BY <1>5 DEF Breed
  <2>3. N < P /\ Len(c) = N /\ Min({N + 1, P}) = N + 1 /\ Min({N, P}) = N
    <3> HIDE DEF c
    <3> QED
      BY <1>1, <1>2, <1>3, <1>5
  <2> HIDE DEF p
  <2>4. /\ q \in Optimizer /\ q.population = p /\ q.offspring = o.offspring
        /\ q.recent = o.recent /\ q.ideal = o.ideal /\ Same(o, q)
    BY <1>1, <2>1, <2>2, WithPopulation
  <2>5. q.strategy = "nsga2"
    BY <2>4 DEF Same
  <2>6. Len(q.offspring) = ((N + 1) - Min({N + 1, P})) % P
    <3>1. N - N = 0 /\ (N + 1) - (N + 1) = 0
      OBVIOUS
    <3> QED
      BY <1>1, <2>3, <2>4, <3>1, Zenon
  <2>7. Generations(q, N + 1)
    BY <2>1, <2>4, <2>6 DEF Generations
  <2>8. Keeps(q, D \union {t}, N + 1)
    <3>1. Len(q.population) = Min({N + 1, P})
      BY <2>1, <2>3, <2>4
    <3>2. ToSet(q.population) \subseteq D \union {t} /\ ToSet(q.offspring) \subseteq D \union {t}
      BY <1>1, <2>1, <2>4
    <3> QED
      BY <1>1, <2>4, <2>5, <2>7, <3>1, <3>2 DEF Keeps
  <2> QED
    BY <2>1, <2>4, <2>8 DEF Advances
<1>6. CASE ~(Len(c) < P)
  <2>1. Len(c) = P /\ P <= N /\ Min({N, P}) = P /\ Min({N + 1, P}) = P
    <3> HIDE DEF c
    <3> QED
      BY <1>1, <1>2, <1>3, <1>6
  <2>2. /\ more \in Memory /\ Len(more) = Len(o.offspring) + 1
        /\ ToSet(more) = ToSet(o.offspring) \union {t}
    BY <1>1, AppendUpholds
  <2>3. Len(o.offspring) = (N - P) % P
    BY <1>1, <2>1
  <2>4. (N + 1) - P = (N - P) + 1 /\ N - P \in Nat /\ P \in Nat \ {0}
    BY <1>2, <2>1
  <2>5. /\ (N - P) % P \in 0 .. P - 1
        /\ ((N - P) + 1) % P = IF ((N - P) % P) + 1 < P THEN ((N - P) % P) + 1 ELSE 0
    BY <2>4, ModStep
  <2>6. ((N + 1) - Min({N + 1, P})) % P = IF Len(more) < P THEN Len(more) ELSE 0
    BY <2>1, <2>2, <2>3, <2>4, <2>5
  <2>7. CASE Len(more) < P
    <3>1. q = [o EXCEPT !.offspring = more]
      BY <1>6, <2>7 DEF Breed
    <3> HIDE DEF more
    <3>2. /\ q \in Optimizer /\ q.population = c /\ q.offspring = more
          /\ q.recent = o.recent /\ q.ideal = o.ideal /\ Same(o, q)
      BY <1>1, <2>2, <3>1 DEF Optimizer, Same
    <3>3. q.strategy = "nsga2"
      BY <3>2 DEF Same
    <3>4. Generations(q, N + 1)
      BY <1>1, <2>6, <2>7, <3>2 DEF Generations
    <3>5. Len(q.population) = Min({N + 1, P})
      BY <2>1, <3>2
    <3>6. ToSet(q.population) \subseteq D \union {t} /\ ToSet(q.offspring) \subseteq D \union {t}
      BY <1>1, <2>2, <3>2
    <3>7. Keeps(q, D \union {t}, N + 1)
      BY <2>7, <3>2, <3>3, <3>4, <3>5, <3>6 DEF Keeps
    <3>8. Upholds(c, c)
      <4>1. \A i \in DOMAIN c : AtLeast(c[i], c[i])
        BY DEF AtLeast
      <4> HIDE DEF c
      <4> QED
        BY <1>1, <4>1, PlacesUphold
    <3> QED
      BY <3>2, <3>7, <3>8 DEF Advances
  <2>8. CASE ~(Len(more) < P)
    <3>1. q = [o EXCEPT !.offspring = <<>>, !.population = next]
      BY <1>6, <2>8 DEF Breed
    <3>2. all \subseteq D \union {t} /\ ToSet(c) \subseteq all
      BY <1>1, <2>2
    <3> HIDE DEF all
    <3>3. /\ all \in SUBSET Trial(Objectives) /\ IsFiniteSet(all)
          /\ \A r, s \in all : r.id = s.id => r = s
      <4>1. /\ D \union {t} \in SUBSET Trial(Objectives) /\ IsFiniteSet(D \union {t})
            /\ \A r, s \in D \union {t} : r.id = s.id => r = s
        BY <1>4 DEF Numbered
      <4>2. all \in SUBSET (D \union {t})
        BY <3>2
      <4> QED
        BY <4>1, <4>2, FS_Subset
    <3>4. /\ next \in Memory /\ Len(next) = Len(c) /\ ToSet(next) \subseteq all
          /\ Distinctly(next) /\ Upholds(c, next)
      <4>1. next = ById(SelectPopulation(all, Len(c)))
        BY <2>1
      <4> HIDE DEF c, next
      <4> QED
        BY <1>1, <3>2, <3>3, <4>1, SelectionUpholds
    <3> HIDE DEF next
    <3>5. <<>> \in Memory /\ Len(<<>>) = 0 /\ ToSet(<<>>) = {}
      BY DEF Memory, ToSet
    <3>6. /\ q \in Optimizer /\ q.population = next /\ q.offspring = <<>>
          /\ q.recent = o.recent /\ q.ideal = o.ideal /\ Same(o, q)
      BY <1>1, <3>1, <3>4, <3>5 DEF Optimizer, Same
    <3>7. q.strategy = "nsga2"
      BY <3>6 DEF Same
    <3>8. Len(q.offspring) = ((N + 1) - Min({N + 1, P})) % P
      BY <2>6, <2>8, <3>5, <3>6
    <3>9. Generations(q, N + 1)
      BY <3>4, <3>6, <3>8 DEF Generations
    <3>10. Len(q.population) = Min({N + 1, P})
      BY <2>1, <3>4, <3>6
    <3>11. ToSet(q.population) \subseteq D \union {t} /\ ToSet(q.offspring) \subseteq D \union {t}
      BY <3>2, <3>4, <3>5, <3>6
    <3>12. Len(q.offspring) < P
      BY <1>2, <3>5, <3>6
    <3>13. Keeps(q, D \union {t}, N + 1)
      BY <3>6, <3>7, <3>9, <3>10, <3>11, <3>12 DEF Keeps
    <3> QED
      BY <3>4, <3>6, <3>13 DEF Advances
  <2> QED
    BY <2>7, <2>8
<1> QED
  BY <1>5, <1>6
-----------------------------------------------------------------------------
(* What the Bayesian optimizer learns.                                     *)

LEMMA RememberedKeeps ==
    ASSUME NEW w \in Memory, NEW E, Windowed(w, E), NEW t \in Trial(Objectives)
    PROVE  Remembered(w, t) \in Memory /\ Windowed(Remembered(w, t), E \union {t})
<1>1. Window \in Nat /\ Window >= 2
  BY OptimizersAssumption
<1>2. Len(w) \in Nat /\ Len(w) < Window /\ ToSet(w) \subseteq E
  BY DEF Windowed, Memory
<1>3. CASE Len(w) < Window - 1
  <2>1. Remembered(w, t) = Append(w, t)
    BY <1>3 DEF Remembered
  <2>2. /\ Append(w, t) \in Memory /\ Len(Append(w, t)) = Len(w) + 1
        /\ ToSet(Append(w, t)) = ToSet(w) \union {t}
    BY AppendUpholds
  <2> QED
    BY <1>1, <1>2, <1>3, <2>1, <2>2 DEF Windowed
<1>4. CASE ~(Len(w) < Window - 1)
  <2> DEFINE s == Tail(w)
  <2>1. Remembered(w, t) = Append(s, t)
    BY <1>4 DEF Remembered
  <2>2. Len(w) = Window - 1 /\ Len(w) >= 1
    BY <1>1, <1>2, <1>4
  <2>3. s \in Memory /\ Len(s) = Len(w) - 1 /\ \A i \in 1 .. Len(s) : s[i] = w[i + 1]
    <3>1. w # <<>> /\ w \in Seq(Trial(Objectives))
      BY <2>2 DEF Memory
    <3> QED
      BY <2>2, <3>1 DEF Memory
  <2>4. ToSet(s) \subseteq ToSet(w)
    <3>1. DOMAIN s = 1 .. Len(s) /\ DOMAIN w = 1 .. Len(w)
      BY <2>3 DEF Memory
    <3>2. \A i \in 1 .. Len(s) : i + 1 \in 1 .. Len(w)
      BY <1>2, <2>3
    <3> HIDE DEF s
    <3> QED
      BY <2>3, <3>1, <3>2 DEF ToSet
  <2> HIDE DEF s
  <2>5. /\ Append(s, t) \in Memory /\ Len(Append(s, t)) = Len(s) + 1
        /\ ToSet(Append(s, t)) = ToSet(s) \union {t}
    BY <2>3, AppendUpholds
  <2> QED
    BY <1>1, <1>2, <2>1, <2>2, <2>3, <2>4, <2>5 DEF Windowed
<1> QED
  BY <1>3, <1>4

\* A trial takes the place of its rival when it is preferred, or a place of its own.
Rivalled(c, t, p) ==
    LET rivals == {i \in DOMAIN c : c[i].feasible = t.feasible}
        better == \A i \in rivals : Lexicographic(PreferenceKey(t), PreferenceKey(c[i]))
    IN  p = IF rivals = {} THEN Append(c, t)
            ELSE [i \in DOMAIN c |-> IF i \in rivals /\ better THEN t ELSE c[i]]

\* The best trial of each kind, when a trial takes the place of a rival.
LEMMA BestOfEachKind ==
    ASSUME NEW N \in Nat, NEW D, Numbered(D, N), NEW o, Keeps(o, D, N), Learns(o, D),
           NEW t \in Trial(Objectives), t.id = N, t.status = "success",
           NEW q \in Optimizer,
           Rivalled(o.population, t, q.population)
    PROVE  /\ Bests(q.population, D \union {t})
           /\ ToSet(q.population) \subseteq D \union {t}
           /\ Upholds(o.population, q.population)
<1> DEFINE c == o.population
           p == q.population
           rivals == {i \in DOMAIN c : c[i].feasible = t.feasible}
           better == \A i \in rivals : Lexicographic(PreferenceKey(t), PreferenceKey(c[i]))
           Ahead(a, b) == Lexicographic(PreferenceKey(a), PreferenceKey(b))
<1>1. /\ c \in Memory /\ Len(c) \in Nat /\ DOMAIN c = 1 .. Len(c) /\ ToSet(c) \subseteq D
      /\ \A i \in DOMAIN c : c[i] \in D
  <2>1. c \in Memory /\ ToSet(c) \subseteq D
    BY DEF Keeps, Optimizer
  <2> HIDE DEF c
  <2> QED
    BY <2>1 DEF Memory, ToSet
<1>2. /\ \A i \in DOMAIN c : c[i].status = "success"
      /\ \A i, j \in DOMAIN c : c[i].feasible = c[j].feasible => i = j
      /\ \A s \in D : s.status = "success" =>
            \E i \in DOMAIN c : c[i].feasible = s.feasible /\ (c[i] = s \/ Preferred(c[i], s))
  BY DEF Learns, Bests
<1>3. D \in SUBSET Trial(Objectives) /\ \A s \in D : s.id # N /\ s.id \in Nat
  BY DEF Numbered
<1>4. \A a, b \in Trial(Objectives) : /\ PreferenceKey(a) \in Seq(Int)
                                     /\ Preferred(a, b) <=> Ahead(a, b)
  BY OptimizersAssumption, KeyDecides, KeyKind
<1>5. p = IF rivals = {} THEN Append(c, t)
          ELSE [i \in DOMAIN c |-> IF i \in rivals /\ better THEN t ELSE c[i]]
  BY Zenon DEF Rivalled
<1>6. CASE rivals = {}
  <2>1. p = Append(c, t)
    BY <1>5, <1>6
  <2>2. \A i \in DOMAIN c : c[i].feasible # t.feasible
    BY <1>6
  <2>3. /\ DOMAIN p = 1 .. Len(c) + 1 /\ \A i \in 1 .. Len(c) : p[i] = c[i]
        /\ p[Len(c) + 1] = t
    <3> HIDE DEF c, p
    <3> QED
      BY <1>1, <2>1, AppendParts DEF Memory
  <2>4. ToSet(p) = ToSet(c) \union {t} /\ Upholds(c, p)
    <3> HIDE DEF c, p
    <3> QED
      BY <1>1, <2>1, AppendUpholds
  <2> HIDE DEF c, p, rivals, better
  <2>5. \A i \in DOMAIN p : p[i].status = "success"
    BY <1>1, <1>2, <2>3
  <2>6. \A i, j \in DOMAIN p : p[i].feasible = p[j].feasible => i = j
    BY <1>1, <1>2, <2>2, <2>3
  <2>7. ASSUME NEW s \in D \union {t}, s.status = "success"
        PROVE  \E i \in DOMAIN p : p[i].feasible = s.feasible /\ (p[i] = s \/ Preferred(p[i], s))
    <3>1. CASE s = t
      <4>1. Len(c) + 1 \in DOMAIN p
        BY <1>1, <2>3
      <4> QED
        BY <2>3, <3>1, <4>1
    <3>2. CASE s \in D
      <4>1. PICK i \in DOMAIN c : c[i].feasible = s.feasible /\ (c[i] = s \/ Preferred(c[i], s))
        BY <1>2, <2>7, <3>2
      <4>2. i \in DOMAIN p /\ p[i] = c[i]
        BY <1>1, <2>3
      <4> QED
        BY <4>1, <4>2
    <3> QED
      BY <3>1, <3>2
  <2> QED
    BY <1>1, <2>4, <2>5, <2>6, <2>7 DEF c, p, Bests
<1>7. CASE rivals # {}
  <2> DEFINE Taken(i) == i \in rivals /\ better
  <2>1. p = [i \in DOMAIN c |-> IF Taken(i) THEN t ELSE c[i]]
    BY <1>5, <1>7
  <2>2. \A i \in DOMAIN c : Taken(i) => c[i].feasible = t.feasible /\ Ahead(t, c[i])
    OBVIOUS
  <2>3. better \/ \E i \in rivals : ~Ahead(t, c[i])
    OBVIOUS
  <2>4. \A i \in rivals : i \in DOMAIN c /\ c[i].feasible = t.feasible
    OBVIOUS
  <2>5. \A i \in DOMAIN c : Taken(i) => AtLeast(t, c[i])
    <3>1. \A i \in DOMAIN c : c[i] \in Trial(Objectives)
      BY <1>1, <1>3
    <3> HIDE DEF Taken, c
    <3> QED
      BY <2>2, <3>1, PreferredIsAtLeast
  <2>6. better => \A i \in rivals : Taken(i)
    OBVIOUS
  <2>7. ~better => \A i \in DOMAIN c : ~Taken(i)
    OBVIOUS
  <2> HIDE DEF c, p, rivals, better, Taken
  <2>8. DOMAIN p = DOMAIN c /\ p = [i \in DOMAIN c |-> p[i]]
        /\ \A i \in DOMAIN c : p[i] = IF Taken(i) THEN t ELSE c[i]
    BY <2>1
  <2>9. \A i \in DOMAIN c : p[i] = c[i] \/ (p[i] = t /\ AtLeast(t, c[i]))
    BY <2>5, <2>8
  <2>10. ToSet(p) \subseteq ToSet(c) \union {t} /\ Upholds(c, p)
    BY <1>1, <2>8, <2>9, ReplacedUpholds
  <2>11. \A i \in DOMAIN p : p[i].status = "success" /\ p[i].feasible = c[i].feasible
    BY <1>2, <2>2, <2>8
  <2>12. \A i, j \in DOMAIN p : p[i].feasible = p[j].feasible => i = j
    BY <1>2, <2>8, <2>11
  <2>13. ASSUME NEW s \in D \union {t}, s.status = "success"
         PROVE  \E i \in DOMAIN p : p[i].feasible = s.feasible /\ (p[i] = s \/ Preferred(p[i], s))
    <3>1. CASE s = t
      <4>1. CASE better
        <5>1. PICK i \in rivals : TRUE
          BY <1>7
        <5>2. i \in DOMAIN p /\ p[i] = t
          BY <2>4, <2>6, <2>8, <4>1
        <5> QED
          BY <3>1, <5>2
      <4>2. CASE ~better
        <5>1. PICK i \in rivals : ~Ahead(t, c[i])
          BY <2>3, <4>2
        <5>2. i \in DOMAIN c /\ c[i] \in D /\ c[i].feasible = t.feasible /\ p[i] = c[i]
          BY <1>1, <2>4, <2>7, <2>8, <4>2
        <5>3. c[i].id # t.id /\ c[i] \in Trial(Objectives)
          BY <1>3, <5>2
        <5>4. Ahead(c[i], t)
          BY <5>1, <5>3, OptimizersAssumption, IdentityDecides
        <5>5. Preferred(c[i], t)
          BY <1>4, <5>3, <5>4
        <5> QED
          BY <2>8, <3>1, <5>2, <5>5
      <4> QED
        BY <4>1, <4>2
    <3>2. CASE s \in D
      <4>1. PICK i \in DOMAIN c : c[i].feasible = s.feasible /\ (c[i] = s \/ Preferred(c[i], s))
        BY <1>2, <2>13, <3>2
      <4>2. i \in DOMAIN p /\ p[i].feasible = s.feasible
        BY <2>8, <2>11, <4>1
      <4>3. CASE ~Taken(i)
        BY <2>8, <4>1, <4>2, <4>3
      <4>4. CASE Taken(i)
        <5>1. p[i] = t /\ Ahead(t, c[i])
          BY <2>2, <2>8, <4>4
        <5>2. c[i] \in Trial(Objectives) /\ s \in Trial(Objectives)
          BY <1>1, <1>3, <3>2
        <5>3. CASE c[i] = s
          BY <1>4, <4>2, <5>1, <5>2, <5>3
        <5>4. CASE Preferred(c[i], s)
          <6>1. Ahead(c[i], s)
            BY <5>2, <5>4, OptimizersAssumption, KeyDecides
          <6>2. Ahead(t, s)
            <7>1. /\ PreferenceKey(t) \in Seq(Int) /\ PreferenceKey(c[i]) \in Seq(Int)
                  /\ PreferenceKey(s) \in Seq(Int)
              BY <5>2, OptimizersAssumption, KeyKind
            <7> QED
              BY <5>1, <6>1, <7>1, LexicographicTransitive
          <6>3. Preferred(t, s)
            BY <1>4, <5>2, <6>2
          <6> QED
            BY <4>2, <5>1, <6>3
        <5> QED
          BY <4>1, <5>3, <5>4
      <4> QED
        BY <4>3, <4>4
    <3> QED
      BY <3>1, <3>2
  <2> QED
    BY <1>1, <2>10, <2>11, <2>12, <2>13 DEF c, p, Bests
<1> QED
  BY <1>6, <1>7


\* Windows of more trials.
LEMMA WindowGrows ==
    ASSUME NEW w, NEW E, NEW F, Windowed(w, E), E \subseteq F
    PROVE  Windowed(w, F)
BY DEF Windowed

\* A trial of a kind joins the window of its kind.
Enlists(o, t, p, q) ==
    LET kind == IF t.feasible THEN "feasible" ELSE "infeasible"
    IN  q = [o EXCEPT !.recent[kind] = Remembered(@, t), !.population = p]

LEMMA RecentKeeps ==
    ASSUME NEW o \in Optimizer, NEW D, Learns(o, D),
           NEW t \in Trial(Objectives), t.status = "success", t.feasible \in BOOLEAN,
           NEW p \in Memory, NEW q, Enlists(o, t, p, q)
    PROVE  /\ q \in Optimizer /\ q.population = p /\ q.offspring = o.offspring /\ Same(o, q)
           /\ Windows(q.recent, D \union {t})
<1> DEFINE f == o.recent.feasible
           g == o.recent.infeasible
           F(E) == {s \in E : s.status = "success" /\ s.feasible}
           G(E) == {s \in E : s.status = "success" /\ ~s.feasible}
           M == D \union {t}
           kind == IF t.feasible THEN "feasible" ELSE "infeasible"
<1>0. q = [o EXCEPT !.recent[kind] = Remembered(@, t), !.population = p]
  BY Zenon DEF Enlists
<1>1. /\ o.recent \in [feasible : Memory, infeasible : Memory] /\ f \in Memory /\ g \in Memory
      /\ Windowed(f, F(D)) /\ Windowed(g, G(D))
  BY DEF Optimizer, Learns, Windows
<1>2. F(D) \subseteq F(M) /\ G(D) \subseteq G(M)
  OBVIOUS
<1>3. CASE t.feasible
  <2> DEFINE w == Remembered(f, t)
             new == [feasible |-> w, infeasible |-> g]
  <2>1. kind = "feasible"
    BY <1>3
  <2>2. w \in Memory /\ Windowed(w, F(D) \union {t})
    BY <1>1, RememberedKeeps
  <2>3. F(D) \union {t} \subseteq F(M)
    BY <1>3
  <2>4. Windowed(w, F(M)) /\ Windowed(g, G(M))
    <3> HIDE DEF F, G, w, f, g, M
    <3> QED
      BY <1>1, <1>2, <2>2, <2>3, WindowGrows
  <2>5. o.recent["feasible"] = f
    OBVIOUS
  <2> HIDE DEF w
  <2>6. [o.recent EXCEPT !["feasible"] = w] = new
    BY <1>1
  <2>7. q = [o EXCEPT !.recent = new, !.population = p]
    <3>1. q = [o EXCEPT !.recent = [o.recent EXCEPT !["feasible"] = w], !.population = p]
      BY <1>0, <2>1, <2>5 DEF w
    <3> QED
      BY <2>6, <3>1
  <2>8. new \in [feasible : Memory, infeasible : Memory]
    BY <1>1, <2>2
  <2>9. new.feasible = w /\ new.infeasible = g
    OBVIOUS
  <2> HIDE DEF new, F, G, f, g
  <2>10. q \in Optimizer /\ q.population = p /\ q.offspring = o.offspring /\ Same(o, q)
         /\ q.recent = new
    BY <2>7, <2>8 DEF Optimizer, Same
  <2> QED
    BY <2>4, <2>9, <2>10 DEF F, G, Windows
<1>4. CASE ~t.feasible
  <2> DEFINE w == Remembered(g, t)
             new == [feasible |-> f, infeasible |-> w]
  <2>1. kind = "infeasible"
    BY <1>4
  <2>2. w \in Memory /\ Windowed(w, G(D) \union {t})
    BY <1>1, RememberedKeeps
  <2>3. G(D) \union {t} \subseteq G(M)
    BY <1>4
  <2>4. Windowed(w, G(M)) /\ Windowed(f, F(M))
    <3> HIDE DEF F, G, w, f, g, M
    <3> QED
      BY <1>1, <1>2, <2>2, <2>3, WindowGrows
  <2>5. o.recent["infeasible"] = g
    OBVIOUS
  <2> HIDE DEF w
  <2>6. [o.recent EXCEPT !["infeasible"] = w] = new
    BY <1>1
  <2>7. q = [o EXCEPT !.recent = new, !.population = p]
    <3>1. q = [o EXCEPT !.recent = [o.recent EXCEPT !["infeasible"] = w], !.population = p]
      BY <1>0, <2>1, <2>5 DEF w
    <3> QED
      BY <2>6, <3>1
  <2>8. new \in [feasible : Memory, infeasible : Memory]
    BY <1>1, <2>2
  <2>9. new.feasible = f /\ new.infeasible = w
    OBVIOUS
  <2> HIDE DEF new, F, G, f, g
  <2>10. q \in Optimizer /\ q.population = p /\ q.offspring = o.offspring /\ Same(o, q)
         /\ q.recent = new
    BY <2>7, <2>8 DEF Optimizer, Same
  <2> QED
    BY <2>4, <2>9, <2>10 DEF F, G, Windows
<1> QED
  BY <1>3, <1>4


\* A memory upholds itself.
LEMMA UpholdsItself ==
    ASSUME NEW p \in Memory
    PROVE  Upholds(p, p)
BY PlacesUphold DEF AtLeast

(***************************************************************************)
(* The Bayesian optimizer forgets recent trials but never the best one of  *)
(* a kind.                                                                 *)
(***************************************************************************)
LEMMA LearnAdvances ==
    ASSUME NEW N \in Nat, NEW D, Numbered(D, N), NEW o, Keeps(o, D, N),
           o.strategy = "bayes", NEW t \in Trial(Objectives), t.id = N,
           NEW q, q = Learn(o, t)
    PROVE  Advances(o, q, D \union {t}, N + 1)
<1> DEFINE c == o.population
           rivals == {i \in DOMAIN c : c[i].feasible = t.feasible}
           better == \A i \in rivals : Lexicographic(PreferenceKey(t), PreferenceKey(c[i]))
           p == IF rivals = {} THEN Append(c, t)
                ELSE [i \in DOMAIN c |-> IF i \in rivals /\ better THEN t ELSE c[i]]
           kind == IF t.feasible THEN "feasible" ELSE "infeasible"
           M == D \union {t}
<1>1. /\ o \in Optimizer /\ c \in Memory /\ ToSet(c) \subseteq D /\ ToSet(o.offspring) \subseteq D
      /\ Len(o.offspring) < PopulationSize /\ Learns(o, D)
  BY DEF Keeps, Optimizer
<1>2. t.status \in {"success", "failed"} /\ t.feasible \in BOOLEAN
  <2>1. t.status \in {"success", "failed"}
    BY DEF Trial, Successful, Unsuccessful
  <2> QED
    BY <2>1, OptimizersAssumption, TrialTypes
<1>3. CASE t.status = "failed"
  <2>1. q = o
    BY <1>3 DEF Learn
  <2>2. /\ \A s \in M : s.status = "success" => s \in D
        /\ {s \in D : s.status = "success" /\ s.feasible}
              \subseteq {s \in M : s.status = "success" /\ s.feasible}
        /\ {s \in D : s.status = "success" /\ ~s.feasible}
              \subseteq {s \in M : s.status = "success" /\ ~s.feasible}
    BY <1>3
  <2>3. Learns(o, M)
    BY <1>1, <2>2, WindowGrows DEF Learns, Bests, Windows
  <2>4. Same(o, o)
    BY DEF Same
  <2>5. Keeps(q, M, N + 1)
    BY <1>1, <2>1, <2>3 DEF Keeps, Evolutionary
  <2> QED
    BY <1>1, <2>1, <2>4, <2>5, UpholdsItself DEF Advances
<1>4. CASE t.status = "success"
  <2>1. q = [o EXCEPT !.recent[kind] = Remembered(@, t), !.population = p]
    BY <1>4, Zenon DEF Learn
  <2>2. p \in Memory
    <3>1. CASE rivals = {}
      <4>1. p = Append(c, t)
        BY <3>1
      <4> HIDE DEF p, c
      <4> QED
        BY <1>1, <4>1, AppendUpholds
    <3>2. CASE rivals # {}
      <4> DEFINE Taken(i) == i \in rivals /\ better
      <4>1. p = [i \in DOMAIN c |-> IF Taken(i) THEN t ELSE c[i]]
        BY <3>2
      <4>2. DOMAIN c = 1 .. Len(c) /\ Len(c) \in Nat /\ \A i \in DOMAIN c : c[i] \in Trial(Objectives)
        BY <1>1 DEF Memory
      <4> HIDE DEF Taken, p, c
      <4>3. p \in [1 .. Len(c) -> Trial(Objectives)]
        BY <4>1, <4>2
      <4> QED
        BY <4>2, <4>3 DEF Memory
    <3> QED
      BY <3>1, <3>2
  <2> HIDE DEF p
  <2>3. Enlists(o, t, p, q)
    BY <2>1, Zenon DEF Enlists
  <2>4. /\ q \in Optimizer /\ q.population = p /\ q.offspring = o.offspring /\ Same(o, q)
        /\ Windows(q.recent, M)
    BY <1>1, <1>2, <1>4, <2>1, <2>2, <2>3, RecentKeeps
  <2>5. Rivalled(c, t, q.population)
    BY <2>4, Zenon DEF p, Rivalled
  <2>6. /\ Bests(q.population, M) /\ ToSet(q.population) \subseteq M
        /\ Upholds(o.population, q.population)
    BY <1>1, <1>4, <2>4, <2>5, BestOfEachKind
  <2>7. Learns(q, M)
    BY <2>4, <2>6 DEF Learns
  <2>8. q.strategy = "bayes"
    BY <2>4 DEF Same
  <2>9. Len(q.offspring) < PopulationSize /\ ToSet(q.offspring) \subseteq M
    BY <1>1, <2>4
  <2>10. Keeps(q, M, N + 1)
    BY <2>4, <2>6, <2>7, <2>8, <2>9 DEF Keeps, Evolutionary
  <2> QED
    BY <2>4, <2>6, <2>10 DEF Advances
<1> QED
  BY <1>2, <1>3, <1>4

\* Random search and the generator of weave keep nothing.
LEMMA IdleAdvances ==
    ASSUME NEW N \in Nat, NEW D, NEW o, Keeps(o, D, N),
           o.strategy \in {"weave", "random"}, NEW t
    PROVE  Advances(o, o, D \union {t}, N + 1)
<1>1. o.population \in Memory /\ Same(o, o)
  BY DEF Keeps, Optimizer, Same
<1>2. Upholds(o.population, o.population)
  BY <1>1, UpholdsItself
<1>3. Keeps(o, D \union {t}, N + 1)
  BY DEF Keeps, Evolutionary
<1> QED
  BY <1>1, <1>2, <1>3 DEF Advances

(***************************************************************************)
(* What every strategy of the catalog makes of a trial.                    *)
(***************************************************************************)
LEMMA LearnedAdvances ==
    ASSUME NEW N \in Nat, NEW D, Numbered(D, N), NEW o, Keeps(o, D, N),
           NEW slot, SlotFits(o, slot), NEW t \in Trial(Objectives), t.id = N,
           NEW q \in Learned(o, slot, t)
    PROVE  Advances(o, q, D \union {t}, N + 1)
<1>1. o.strategy \in AllStrategies
  BY DEF Keeps, Optimizer
<1>2. CASE o.strategy \in {"weave", "random"}
  <2>1. q = o
    BY <1>2 DEF Learned
  <2> QED
    BY <1>2, <2>1, IdleAdvances
<1>3. CASE o.strategy = "sa"
  <2>1. \E p \in Anneal(o.population, t) : q = [o EXCEPT !.population = p]
    BY <1>3 DEF Learned
  <2> QED
    BY <1>3, <2>1, AnnealAdvances
<1>4. CASE o.strategy \in {"de", "pso"}
  <2>1. q = [o EXCEPT !.population = Survive(@, slot, t)]
    BY <1>4 DEF Learned
  <2> QED
    BY <1>4, <2>1, SurviveAdvances
<1>5. CASE o.strategy = "moead"
  <2>1. q = Decompose(o, slot, t)
    BY <1>5 DEF Learned
  <2> QED
    BY <1>5, <2>1, DecomposeAdvances
<1>6. CASE o.strategy = "nsga2"
  <2>1. q = Breed(o, t)
    BY <1>6 DEF Learned
  <2> QED
    BY <1>6, <2>1, BreedAdvances
<1>7. CASE o.strategy = "bayes"
  <2>1. q = Learn(o, t)
    BY <1>7 DEF Learned
  <2> QED
    BY <1>7, <2>1, LearnAdvances
<1> QED
  BY <1>1, <1>2, <1>3, <1>4, <1>5, <1>6, <1>7 DEF AllStrategies
-----------------------------------------------------------------------------
(* A batch that is told.                                                   *)

\* The trials of a batch, the first of which is the N-th of the run.
Batch(batch, N) == batch \in Memory /\ \A i \in DOMAIN batch : batch[i].id = (N + i) - 1

FirstOf(batch, n) == {batch[i] : i \in 1 .. n}

\* An optimizer that was told some of a batch.
Learning(o, D, N, batch, n, p) ==
    /\ Keeps(p, D \union FirstOf(batch, n), N + n)
    /\ p.strategy = o.strategy /\ p.walk = o.walk /\ p.slots = o.slots
    /\ p.next = o.next /\ p.cursor = o.cursor /\ p.observed = o.observed + n
    /\ Upholds(o.population, p.population)

OneTold(o, batch, n, p) ==
    {[next EXCEPT !.observed = @ + 1] : next \in Learned(p, o.slots[n], batch[n])}

LEMMA SlotsFit ==
    ASSUME NEW N \in Nat, NEW D, NEW o, Keeps(o, D, N), Planned(o, o.slots),
           NEW n \in 1 .. Len(o.slots), NEW E, NEW p, Keeps(p, E, (N + n) - 1),
           p.strategy = o.strategy
    PROVE  SlotFits(p, o.slots[n])
<1> DEFINE M == (N + n) - 1
           P == PopulationSize
<1>1. /\ o \in Optimizer /\ o.slots \in Seq(0 .. P) /\ n \in Nat \ {0} /\ M \in Nat
      /\ n \in DOMAIN o.slots /\ n <= Len(o.slots) /\ Len(o.slots) \in Nat
  BY DEF Keeps, Optimizer
<1>2. o.slots[n] \in 0 .. P
  <2> DEFINE s == o.slots
             S == 0 .. P
  <2>1. s \in Seq(S) /\ n \in DOMAIN s
    BY <1>1
  <2> HIDE DEF s, S
  <2>2. s[n] \in S
    BY <2>1
  <2> QED
    BY <2>2 DEF s, S
<1>3. ASSUME o.strategy \in Slotted PROVE (o.slots[n] = 0) = (Missing(p) > 0)
  <2>1. o.strategy \in Evolutionary
    BY <1>3 DEF Slotted, Evolutionary
  <2>2. Len(o.population) = Min({N, P}) /\ Len(p.population) = Min({M, P})
    BY <2>1 DEF Keeps
  <2>3. /\ P \in Nat /\ P >= 4
        /\ Len(o.population) = IF N <= P THEN N ELSE P
        /\ Len(p.population) = IF M <= P THEN M ELSE P
    BY <1>1, <2>2, FullSize
  <2>4. Missing(o) = P - Len(o.population) /\ Missing(p) = P - Len(p.population)
    BY DEF Missing
  <2>5. CASE Missing(o) <= 0
    <3>1. o.slots[n] # 0
      BY <1>1, <1>3, <2>5 DEF Planned
    <3>2. P <= N
      BY <2>3, <2>4, <2>5
    <3>3. ~(Missing(p) > 0)
      BY <1>1, <2>3, <2>4, <3>2
    <3> QED
      BY <3>1, <3>3
  <2>6. CASE ~(Missing(o) <= 0)
    <3>1. o.slots[n] = 0 /\ Len(o.slots) <= Missing(o)
      BY <1>1, <1>3, <2>6 DEF Planned
    <3>2. N < P /\ Missing(o) = P - N
      BY <2>3, <2>4, <2>6
    <3>3. M < P
      BY <1>1, <2>3, <3>1, <3>2
    <3>4. Missing(p) > 0
      BY <1>1, <2>3, <2>4, <3>3
    <3> QED
      BY <3>1, <3>4
  <2> QED
    BY <2>5, <2>6
<1> QED
  BY <1>2, <1>3 DEF SlotFits

LEMMA FirstOfNumbered ==
    ASSUME NEW N \in Nat, NEW D, Numbered(D, N), NEW batch, Batch(batch, N),
           NEW n \in 0 .. Len(batch)
    PROVE  Numbered(D \union FirstOf(batch, n), N + n)
<1>1. /\ Len(batch) \in Nat /\ DOMAIN batch = 1 .. Len(batch)
      /\ \A i \in 1 .. Len(batch) : batch[i] \in Trial(Objectives) /\ batch[i].id = (N + i) - 1
  BY DEF Batch, Memory
<1> DEFINE F(k) == D \union FirstOf(batch, k)
           Good == {k \in 0 .. Len(batch) : Numbered(F(k), N + k)}
<1>2. 0 \in Good
  <2>1. F(0) = D /\ N + 0 = N /\ 0 \in 0 .. Len(batch)
    BY <1>1 DEF FirstOf
  <2> QED
    BY <2>1
<1>3. ASSUME NEW k \in 1 .. Len(batch), k - 1 \in Good PROVE k \in Good
  <2>1. F(k) = F(k - 1) \union {batch[k]}
    <3>1. 1 .. k = (1 .. k - 1) \union {k}
      BY <1>1
    <3> QED
      BY <3>1 DEF FirstOf
  <2>2. N + (k - 1) \in Nat /\ (N + (k - 1)) + 1 = N + k /\ batch[k].id = N + (k - 1)
        /\ k \in 0 .. Len(batch)
    BY <1>1
  <2>3. Numbered(F(k - 1), N + (k - 1)) /\ batch[k] \in Trial(Objectives)
    BY <1>1, <1>3
  <2> HIDE DEF F
  <2>4. Numbered(F(k - 1) \union {batch[k]}, (N + (k - 1)) + 1)
    BY <2>2, <2>3, NumberedMore
  <2>5. Numbered(F(k), N + k)
    BY <2>1, <2>2, <2>4
  <2> QED
    BY <2>2, <2>5
<1> HIDE DEF Good
<1>4. \A k \in 0 .. Len(batch) : k \in Good
  BY <1>1, <1>2, <1>3, RoundsKeep
<1>5. n \in Good
  BY <1>4
<1> QED
  BY <1>5 DEF Good

LEMMA OneToldLearns ==
    ASSUME NEW N \in Nat, NEW D, Numbered(D, N), NEW o, Keeps(o, D, N), Planned(o, o.slots),
           NEW batch, Batch(batch, N), Len(o.slots) = Len(batch),
           NEW n \in 1 .. Len(batch), NEW p, Learning(o, D, N, batch, n - 1, p),
           NEW q \in OneTold(o, batch, n, p)
    PROVE  Learning(o, D, N, batch, n, q)
<1> DEFINE E == D \union FirstOf(batch, n - 1)
           M == (N + n) - 1
           t == batch[n]
<1>1. /\ Len(batch) \in Nat /\ n \in Nat /\ n - 1 \in 0 .. Len(batch) /\ M \in Nat
      /\ N + (n - 1) = M /\ M + 1 = N + n /\ (n - 1) + 1 = n
      /\ t \in Trial(Objectives) /\ t.id = M
  <2>1. batch \in Seq(Trial(Objectives))
    BY DEF Batch, Memory
  <2>2. n \in DOMAIN batch
    BY <2>1
  <2> QED
    BY <2>1, <2>2 DEF Batch
<1>2. D \union FirstOf(batch, n) = E \union {t}
  <2>1. 1 .. n = (1 .. n - 1) \union {n}
    BY <1>1
  <2> QED
    BY <2>1 DEF FirstOf
<1>3. Numbered(E, M)
  <2>1. Numbered(D \union FirstOf(batch, n - 1), N + (n - 1))
    BY <1>1, FirstOfNumbered
  <2> QED
    BY <1>1, <2>1
<1>4. /\ Keeps(p, E, M) /\ p.strategy = o.strategy /\ p.walk = o.walk /\ p.slots = o.slots
      /\ p.next = o.next /\ p.cursor = o.cursor /\ p.observed = o.observed + (n - 1)
      /\ Upholds(o.population, p.population)
  BY <1>1 DEF Learning
<1>5. SlotFits(p, o.slots[n])
  BY <1>4, SlotsFit
<1>6. PICK next \in Learned(p, o.slots[n], t) : q = [next EXCEPT !.observed = @ + 1]
  BY DEF OneTold
<1> HIDE DEF E, M, t
<1>7. Advances(p, next, E \union {t}, M + 1)
  BY <1>1, <1>3, <1>4, <1>5, LearnedAdvances
<1>8. Keeps(next, E \union {t}, M + 1) /\ Same(p, next) /\ Upholds(p.population, next.population)
  BY <1>7 DEF Advances
<1>9. next \in Optimizer /\ p \in Optimizer /\ o \in Optimizer
  BY <1>4, <1>8 DEF Keeps
<1>10. next.observed \in Nat /\ o.observed \in Nat
  BY <1>9 DEF Optimizer
<1>11. /\ q \in Optimizer /\ q.strategy = next.strategy /\ q.walk = next.walk
       /\ q.slots = next.slots /\ q.next = next.next /\ q.cursor = next.cursor
       /\ q.population = next.population /\ q.offspring = next.offspring
       /\ q.recent = next.recent /\ q.ideal = next.ideal /\ q.observed = next.observed + 1
  <2> DEFINE k == next.observed + 1
  <2>1. k \in Nat /\ q = [next EXCEPT !.observed = k]
    BY <1>6, <1>10
  <2> HIDE DEF k
  <2>2. q \in Optimizer
    BY <1>9, <2>1 DEF Optimizer
  <2>3. q.observed = k
    BY <1>9, <2>1 DEF Optimizer
  <2>4. /\ q.strategy = next.strategy /\ q.walk = next.walk
        /\ q.slots = next.slots /\ q.next = next.next /\ q.cursor = next.cursor
        /\ q.population = next.population /\ q.offspring = next.offspring
        /\ q.recent = next.recent /\ q.ideal = next.ideal
    BY <1>9, <2>1 DEF Optimizer
  <2> QED
    BY <2>2, <2>3, <2>4 DEF k
<1>12. Keeps(q, E \union {t}, M + 1)
  BY <1>8, <1>11 DEF Keeps, Generations, Learns
<1>13. q.observed = o.observed + n
  BY <1>1, <1>4, <1>8, <1>10, <1>11 DEF Same
<1>14. Upholds(o.population, q.population)
  <2>1. o.population \in Memory /\ p.population \in Memory /\ next.population \in Memory
    BY <1>9 DEF Optimizer
  <2> QED
    BY <1>4, <1>8, <1>11, <2>1, UpholdsIsTransitive
<1> QED
  BY <1>1, <1>2, <1>4, <1>8, <1>11, <1>12, <1>13, <1>14 DEF Learning, Same


LEMMA ToldLearns ==
    ASSUME NEW N \in Nat, NEW D, Numbered(D, N), NEW o, Keeps(o, D, N), Planned(o, o.slots),
           NEW batch, Batch(batch, N), Len(o.slots) = Len(batch),
           NEW q \in Told(o, batch)
    PROVE  \E p : Learning(o, D, N, batch, Len(batch), p) /\ q = [p EXCEPT !.slots = <<>>]
<1> DEFINE L == Len(batch)
           X == Optimizer
           Looped(it) == it = [n \in 0 .. L |->
                IF n = 0 THEN {o}
                ELSE UNION {{[next EXCEPT !.observed = @ + 1] :
                                next \in Learned(p, o.slots[n], batch[n])} : p \in it[n - 1]}]
           it == CHOOSE it : Looped(it)
           Fine(n) == {p \in X : Learning(o, D, N, batch, n, p)}
<1>0. L \in Nat
  BY DEF Batch, Memory
<1>1. q \in {[p EXCEPT !.slots = <<>>] : p \in it[L]}
  BY Zenon DEF Told
<1>2. ASSUME NEW f
      PROVE  Looped(f) <=> f = [n \in 0 .. L |->
                IF n = 0 THEN {o} ELSE UNION {OneTold(o, batch, n, p) : p \in f[n - 1]}]
  BY Zenon DEF OneTold
<1> HIDE DEF L, Looped
<1>3. \A n \in 1 .. L : n - 1 \in 0 .. L /\ n \in 0 .. L /\ n # 0
  BY <1>0
<1>4. o \in Fine(0)
  <2>1. FirstOf(batch, 0) = {} /\ N + 0 = N
    BY DEF FirstOf
  <2>2. D \union FirstOf(batch, 0) = D
    BY <2>1
  <2>3. o \in Optimizer /\ o.observed + 0 = o.observed /\ Upholds(o.population, o.population)
    BY UpholdsItself DEF Keeps, Optimizer
  <2> QED
    BY <2>1, <2>2, <2>3 DEF Learning
<1>5. ASSUME NEW n \in 1 .. L, NEW p \in Fine(n - 1), NEW r \in OneTold(o, batch, n, p)
      PROVE  r \in Fine(n)
  <2>1. Learning(o, D, N, batch, n, r)
    BY OneToldLearns DEF L
  <2> QED
    BY <2>1 DEF Learning, Keeps
<1> HIDE DEF Fine
<1>6. \A n \in 0 .. L : Fine(n) \subseteq X
  BY DEF Fine
<1>7. \E f : Looped(f)
  <2> DEFINE G == [p \in (1 .. L) \X X |-> OneTold(o, batch, p[1], p[2]) \intersect X]
  <2>1. G \in [(1 .. L) \X X -> SUBSET X]
    OBVIOUS
  <2>2. ASSUME NEW n \in 1 .. L, NEW a \in X
        PROVE  G[<<n, a>>] = OneTold(o, batch, n, a) \intersect X
    <3> HIDE DEF X
    <3> QED
      OBVIOUS
  <2> HIDE DEF G
  <2>3. o \in X
    BY <1>4, <1>6, <1>0
  <2> HIDE DEF X
  <2>4. PICK f \in [0 .. L -> SUBSET X] : Spreads(f, L, o, G)
    BY <1>0, <2>1, <2>3, SpreadsExist
  <2>5. \A r \in 0 .. L : f[r] = IF r = 0 THEN {o} ELSE UNION {G[<<r, a>>] : a \in f[r - 1]}
    BY <2>4, Zenon DEF Spreads
  <2> DEFINE Good == {r \in 0 .. L : f[r] \subseteq Fine(r)}
  <2>6. 0 \in Good
    <3>1. 0 \in 0 .. L
      BY <1>0
    <3> QED
      BY <1>4, <2>5, <3>1
  <2>7. ASSUME NEW r \in 1 .. L, f[r - 1] \subseteq Fine(r - 1)
        PROVE  /\ f[r] = UNION {OneTold(o, batch, r, a) : a \in f[r - 1]}
               /\ f[r] \subseteq Fine(r)
    <3>1. \A a \in f[r - 1] : OneTold(o, batch, r, a) \subseteq Fine(r)
      BY <1>5, <2>7
    <3>2. \A a \in f[r - 1] : a \in X /\ OneTold(o, batch, r, a) \subseteq X
      BY <1>3, <1>6, <2>7, <3>1
    <3>3. \A a \in f[r - 1] : G[<<r, a>>] = OneTold(o, batch, r, a)
      BY <2>2, <3>2
    <3>4. f[r] = UNION {G[<<r, a>>] : a \in f[r - 1]}
      BY <1>3, <2>5
    <3>5. f[r] = UNION {OneTold(o, batch, r, a) : a \in f[r - 1]}
      BY <3>3, <3>4
    <3> QED
      BY <3>1, <3>5
  <2>8. \A r \in 1 .. L : r - 1 \in Good => r \in Good
    BY <1>3, <2>7
  <2> HIDE DEF Good
  <2>9. \A r \in 0 .. L : r \in Good
    BY <1>0, <2>6, <2>8, RoundsKeep
  <2>10. \A r \in 0 .. L : f[r] \subseteq Fine(r)
    BY <2>9 DEF Good
  <2>11. ASSUME NEW n \in 0 .. L
         PROVE  f[n] = IF n = 0 THEN {o} ELSE UNION {OneTold(o, batch, n, p) : p \in f[n - 1]}
    <3>1. CASE n = 0
      BY <2>5, <3>1
    <3>2. CASE n # 0
      <4>1. n \in 1 .. L /\ n - 1 \in 0 .. L
        BY <1>0, <3>2
      <4>2. f[n] = UNION {OneTold(o, batch, n, a) : a \in f[n - 1]}
        BY <2>7, <2>10, <4>1
      <4> QED
        BY <3>2, <4>2
    <3> QED
      BY <3>1, <3>2
  <2> DEFINE old == [n \in 0 .. L |-> f[n]]
             new == [n \in 0 .. L |->
                IF n = 0 THEN {o} ELSE UNION {OneTold(o, batch, n, p) : p \in f[n - 1]}]
  <2>12. f = old
    BY <2>4
  <2>13. old = new
    BY <2>11, Zenon
  <2> QED
    BY <1>2, <2>12, <2>13, Zenon
<1>8. Looped(it)
  BY <1>7, Zenon
<1> HIDE DEF it
<1>9. \A n \in 0 .. L :
        it[n] = IF n = 0 THEN {o} ELSE UNION {OneTold(o, batch, n, p) : p \in it[n - 1]}
  BY <1>2, <1>8, Zenon
<1> DEFINE Good == {n \in 0 .. L : it[n] \subseteq Fine(n)}
<1>10. 0 \in Good
  <2>1. 0 \in 0 .. L
    BY <1>0
  <2> QED
    BY <1>4, <1>9, <2>1
<1>11. ASSUME NEW n \in 1 .. L, n - 1 \in Good PROVE n \in Good
  <2>1. it[n] = UNION {OneTold(o, batch, n, p) : p \in it[n - 1]}
    BY <1>3, <1>9
  <2>2. \A p \in it[n - 1] : OneTold(o, batch, n, p) \subseteq Fine(n)
    BY <1>5, <1>11
  <2> QED
    BY <1>3, <2>1, <2>2
<1> HIDE DEF Good
<1>12. \A n \in 0 .. L : n \in Good
  BY <1>0, <1>10, <1>11, RoundsKeep
<1>13. it[L] \subseteq Fine(L)
  BY <1>0, <1>12 DEF Good
<1>14. PICK p \in it[L] : q = [p EXCEPT !.slots = <<>>]
  BY <1>1
<1>15. Learning(o, D, N, batch, L, p)
  BY <1>13, <1>14 DEF Fine
<1> QED
  BY <1>14, <1>15 DEF L

(***************************************************************************)
(* What tell() of a batch makes of an optimizer: what it keeps fits the    *)
(* trials of the run with those of the batch, and no kind is given up.     *)
(***************************************************************************)
Follows(o, D, N, q) ==
    /\ Keeps(q, D, N) /\ q.strategy = o.strategy /\ q.walk = o.walk /\ q.slots = <<>>
    /\ q.next = o.next /\ q.cursor = o.cursor /\ Upholds(o.population, q.population)

LEMMA ToldFollows ==
    ASSUME NEW N \in Nat, NEW D, Numbered(D, N), NEW o, Keeps(o, D, N), Planned(o, o.slots),
           NEW batch, Batch(batch, N), Len(o.slots) = Len(batch),
           NEW q \in Told(o, batch)
    PROVE  /\ Follows(o, D \union ToSet(batch), N + Len(batch), q)
           /\ q.observed = o.observed + Len(batch)
<1> DEFINE L == Len(batch)
           E == D \union ToSet(batch)
<1>1. PICK p : Learning(o, D, N, batch, L, p) /\ q = [p EXCEPT !.slots = <<>>]
  BY ToldLearns
<1>2. L \in Nat /\ L \in 0 .. L /\ FirstOf(batch, L) = ToSet(batch)
  <2>1. batch \in Seq(Trial(Objectives))
    BY DEF Batch, Memory
  <2>2. DOMAIN batch = 1 .. L /\ L \in Nat
    BY <2>1
  <2> QED
    BY <2>2 DEF FirstOf, ToSet
<1>3. Keeps(p, E, N + L) /\ p \in Optimizer
  BY <1>1, <1>2 DEF Learning, Keeps
<1>4. /\ q \in Optimizer /\ q.strategy = p.strategy /\ q.walk = p.walk /\ q.slots = <<>>
      /\ q.next = p.next /\ q.cursor = p.cursor /\ q.observed = p.observed
      /\ q.population = p.population /\ q.offspring = p.offspring
      /\ q.recent = p.recent /\ q.ideal = p.ideal
  <2>1. <<>> \in Seq(0 .. PopulationSize)
    OBVIOUS
  <2> QED
    BY <1>1, <1>3, <2>1 DEF Optimizer
<1> HIDE DEF E
<1>5. Keeps(q, E, N + L)
  BY <1>3, <1>4 DEF Keeps, Generations, Learns
<1> QED
  BY <1>1, <1>4, <1>5 DEF Learning, Follows, E
-----------------------------------------------------------------------------
(* The runs of the catalog.                                                *)

\* An optimizer that has been told the trials of D, and asked for a batch.
Kept(o, D, N, known, batch) ==
    /\ Keeps(o, D, N) /\ o.observed = N /\ Walked(o, known, o.cursor)
    /\ Len(o.slots) = Len(batch) /\ DistinctSlots(o.slots) /\ Planned(o, o.slots)

EndIsTrue ==
    phase \in {"stopped", "ended"} =>
        /\ (stopReason = "budget") = (Len(trials) = config.budget)
        /\ stopReason = "search_space_exhausted" => optimizer.walk # <<>> /\ ToSet(keys) = Keys
        /\ stopReason = "proposal_stalled" => optimizer.walk = <<>>
        /\ stopReason = "stagnation" =>
              \E n \in 0 .. Len(trials) - config.maxStagnation :
                  FrontIds(SubSeq(trials, 1, n)) = FrontIds(trials)

KeptInv ==
    Kept(optimizer, ToSet(trials), Len(trials), ToSet(keys) \union ToSet(pending), pending)

RunInv(foreign) ==
    /\ trials \in Memory
    /\ optimizer \in foreign \/ (optimizer.strategy \in AllStrategies /\ KeptInv)
    /\ phase = "broken" => optimizer \in foreign
    /\ EndIsTrue

\* An optimizer that was told nothing.
LEMMA NewIsKept ==
    ASSUME NEW strategy \in AllStrategies, NEW walk, Enumerates(walk)
    PROVE  /\ Kept(NewOptimizer(strategy, walk), {}, 0, {}, <<>>)
           /\ NewOptimizer(strategy, walk).strategy = strategy
<1> DEFINE o == NewOptimizer(strategy, walk)
           P == PopulationSize
<1>1. /\ o.strategy = strategy /\ o.walk = walk /\ o.population = <<>> /\ o.offspring = <<>>
      /\ o.recent.feasible = <<>> /\ o.recent.infeasible = <<>> /\ o.slots = <<>>
      /\ o.next = 0 /\ o.ideal = <<>> /\ o.cursor = 0 /\ o.observed = 0
      /\ o.recent = [feasible |-> <<>>, infeasible |-> <<>>]
  BY DEF NewOptimizer
<1>2. P \in Nat /\ P >= 4 /\ Min({0, P}) = 0
  BY FullSize
<1>3. <<>> \in Memory /\ <<>> \in Seq(0 .. P) /\ <<>> \in Seq(Int) /\ <<>> \in Seq(Keys)
  BY DEF Memory
<1>4. ToSet(<<>>) = {} /\ DOMAIN <<>> = {} /\ Len(<<>>) = 0
  BY DEF ToSet
<1>5. walk \in Seq(Keys)
  BY <1>3 DEF Enumerates
<1>6. o \in Optimizer
  <2>1. [feasible |-> <<>>, infeasible |-> <<>>] \in [feasible : Memory, infeasible : Memory]
    BY <1>3
  <2>2. 0 \in 0 .. P - 1 /\ 0 \in Nat
    BY <1>2
  <2> DEFINE r == [feasible |-> <<>>, infeasible |-> <<>>]
  <2>3. o = [strategy |-> strategy, walk |-> walk, population |-> <<>>, offspring |-> <<>>,
             recent |-> r, slots |-> <<>>, next |-> 0, ideal |-> <<>>, cursor |-> 0,
             observed |-> 0]
    BY DEF NewOptimizer
  <2> HIDE DEF r, o
  <2> QED
    BY <1>3, <1>5, <2>1, <2>2, <2>3 DEF Optimizer, r
<1> HIDE DEF o
<1>7. Learns(o, {})
  <2>1. Bests(o.population, {})
    BY <1>1, <1>4 DEF Bests
  <2>2. Window \in Nat /\ Window >= 2
    BY OptimizersAssumption
  <2>3. Windows(o.recent, {})
    BY <1>1, <1>4, <2>2 DEF Windows, Windowed
  <2> QED
    BY <2>1, <2>3 DEF Learns
<1>8. Generations(o, 0)
  <2>1. (0 - Min({0, P})) % P = 0
    BY <1>2
  <2> QED
    BY <1>1, <1>4, <2>1 DEF Generations, Distinctly
<1>9. o.ideal = IdealOf(FeasibleOf({}))
  BY <1>1 DEF IdealOf, FeasibleOf
<1>10. Keeps(o, {}, 0)
  BY <1>1, <1>2, <1>4, <1>6, <1>7, <1>8, <1>9 DEF Keeps
<1>11. Planned(o, o.slots)
  <2>1. Missing(o) = P /\ Len(o.slots) = 0
    BY <1>1, <1>2, <1>4 DEF Missing
  <2> QED
    BY <1>1, <1>2, <1>4, <2>1 DEF Planned
<1>12. Walked(o, {}, 0)
  <2>1. Len(walk) \in Nat
    BY <1>5
  <2> QED
    BY <1>1, <2>1 DEF Walked
<1> QED
  BY <1>1, <1>4, <1>10, <1>11, <1>12 DEF Kept, DistinctSlots, o

LEMMA RunBegins ==
    ASSUME NEW foreign, CatalogIsOptimizers(foreign), Init
    PROVE  RunInv(foreign)
<1>1. /\ trials = <<>> /\ keys = <<>> /\ pending = <<>> /\ phase = "running"
      /\ optimizer \in NewOptimizers
  BY DEF Init
<1>2. trials \in Memory /\ Len(trials) = 0 /\ ToSet(trials) = {}
      /\ ToSet(keys) \union ToSet(pending) = {}
  BY <1>1 DEF Memory, ToSet
<1>3. CASE optimizer \in foreign
  BY <1>1, <1>2, <1>3 DEF RunInv, EndIsTrue
<1>4. CASE optimizer \notin foreign
  <2>1. optimizer.strategy \in AllStrategies
    BY <1>1, <1>4 DEF CatalogIsOptimizers
  <2>2. PICK walk : Enumerates(walk) /\ optimizer = NewOptimizer(optimizer.strategy, walk)
    BY <1>1, <1>4 DEF CatalogIsOptimizers
  <2>3. Kept(NewOptimizer(optimizer.strategy, walk), {}, 0, {}, <<>>)
    BY <2>1, <2>2, NewIsKept
  <2>4. Kept(optimizer, {}, 0, {}, <<>>)
    BY <2>2, <2>3, Zenon
  <2>5. KeptInv
    BY <1>1, <1>2, <2>4 DEF KeptInv
  <2> QED
    BY <1>1, <1>2, <2>1, <2>5 DEF RunInv, EndIsTrue
<1> QED
  BY <1>3, <1>4


\* What two sequences hold together.
LEMMA ConcatenationRange ==
    ASSUME NEW S, NEW a \in Seq(S), NEW b \in Seq(S)
    PROVE  ToSet(a \o b) = ToSet(a) \union ToSet(b)
<1> DEFINE c == a \o b
<1>1. /\ Len(a) \in Nat /\ Len(b) \in Nat /\ DOMAIN a = 1 .. Len(a) /\ DOMAIN b = 1 .. Len(b)
      /\ DOMAIN c = 1 .. Len(a) + Len(b)
      /\ \A i \in 1 .. Len(a) + Len(b) : c[i] = IF i <= Len(a) THEN a[i] ELSE b[i - Len(a)]
  OBVIOUS
<1> HIDE DEF c
<1>2. \A i \in DOMAIN a : i \in DOMAIN c /\ c[i] = a[i]
  BY <1>1
<1>3. \A i \in DOMAIN b : i + Len(a) \in DOMAIN c /\ c[i + Len(a)] = b[i]
  BY <1>1
<1>4. \A i \in DOMAIN c : c[i] \in ToSet(a) \union ToSet(b)
  <2> TAKE i \in DOMAIN c
  <2>1. CASE i <= Len(a)
    BY <1>1, <2>1 DEF ToSet
  <2>2. CASE ~(i <= Len(a))
    <3>1. i - Len(a) \in DOMAIN b /\ c[i] = b[i - Len(a)]
      BY <1>1, <2>2
    <3> QED
      BY <3>1 DEF ToSet
  <2> QED
    BY <2>1, <2>2
<1>5. ToSet(c) \subseteq ToSet(a) \union ToSet(b)
  BY <1>4 DEF ToSet
<1>6. ToSet(a) \subseteq ToSet(c) /\ ToSet(b) \subseteq ToSet(c)
  BY <1>2, <1>3 DEF ToSet
<1> QED
  BY <1>5, <1>6 DEF c


\* The trials of a run are numbered, and so are those of a batch.
LEMMA TrialsAreNumbered ==
    ASSUME IInv, trials \in Memory
    PROVE  Numbered(ToSet(trials), Len(trials)) /\ Len(trials) \in Nat
<1>1. /\ Len(trials) \in Nat /\ DOMAIN trials = 1 .. Len(trials)
      /\ \A i \in DOMAIN trials : trials[i] \in Trial(Objectives) /\ trials[i].id = i - 1
  BY DEF Memory, IInv, Accounted
<1>2. IsFiniteSet(ToSet(trials))
  <2>1. Distinctly(trials)
    BY <1>1 DEF Distinctly
  <2> QED
    BY <2>1, KindsAreCounted
<1>3. \A t \in ToSet(trials) : \E i \in 1 .. Len(trials) : t = trials[i] /\ t.id = i - 1
  BY <1>1 DEF ToSet
<1>4. \A t \in ToSet(trials) : t \in Trial(Objectives) /\ t.id \in 0 .. Len(trials) - 1
  BY <1>1, <1>3
<1>5. \A s, t \in ToSet(trials) : s.id = t.id => s = t
  BY <1>3
<1> QED
  BY <1>1, <1>2, <1>4, <1>5 DEF Numbered

LEMMA ResultsAreBatch ==
    ASSUME IInv, Tell
    PROVE  Batch(results, Len(trials)) /\ Len(results) = Len(pending)
<1>1. results \in Seq(Trials) /\ DOMAIN results = DOMAIN pending /\ Len(results) = Len(pending)
  BY ResultsComplete
<1>2. /\ pending \in Seq(Points) /\ Len(pending) \in Nat /\ Len(trials) \in Nat
      /\ config \in Configs /\ config.budget \in Nat
      /\ Len(trials) + Len(pending) <= config.budget
  BY StrategyRunAssumption DEF IInv, TypeOK, Accounted
<1>3. ASSUME NEW i \in DOMAIN results
      PROVE  results[i] \in Trial(Objectives) /\ results[i].id = (Len(trials) + i) - 1
  <2>1. i \in 1 .. Len(pending) /\ i \in DOMAIN pending
    BY <1>1, <1>2
  <2> DEFINE k == Len(trials) + i - 1
  <2>2. k \in 0 .. config.budget /\ pending[i] \in Keys /\ pending[i] \in Points
    BY <1>2, <2>1, StrategiesAssumption
  <2>3. results[i] \in Outcomes(k, pending[i])
    BY <1>3 DEF IInv, ResultsFit
  <2> HIDE DEF k
  <2>4. results[i].id = k
    BY <1>2, <2>2, <2>3, StrategyRunAssumption
  <2>5. results[i] \in Trial(Objectives)
    BY <1>2, <2>2, <2>3, StrategiesAssumption
  <2>6. k = (Len(trials) + i) - 1
    BY DEF k
  <2> QED
    BY <2>4, <2>5, <2>6
<1>4. results \in Memory
  <2>1. DOMAIN results = 1 .. Len(results) /\ Len(results) \in Nat
    BY <1>1
  <2>2. results = [i \in DOMAIN results |-> results[i]]
    BY <1>1
  <2>3. results \in [1 .. Len(results) -> Trial(Objectives)]
    BY <1>3, <2>1, <2>2
  <2> QED
    BY <2>1, <2>3 DEF Memory
<1> QED
  BY <1>1, <1>3, <1>4 DEF Batch

\* What a strategy of the catalog answers when it is asked.
LEMMA CatalogReplies ==
    ASSUME NEW foreign, CatalogIsOptimizers(foreign), IInv, RunInv(foreign), Between, Left > 0,
           optimizer \notin foreign, NEW answer \in Replies
    PROVE  /\ Replied(optimizer, Count, ToSet(keys), answer) /\ Contract(answer.points)
           /\ Kept(answer.optimizer, ToSet(trials), Len(trials),
                   ToSet(keys) \union ToSet(answer.points), answer.points)
           /\ answer.optimizer.strategy = optimizer.strategy
           /\ answer.optimizer.walk = optimizer.walk
           /\ answer.optimizer.population = optimizer.population
<1> DEFINE o == optimizer
           seen == ToSet(keys)
           p == answer.optimizer
           D == ToSet(trials)
           N == Len(trials)
<1>1. o.strategy \in AllStrategies /\ KeptInv /\ pending = <<>>
  BY DEF RunInv, Between
<1>2. Count \in Nat \ {0}
  <2>1. /\ config \in Configs /\ config.budget \in Nat /\ config.batchSize \in Nat \ {0}
        /\ N \in Nat
    BY StrategyRunAssumption DEF IInv, TypeOK
  <2> QED
    BY <2>1 DEF Count, Left
<1>3. ToSet(pending) = {} /\ seen \union ToSet(pending) = seen
  BY <1>1 DEF ToSet
<1>4. Kept(o, D, N, seen, <<>>)
  BY <1>1, <1>3 DEF KeptInv
<1>5. seen \in SUBSET Keys /\ Points = Keys
  BY StrategiesAssumption DEF IInv, TypeOK, ToSet
<1>6. Fits(o, seen)
  BY <1>4 DEF Kept, Keeps, Fits
<1>7. answer \in Asked(o, Count, seen)
  BY <1>1 DEF Replies, CatalogIsOptimizers, ToSet
<1>8. Replied(o, Count, seen, answer)
  BY <1>2, <1>5, <1>6, <1>7, AskedReplies
<1>9. Contract(answer.points)
  <2>1. \A i \in DOMAIN answer.points, j \in DOMAIN keys : answer.points[i] # keys[j]
    <3>1. \A j \in DOMAIN keys : keys[j] \in seen
      BY DEF ToSet
    <3>2. \A i \in DOMAIN answer.points : answer.points[i] \notin seen
      BY <1>8 DEF Replied
    <3> QED
      BY <3>1, <3>2
  <2> QED
    BY <1>5, <1>8, <2>1 DEF Replied, Contract
<1>10. Remembers(o, p) /\ Fits(p, seen \union ToSet(answer.points))
       /\ Len(p.slots) = Len(answer.points) /\ DistinctSlots(p.slots) /\ Planned(o, p.slots)
  BY <1>8 DEF Replied
<1> HIDE DEF o, seen, p, D, N
<1>11. Keeps(p, D, N)
  <2>1. Keeps(o, D, N) /\ p \in Optimizer
    BY <1>4, <1>10 DEF Kept, Fits
  <2> QED
    BY <1>10, <2>1 DEF Keeps, Remembers, Generations, Learns
<1>12. Planned(p, p.slots)
  BY <1>10 DEF Planned, Remembers, Missing
<1>13. Kept(p, D, N, seen \union ToSet(answer.points), answer.points)
  BY <1>4, <1>10, <1>11, <1>12 DEF Kept, Fits, Remembers
<1> QED
  BY <1>8, <1>9, <1>10, <1>13 DEF Remembers, o, seen, p, D, N

LEMMA RunAsks ==
    ASSUME NEW foreign, CatalogIsOptimizers(foreign), IInv, RunInv(foreign), Ask
    PROVE  RunInv(foreign)' /\ (optimizer \notin foreign => optimizer'.population = optimizer.population)
<1>1. PICK answer \in Replies :
        pending' = answer.points /\ optimizer' = answer.optimizer
  BY DEF Ask
<1>2. UNCHANGED <<config, keys, trials, results, stagnation, phase, stopReason>> /\ Between /\ Left > 0
      /\ phase = "running"
  BY DEF Ask, Between
<1>3. EndIsTrue' /\ (phase' # "broken") /\ trials' \in Memory
  BY <1>2 DEF EndIsTrue, RunInv
<1>4. CASE optimizer \in foreign
  <2>1. optimizer' \in foreign
    BY <1>1, <1>4 DEF CatalogIsOptimizers, Replies
  <2> QED
    BY <1>3, <1>4, <2>1 DEF RunInv
<1>5. CASE optimizer \notin foreign
  <2>1. /\ Kept(optimizer', ToSet(trials), Len(trials), ToSet(keys) \union ToSet(pending'), pending')
        /\ optimizer'.strategy = optimizer.strategy
        /\ optimizer'.population = optimizer.population
    BY <1>1, <1>2, <1>5, CatalogReplies
  <2>2. KeptInv'
    BY <1>2, <2>1 DEF KeptInv
  <2>3. optimizer.strategy \in AllStrategies
    BY <1>5 DEF RunInv
  <2> QED
    BY <1>3, <2>1, <2>2, <2>3 DEF RunInv
<1> QED
  BY <1>4, <1>5

LEMMA RunTells ==
    ASSUME NEW foreign, CatalogIsOptimizers(foreign), IInv, RunInv(foreign), Tell
    PROVE  /\ RunInv(foreign)'
           /\ optimizer \notin foreign => Upholds(optimizer.population, optimizer'.population)
<1> DEFINE o == optimizer
           q == optimizer'
           D == ToSet(trials)
           N == Len(trials)
<1>1. /\ q \in Observe(o, results) /\ trials' = trials \o results /\ keys' = keys \o pending
      /\ pending' = <<>> /\ phase = "running" /\ UNCHANGED <<config, phase, stopReason>>
  BY DEF Tell
<1>2. Batch(results, N) /\ Len(results) = Len(pending)
  BY ResultsAreBatch
<1>3. trials \in Memory /\ results \in Memory
  BY <1>2 DEF RunInv, Batch
<1>4. trials' \in Memory /\ Len(trials') = N + Len(results) /\ ToSet(trials') = D \union ToSet(results)
  <2>1. trials' \in Memory
    BY <1>1, <1>3 DEF Memory
  <2>2. Len(trials') = N + Len(results)
    BY <1>1, <1>3, ConcatenationLength DEF Memory
  <2>3. ToSet(trials') = D \union ToSet(results)
    BY <1>1, <1>3, ConcatenationRange DEF Memory
  <2> QED
    BY <2>1, <2>2, <2>3
<1>5. EndIsTrue' /\ phase' # "broken"
  BY <1>1 DEF EndIsTrue
<1>6. CASE o \in foreign
  <2>1. q \in foreign
    BY <1>1, <1>6 DEF CatalogIsOptimizers
  <2> QED
    BY <1>4, <1>5, <1>6, <2>1 DEF RunInv
<1>7. CASE o \notin foreign
  <2>1. o.strategy \in AllStrategies /\ KeptInv
    BY <1>7 DEF RunInv
  <2>2. q \in Told(o, results)
    BY <1>1, <2>1 DEF CatalogIsOptimizers
  <2>3. /\ Keeps(o, D, N) /\ o.observed = N /\ Walked(o, ToSet(keys) \union ToSet(pending), o.cursor)
        /\ Len(o.slots) = Len(pending) /\ Planned(o, o.slots)
    BY <2>1 DEF KeptInv, Kept
  <2>4. Numbered(D, N) /\ N \in Nat
    BY <1>3, TrialsAreNumbered
  <2>5. Follows(o, D \union ToSet(results), N + Len(results), q)
        /\ q.observed = o.observed + Len(results)
    <3>1. Keeps(o, D, N) /\ Planned(o, o.slots) /\ Len(o.slots) = Len(results)
      BY <1>2, <2>3
    <3>2. Numbered(D, N) /\ N \in Nat /\ Batch(results, N) /\ q \in Told(o, results)
      BY <1>2, <2>2, <2>4
    <3> HIDE DEF o, q, D, N
    <3> QED
      BY <3>1, <3>2, ToldFollows
  <2>6. ToSet(keys') \union ToSet(pending') = ToSet(keys) \union ToSet(pending)
    <3>1. ToSet(keys') = ToSet(keys) \union ToSet(pending)
      BY <1>1, ConcatenationRange DEF IInv, TypeOK
    <3>2. ToSet(pending') = {}
      BY <1>1 DEF ToSet
    <3> QED
      BY <3>1, <3>2
  <2>7. Walked(q, ToSet(keys') \union ToSet(pending'), q.cursor)
    BY <2>3, <2>5, <2>6 DEF Walked, Follows
  <2>8. Len(q.slots) = Len(pending') /\ DistinctSlots(q.slots) /\ Planned(q, q.slots)
    <3>1. q.slots = <<>> /\ Keeps(q, D \union ToSet(results), N + Len(results))
      BY <2>5 DEF Follows
    <3>2. q.population \in Memory /\ Missing(q) \in Int
      <4>1. q.population \in Memory
        BY <3>1 DEF Keeps, Optimizer
      <4>2. Len(q.population) \in Nat
        BY <4>1 DEF Memory
      <4> QED
        BY <4>1, <4>2, OptimizersAssumption DEF Missing
    <3>3. Len(q.slots) = 0 /\ DOMAIN q.slots = {}
      BY <3>1
    <3>4. Planned(q, q.slots)
      BY <3>2, <3>3 DEF Planned
    <3> QED
      BY <1>1, <3>1, <3>3, <3>4 DEF DistinctSlots
  <2>9. KeptInv'
    BY <1>4, <2>3, <2>5, <2>7, <2>8 DEF KeptInv, Kept, Follows
  <2>10. q.strategy \in AllStrategies /\ Upholds(o.population, q.population)
    BY <2>1, <2>5 DEF Follows
  <2> QED
    BY <1>4, <1>5, <2>9, <2>10 DEF RunInv
<1> QED
  BY <1>6, <1>7


\* A run that is stopped says why.
LEMMA RunStops ==
    ASSUME NEW foreign, CatalogIsOptimizers(foreign), IInv, MeasuredInv, RunInv(foreign),
           StopAtBudget \/ StopInTime \/ StopStagnated \/ StopEmpty
    PROVE  /\ RunInv(foreign)'
           /\ optimizer \notin foreign => optimizer'.population = optimizer.population
<1>1. /\ UNCHANGED <<config, keys, trials, pending, results, stagnation>>
      /\ Between /\ phase' = "stopped" /\ pending = <<>>
  BY DEF StopAtBudget, StopInTime, StopStagnated, StopEmpty, Stop, Between
<1>2. trials' \in Memory
  BY <1>1 DEF RunInv
<1>3. /\ config \in Configs /\ config.budget \in Nat /\ config.maxStagnation \in Nat
      /\ Len(trials) \in Nat
  BY StrategyRunAssumption DEF IInv, TypeOK
<1>4. CASE StopAtBudget \/ StopInTime \/ StopStagnated
  <2>1. optimizer' = optimizer
    BY <1>4 DEF StopAtBudget, StopInTime, StopStagnated
  <2>2. /\ optimizer' \in foreign \/ (optimizer'.strategy \in AllStrategies /\ KeptInv')
        /\ optimizer \notin foreign => optimizer'.population = optimizer.population
    BY <1>1, <2>1 DEF RunInv, KeptInv
  <2>3. CASE StopAtBudget
    <3>1. stopReason' = "budget" /\ Len(trials) = config.budget
      BY <1>3, <2>3 DEF StopAtBudget, Stop, Left
    <3>2. EndIsTrue'
      BY <1>1, <3>1 DEF EndIsTrue
    <3> QED
      BY <1>1, <1>2, <2>2, <3>2 DEF RunInv
  <2>4. CASE StopInTime
    <3>1. stopReason' = "wall_time" /\ Len(trials) # config.budget
      BY <1>3, <2>4 DEF StopInTime, Stop, Left
    <3>2. EndIsTrue'
      BY <1>1, <3>1 DEF EndIsTrue
    <3> QED
      BY <1>1, <1>2, <2>2, <3>2 DEF RunInv
  <2>5. CASE StopStagnated
    <3>1. stopReason' = "stagnation" /\ Len(trials) # config.budget /\ Stagnated
      BY <1>3, <2>5 DEF StopStagnated, Stop, Left
    <3>2. /\ stagnation \in 0 .. Len(trials)
          /\ FrontIds(SubSeq(trials, 1, Len(trials) - stagnation)) = FrontIds(trials)
      BY DEF MeasuredInv, StagnationIsMeasured
    <3>3. Len(trials) - stagnation \in 0 .. Len(trials) - config.maxStagnation
      BY <1>3, <3>1, <3>2 DEF Stagnated
    <3>4. EndIsTrue'
      BY <1>1, <3>1, <3>2, <3>3 DEF EndIsTrue
    <3> QED
      BY <1>1, <1>2, <2>2, <3>4 DEF RunInv
  <2> QED
    BY <1>4, <2>3, <2>4, <2>5
<1>5. CASE StopEmpty
  <2>1. PICK answer \in Replies :
          answer.points = <<>> /\ optimizer' = answer.optimizer /\ stopReason' = answer.reason
    BY <1>5 DEF StopEmpty, Stop
  <2>2. Left > 0 /\ Len(trials) # config.budget
    BY <1>3, <1>5 DEF StopEmpty, Left
  <2>3. optimizer \notin foreign
    BY <2>1 DEF Replies, CatalogIsOptimizers
  <2>4. /\ Replied(optimizer, Count, ToSet(keys), answer)
        /\ Kept(answer.optimizer, ToSet(trials), Len(trials),
                ToSet(keys) \union ToSet(answer.points), answer.points)
        /\ answer.optimizer.strategy = optimizer.strategy
        /\ answer.optimizer.walk = optimizer.walk
        /\ answer.optimizer.population = optimizer.population
    BY <1>1, <2>1, <2>2, <2>3, CatalogReplies
  <2>5. KeptInv'
    BY <1>1, <2>1, <2>4 DEF KeptInv
  <2>6. optimizer'.strategy \in AllStrategies
    BY <2>1, <2>3, <2>4 DEF RunInv
  <2>7. \/ answer.reason = "search_space_exhausted" /\ optimizer.walk # <<>> /\ Keys \subseteq ToSet(keys)
        \/ answer.reason = "proposal_stalled" /\ optimizer.walk = <<>>
    BY <2>1, <2>4 DEF Replied
  <2>8. ToSet(keys) \subseteq Keys
    BY StrategiesAssumption DEF IInv, TypeOK, ToSet
  <2>9. EndIsTrue'
    BY <1>1, <2>1, <2>2, <2>4, <2>7, <2>8 DEF EndIsTrue
  <2> QED
    BY <1>1, <1>2, <2>1, <2>4, <2>5, <2>6, <2>9 DEF RunInv
<1> QED
  BY <1>4, <1>5

\* The strategies of the catalog never break the contract.
LEMMA RunBreaks ==
    ASSUME NEW foreign, CatalogIsOptimizers(foreign), IInv, RunInv(foreign), Break
    PROVE  RunInv(foreign)' /\ optimizer \in foreign /\ optimizer' \in foreign
<1>1. UNCHANGED <<config, optimizer, keys, trials, pending, results, stagnation, stopReason>>
      /\ phase' = "broken" /\ Between /\ Left > 0
  BY DEF Break
<1>2. PICK answer \in Replies : ~Contract(answer.points)
  BY DEF Break
<1>3. optimizer \in foreign
  BY <1>1, <1>2, CatalogReplies
<1> QED
  BY <1>1, <1>3 DEF RunInv, EndIsTrue

\* The other steps change neither what was told nor the optimizer.
LEMMA RunRests ==
    ASSUME NEW foreign, RunInv(foreign), Evaluate \/ Publish \/ UNCHANGED vars
    PROVE  /\ RunInv(foreign)'
           /\ optimizer \notin foreign => optimizer'.population = optimizer.population
<1>1. UNCHANGED <<config, optimizer, keys, trials, pending, stopReason>>
  BY DEF Evaluate, Publish, vars
<1>2. \/ phase' = phase
      \/ phase = "stopped" /\ phase' = "ended"
  BY DEF Evaluate, Publish, vars
<1>3. EndIsTrue' /\ (phase' = "broken" => optimizer' \in foreign)
  BY <1>1, <1>2 DEF EndIsTrue, RunInv
<1>4. KeptInv => KeptInv'
  BY <1>1 DEF KeptInv
<1> QED
  BY <1>1, <1>3, <1>4 DEF RunInv

LEMMA RunSteps ==
    ASSUME NEW foreign, CatalogIsOptimizers(foreign), IInv, MeasuredInv, RunInv(foreign),
           [Next]_vars
    PROVE  /\ RunInv(foreign)'
           /\ optimizer \notin foreign => Upholds(optimizer.population, optimizer'.population)
<1>1. ASSUME optimizer \notin foreign, optimizer'.population = optimizer.population
      PROVE  Upholds(optimizer.population, optimizer'.population)
  <2>1. optimizer.population \in Memory
    BY <1>1 DEF RunInv, KeptInv, Kept, Keeps, Optimizer
  <2> QED
    BY <1>1, <2>1, UpholdsItself
<1>2. CASE Ask
  BY <1>1, <1>2, RunAsks
<1>3. CASE Tell
  BY <1>3, RunTells
<1>4. CASE StopAtBudget \/ StopInTime \/ StopStagnated \/ StopEmpty
  BY <1>1, <1>4, RunStops
<1>5. CASE Break
  BY <1>5, RunBreaks
<1>6. CASE Evaluate \/ Publish \/ UNCHANGED vars
  BY <1>1, <1>6, RunRests
<1> QED
  BY <1>2, <1>3, <1>4, <1>5, <1>6 DEF Next, Loop

LEMMA Measured == Spec => []MeasuredInv
<1>1. IInv /\ IInv' /\ MeasuredInv /\ [Next]_vars => MeasuredInv'
  BY NextMeasured
<1> QED
  BY <1>1, InitMeasured, Inductive, PTL DEF Spec

LEMMA RunInvariant ==
    ASSUME NEW foreign, CatalogIsOptimizers(foreign)
    PROVE  Spec => []RunInv(foreign)
<1>1. Init => RunInv(foreign)
  BY RunBegins
<1>2. IInv /\ MeasuredInv /\ RunInv(foreign) /\ [Next]_vars => RunInv(foreign)'
  BY RunSteps
<1> QED
  BY <1>1, <1>2, Inductive, Measured, PTL DEF Spec

(***************************************************************************)
(* The reason a catalog run stops for is true, however its strategy mixes  *)
(* draws, moves and the walk over the domain, and none of the strategies   *)
(* breaks the contract of ask() (strategy.py, optimizers/, enumeration.py).*)
(***************************************************************************)
THEOREM StopReasonIsExact ==
    ASSUME NEW foreign, CatalogIsOptimizers(foreign)
    PROVE  Spec => []StopReasonIsTrue
<1>1. RunInv(foreign) => StopReasonIsTrue
  BY DEF RunInv, EndIsTrue, StopReasonIsTrue, CatalogIsOptimizers
<1> QED
  BY <1>1, RunInvariant, PTL

(***************************************************************************)
(* Whatever is replaced, accepted or selected, no strategy of the catalog  *)
(* gives a feasible trial up for an infeasible one, or a successful one    *)
(* for a failed one (the _tell of optimizers/, quality.py, nsga2.py).      *)
(***************************************************************************)
THEOREM KindsAreNeverTraded ==
    ASSUME NEW foreign, CatalogIsOptimizers(foreign)
    PROVE  Spec => FeasibilityIsNeverTraded
<1>1. IInv /\ MeasuredInv /\ RunInv(foreign) /\ [Next]_vars => [KindsAreUpheld]_vars
  <2> SUFFICES ASSUME IInv, MeasuredInv, RunInv(foreign), [Next]_vars,
                      optimizer.strategy \in AllStrategies
               PROVE  Upholds(optimizer.population, optimizer'.population)
    BY DEF KindsAreUpheld, Upholds
  <2>1. optimizer \notin foreign
    BY DEF CatalogIsOptimizers
  <2> QED
    BY <2>1, RunSteps
<1> QED
  BY <1>1, RunInvariant, Inductive, Measured, PTL DEF Spec, FeasibilityIsNeverTraded
-----------------------------------------------------------------------------
(* What the Bayesian optimizer trains on.                                  *)

\* A sequence holds no more different things than it is long.
LEMMA RangeSize ==
    ASSUME NEW S, NEW s \in Seq(S)
    PROVE  IsFiniteSet(ToSet(s)) /\ Cardinality(ToSet(s)) <= Len(s)
<1> DEFINE n == Len(s)
           T == ToSet(s)
<1>1. n \in Nat /\ DOMAIN s = 1 .. n
  OBVIOUS
<1>2. IsFiniteSet(1 .. n) /\ Cardinality(1 .. n) = n
  <2>1. n \in Nat
    BY <1>1
  <2> HIDE DEF n
  <2>2. IsFiniteSet(1 .. n) /\ Cardinality(1 .. n) = IF 1 > n THEN 0 ELSE n - 1 + 1
    BY <2>1, FS_Interval
  <2> QED
    BY <2>1, <2>2
<1>3. s \in Surjection(1 .. n, T)
  <2>1. s \in [1 .. n -> T]
    <3>1. s = [i \in 1 .. n |-> s[i]] /\ \A i \in 1 .. n : s[i] \in T
      BY <1>1 DEF ToSet
    <3> HIDE DEF n, T
    <3> QED
      BY <3>1
  <2>2. \A t \in T : \E i \in 1 .. n : s[i] = t
    BY <1>1 DEF ToSet
  <2> HIDE DEF n, T
  <2> QED
    BY <2>1, <2>2 DEF Surjection
<1> HIDE DEF n, T
<1>4. IsFiniteSet(T) /\ Cardinality(T) <= Cardinality(1 .. n)
  BY <1>2, <1>3, FS_Surjection
<1> QED
  BY <1>2, <1>4 DEF n, T

\* The only sequence of one thing.
LEMMA SequenceOfOne ==
    ASSUME NEW b
    PROVE  SetToSeq({b}) \in Seq({b}) /\ ToSet(SetToSeq({b})) = {b}
<1> DEFINE F == [1 .. 1 -> {b}]
           s == SetToSeq({b})
<1>1. Cardinality({b}) = 1
  BY FS_Singleton
<1>2. s = CHOOSE f \in F : IsInjective(f)
  BY <1>1, Zenon DEF SetToSeq
<1>3. \E f \in F : IsInjective(f)
  <2> DEFINE f == [i \in 1 .. 1 |-> b]
  <2>1. f \in F /\ \A i, j \in DOMAIN f : i = j
    OBVIOUS
  <2>2. IsInjective(f)
    BY <2>1 DEF IsInjective
  <2> QED
    BY <2>1, <2>2
<1> HIDE DEF s
<1>4. s \in F
  <2> HIDE DEF F
  <2> QED
    BY <1>2, <1>3, Zenon
<1>5. DOMAIN s = {1} /\ s[1] = b
  BY <1>4
<1>6. s \in Seq({b})
  <2>1. s = <<b>>
    BY <1>4
  <2> QED
    BY <2>1
<1>7. ToSet(s) = {b}
  BY <1>5 DEF ToSet
<1> QED
  BY <1>6, <1>7 DEF s

\* The successful trials, of the feasible ones alone once there are any.
Eligible(D) ==
    IF {t \in D : t.feasible} = {} THEN {t \in D : t.status = "success"} ELSE {t \in D : t.feasible}

Trained(training, E) ==
    /\ Cardinality(training) <= Window /\ training \subseteq E
    /\ E # {} => \E best \in training : \A t \in E \ {best} : Preferred(best, t)

\* The best trials of a kind with the window of that kind.
Joined(B, recent) == IF B \subseteq ToSet(recent) THEN recent ELSE SetToSeq(B) \o recent

LEMMA JoinedTrains ==
    ASSUME NEW E \in SUBSET Trial(Objectives), NEW recent \in Memory, Windowed(recent, E),
           NEW B \in SUBSET E,
           E # {} => \E b \in E : B = {b} /\ \A t \in E \ {b} : Preferred(b, t)
    PROVE  Trained(ToSet(Joined(B, recent)), E)
<1> DEFINE R == ToSet(recent)
           T == ToSet(Joined(B, recent))
<1>1. recent \in Seq(Trial(Objectives)) /\ Len(recent) < Window /\ R \subseteq E
      /\ Window \in Nat /\ Len(recent) \in Nat
  BY OptimizersAssumption DEF Windowed, Memory
<1>2. IsFiniteSet(R) /\ Cardinality(R) <= Len(recent) /\ Cardinality(R) \in Nat
  BY <1>1, RangeSize, FS_CardinalityType
<1>3. T = B \union R
  <2>1. CASE B \subseteq R
    BY <2>1 DEF Joined
  <2>2. CASE ~(B \subseteq R)
    <3>1. PICK b \in E : B = {b}
      BY <2>2
    <3>2. Joined(B, recent) = SetToSeq({b}) \o recent
      BY <2>2, <3>1 DEF Joined
    <3>3. SetToSeq({b}) \in Seq({b}) /\ ToSet(SetToSeq({b})) = {b}
      BY SequenceOfOne
    <3>4. SetToSeq({b}) \in Seq(Trial(Objectives))
      <4>1. {b} \subseteq Trial(Objectives)
        BY <3>1
      <4> HIDE DEF R, T
      <4> QED
        BY <3>3, <4>1
    <3>5. ToSet(SetToSeq({b}) \o recent) = ToSet(SetToSeq({b})) \union ToSet(recent)
      BY <1>1, <3>4, ConcatenationRange
    <3> QED
      BY <3>1, <3>2, <3>3, <3>5
  <2> QED
    BY <2>1, <2>2
<1> HIDE DEF T, R
<1>4. Cardinality(T) <= Window
  <2>1. CASE E = {}
    <3>1. T = R
      BY <1>3, <2>1
    <3> QED
      BY <1>1, <1>2, <3>1
  <2>2. CASE E # {}
    <3>1. PICK b \in E : B = {b}
      BY <2>2
    <3>2. T = R \union {b}
      BY <1>3, <3>1
    <3>3. Cardinality(T) = Cardinality(R) \/ Cardinality(T) = Cardinality(R) + 1
      BY <1>2, <3>2, FS_AddElement
    <3> QED
      BY <1>1, <1>2, <3>3
  <2> QED
    BY <2>1, <2>2
<1>5. E # {} => \E best \in T : \A t \in E \ {best} : Preferred(best, t)
  BY <1>3
<1> QED
  BY <1>1, <1>3, <1>4, <1>5 DEF Trained, T

LEMMA TrainingIsExact ==
    ASSUME NEW D \in SUBSET Trial(Objectives), NEW o \in Optimizer,
           ToSet(o.population) \subseteq D, Learns(o, D)
    PROVE  Trained(ToSet(TrainingTrials(o)), Eligible(D))
<1> DEFINE p == o.population
           F == {t \in ToSet(p) : t.feasible = TRUE}
           G == {t \in ToSet(p) : t.feasible = FALSE}
           Q == {t \in D : t.feasible}
           S == {t \in D : t.status = "success"}
<1>1. /\ \A i \in DOMAIN p : p[i].status = "success"
      /\ \A i, j \in DOMAIN p : p[i].feasible = p[j].feasible => i = j
      /\ \A t \in D : t.status = "success" =>
            \E i \in DOMAIN p : p[i].feasible = t.feasible /\ (p[i] = t \/ Preferred(p[i], t))
      /\ Windowed(o.recent.feasible, {t \in D : t.status = "success" /\ t.feasible})
      /\ Windowed(o.recent.infeasible, {t \in D : t.status = "success" /\ ~t.feasible})
  BY DEF Learns, Bests, Windows
<1>2. o.recent.feasible \in Memory /\ o.recent.infeasible \in Memory
  BY DEF Optimizer
<1>3. \A t \in D : t.feasible \in BOOLEAN /\ (t.feasible => t.status = "success")
  BY OptimizersAssumption, TrialTypes
<1>4. \A i \in DOMAIN p : p[i] \in ToSet(p) /\ p[i] \in D
  BY DEF ToSet
<1>5. \A t \in ToSet(p) : \E i \in DOMAIN p : t = p[i]
  BY DEF ToSet
<1>6. F \subseteq Q /\ G \subseteq S /\ ToSet(p) \subseteq S
  BY <1>1, <1>5
<1>7. TrainingTrials(o) = IF F # {} THEN Joined(F, o.recent.feasible)
                          ELSE Joined(G, o.recent.infeasible)
  BY DEF TrainingTrials, Joined
<1> HIDE DEF p
<1>8. CASE Q # {}
  <2>1. \A t \in Q : \E i \in DOMAIN p : p[i] \in F /\ (p[i] = t \/ Preferred(p[i], t))
    BY <1>1, <1>3, <1>4
  <2>2. \A s, t \in F : s = t
    <3> TAKE s \in F, t \in F
    <3>1. s.feasible = t.feasible
      OBVIOUS
    <3>2. PICK i \in DOMAIN p : s = p[i]
      BY <1>5
    <3>3. PICK j \in DOMAIN p : t = p[j]
      BY <1>5
    <3>4. i = j
      BY <1>1, <3>1, <3>2, <3>3
    <3> QED
      BY <3>2, <3>3, <3>4
  <2>3. \E b \in Q : F = {b} /\ \A t \in Q \ {b} : Preferred(b, t)
    <3>1. PICK t \in Q : TRUE
      BY <1>8
    <3>2. PICK i \in DOMAIN p : p[i] \in F
      BY <2>1, <3>1
    <3>3. F = {p[i]} /\ p[i] \in Q
      BY <1>6, <2>2, <3>2
    <3>4. \A s \in Q \ {p[i]} : Preferred(p[i], s)
      BY <2>1, <2>2, <3>2
    <3> QED
      BY <3>3, <3>4
  <2>4. {t \in D : t.status = "success" /\ t.feasible} = Q /\ Eligible(D) = Q /\ F # {}
    BY <1>3, <1>8, <2>3 DEF Eligible
  <2>5. TrainingTrials(o) = Joined(F, o.recent.feasible) /\ Windowed(o.recent.feasible, Q)
    BY <1>1, <1>7, <2>4
  <2>6. Q \in SUBSET Trial(Objectives) /\ F \in SUBSET Q
    BY <1>6
  <2> HIDE DEF F, Q
  <2>7. Trained(ToSet(Joined(F, o.recent.feasible)), Q)
    BY <1>2, <2>3, <2>5, <2>6, JoinedTrains
  <2> QED
    BY <2>4, <2>5, <2>7
<1>9. CASE Q = {}
  <2>1. F = {} /\ \A t \in D : ~t.feasible
    BY <1>6, <1>9
  <2>2. {t \in D : t.status = "success" /\ ~t.feasible} = S /\ Eligible(D) = S
    BY <1>9, <2>1 DEF Eligible
  <2>3. ToSet(p) \subseteq D
    BY DEF p
  <2>4. G = ToSet(p) /\ \A s, t \in G : s = t
    <3>1. \A t \in ToSet(p) : t.feasible = FALSE
      BY <1>3, <2>1, <2>3
    <3>2. \A s, t \in ToSet(p) : s = t
      <4> TAKE s \in ToSet(p), t \in ToSet(p)
      <4>1. s.feasible = t.feasible
        BY <3>1
      <4>2. PICK i \in DOMAIN p : s = p[i]
        BY <1>5
      <4>3. PICK j \in DOMAIN p : t = p[j]
        BY <1>5
      <4>4. i = j
        BY <1>1, <4>1, <4>2, <4>3
      <4> QED
        BY <4>2, <4>3, <4>4
    <3> QED
      BY <3>1, <3>2
  <2>5. S # {} => \E b \in S : G = {b} /\ \A t \in S \ {b} : Preferred(b, t)
    <3> SUFFICES ASSUME S # {}
                 PROVE  \E b \in S : G = {b} /\ \A t \in S \ {b} : Preferred(b, t)
      OBVIOUS
    <3>1. \A t \in S : \E i \in DOMAIN p : p[i] \in G /\ (p[i] = t \/ Preferred(p[i], t))
      BY <1>1, <1>4, <2>4
    <3>2. PICK t \in S : TRUE
      OBVIOUS
    <3>3. PICK i \in DOMAIN p : p[i] \in G
      BY <3>1, <3>2
    <3>4. G = {p[i]} /\ p[i] \in S
      BY <1>6, <2>4, <3>3
    <3>5. \A s \in S \ {p[i]} : Preferred(p[i], s)
      BY <2>4, <3>1, <3>3
    <3> QED
      BY <3>4, <3>5
  <2>6. TrainingTrials(o) = Joined(G, o.recent.infeasible) /\ Windowed(o.recent.infeasible, S)
    BY <1>1, <1>7, <2>1, <2>2
  <2>7. S \in SUBSET Trial(Objectives) /\ G \in SUBSET S
    BY <1>6
  <2> HIDE DEF G, S
  <2>8. Trained(ToSet(Joined(G, o.recent.infeasible)), S)
    BY <1>2, <2>5, <2>6, <2>7, JoinedTrains
  <2> QED
    BY <2>2, <2>6, <2>8
<1> QED
  BY <1>8, <1>9

(***************************************************************************)
(* Between any two batches and in the midst of one, what every strategy of *)
(* the catalog keeps fits the trials it was told: sizes, generations,      *)
(* slots, the ideal and the training data (the _tell of optimizers/).      *)
(***************************************************************************)
THEOREM BookkeepingHolds ==
    ASSUME NEW foreign, CatalogIsOptimizers(foreign)
    PROVE  Spec => []BookkeepingIsExact
<1>1. RunInv(foreign) => BookkeepingIsExact
  <2> SUFFICES ASSUME RunInv(foreign), optimizer.strategy \in AllStrategies
               PROVE  BookkeepingIsExact
    BY DEF BookkeepingIsExact
  <2> DEFINE o == optimizer
             D == ToSet(trials)
             N == Len(trials)
  <2>1. KeptInv /\ trials \in Memory
    BY DEF RunInv, CatalogIsOptimizers
  <2>2. Keeps(o, D, N) /\ o.observed = N /\ Len(o.slots) = Len(pending) /\ DistinctSlots(o.slots)
    BY <2>1 DEF KeptInv, Kept
  <2>3. D \in SUBSET Trial(Objectives)
    BY <2>1 DEF Memory, ToSet
  <2>4. o.strategy \in Evolutionary => Len(o.population) = Min({N, PopulationSize})
    BY <2>2 DEF Keeps
  <2>5. o.strategy = "nsga2" =>
          Len(o.offspring) = (N - Min({N, PopulationSize})) % PopulationSize
    BY <2>2 DEF Keeps, Generations
  <2>6. o.strategy = "moead" => o.ideal = IdealOf({t \in D : t.feasible})
    BY <2>2 DEF Keeps, FeasibleOf
  <2>7. o.strategy = "bayes" => Trained(ToSet(TrainingTrials(o)), Eligible(D))
    BY <2>2, <2>3, TrainingIsExact DEF Keeps
  <2> HIDE DEF o, D, N
  <2>8. /\ o.observed = N /\ Len(o.slots) = Len(pending)
        /\ \A i, j \in DOMAIN o.slots : o.slots[i] = o.slots[j] /\ o.slots[i] # 0 => i = j
    BY <2>2 DEF DistinctSlots
  <2> QED
    BY <2>4, <2>5, <2>6, <2>7, <2>8, Zenon DEF BookkeepingIsExact, Trained, Eligible, o, D, N
<1> QED
  BY <1>1, RunInvariant, PTL
=============================================================================
