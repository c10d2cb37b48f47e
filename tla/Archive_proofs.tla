--------------------------- MODULE Archive_proofs ---------------------------
(***************************************************************************)
(* The front the archive rebuilds covers every feasible trial, and a batch *)
(* changes the ids of the front exactly when one of its trials ends on it. *)
(* The anchors are single trials that nothing of their kind dominates, the *)
(* order of preference is a strict total order, and selection fills a      *)
(* population from the fronts.                                             *)
(***************************************************************************)
EXTENDS ArchivePreference, Ranking_proofs, FunctionTheorems

-----------------------------------------------------------------------------
(***************************************************************************)
(* A set of trials is covered when its front dominates the feasible rest.  *)
(***************************************************************************)
Covered(trialSet) ==
    \A t \in Feasible(trialSet) :
        \E u \in ParetoFront(trialSet) : u = t \/ Dominates(u, t)

(***************************************************************************)
(* Adding one trial to a covered set leaves it covered: a trial it pushes  *)
(* off the front is dominated by the new one, and a new trial that is off  *)
(* the front pushes nothing.                                               *)
(***************************************************************************)
LEMMA CoveredByOneMore ==
    ASSUME NEW n \in Nat, NEW S \in SUBSET Trial(n), NEW t \in Trial(n), Covered(S)
    PROVE  Covered(S \union {t})
<1> DEFINE T == S \union {t}
<1> SUFFICES ASSUME NEW x \in Feasible(T)
             PROVE  \E u \in ParetoFront(T) : u = x \/ Dominates(u, x)
  BY DEF Covered
<1>1. T \subseteq Trial(n)
  OBVIOUS
<1>2. Feasible(T) \subseteq Trial(n) /\ Feasible(S) \subseteq Trial(n)
  BY <1>1 DEF Feasible
<1>3. Feasible(S) \subseteq Feasible(T) /\ Feasible(T) \subseteq Feasible(S) \union {t}
  BY DEF Feasible
<1>4. ParetoFront(S) \subseteq Feasible(S)
  BY DEF ParetoFront
<1>5. CASE \E f \in Feasible(S) : t \in Feasible(T) /\ Dominates(f, t)
  <2>1. PICK f0 \in Feasible(S) : t \in Feasible(T) /\ Dominates(f0, t)
    BY <1>5
  <2>2. PICK f \in ParetoFront(S) : Dominates(f, t)
    <3>1. PICK f \in ParetoFront(S) : f = f0 \/ Dominates(f, f0)
      BY DEF Covered
    <3>2. Dominates(f, t)
      BY <1>2, <1>4, <2>1, <3>1, DominatesTransitive
    <3> QED
      BY <3>2
  <2>3. \A g \in ParetoFront(S) : g \in ParetoFront(T)
    <3> SUFFICES ASSUME NEW g \in ParetoFront(S), Dominates(t, g)
                 PROVE  FALSE
      BY <1>3, <1>4 DEF ParetoFront
    <3>1. Dominates(f, g)
      BY <1>2, <1>4, <2>2, DominatesTransitive
    <3> QED
      BY <1>4, <3>1 DEF ParetoFront
  <2>4. CASE x \in Feasible(S)
    BY <2>3, <2>4 DEF Covered
  <2>5. CASE x = t
    BY <2>2, <2>3, <2>5
  <2> QED
    BY <1>3, <2>4, <2>5
<1>6. CASE ~\E f \in Feasible(S) : t \in Feasible(T) /\ Dominates(f, t)
  <2>1. t \in Feasible(T) => t \in ParetoFront(T)
    BY <1>3, <1>6, DominatesIrreflexive DEF ParetoFront
  <2>2. CASE x \in Feasible(S)
    <3>1. PICK u \in ParetoFront(S) : u = x \/ Dominates(u, x)
      BY <2>2 DEF Covered
    <3>2. CASE u \in ParetoFront(T)
      BY <3>1, <3>2
    <3>3. CASE u \notin ParetoFront(T)
      <4>1. t \in Feasible(T) /\ Dominates(t, u)
        BY <1>3, <1>4, <3>3 DEF ParetoFront
      <4>2. Dominates(t, x)
        BY <1>2, <1>4, <3>1, <4>1, DominatesTransitive
      <4> QED
        BY <2>1, <4>1, <4>2
    <3> QED
      BY <3>2, <3>3
  <2>3. CASE x = t
    BY <2>1, <2>3
  <2> QED
    BY <1>3, <2>2, <2>3
<1> QED
  BY <1>5, <1>6

(***************************************************************************)
(* The front of a set and of a larger one with a cover: they have the same *)
(* ids unless a trial of the larger set alone is on its front.             *)
(***************************************************************************)
LEMMA FrontChangesByNewTrials ==
    ASSUME NEW n \in Nat, NEW S \in SUBSET Trial(n), NEW T \in SUBSET Trial(n),
           S \subseteq T, Covered(T),
           \A s \in T, t \in T : s.id = t.id => s = t
    PROVE  Ids(ParetoFront(T)) # Ids(ParetoFront(S))
               <=> \E t \in ParetoFront(T) : t \notin S
<1>1. /\ Feasible(S) \subseteq S /\ Feasible(T) \subseteq T
      /\ Feasible(S) \subseteq Feasible(T) /\ Feasible(T) \cap S \subseteq Feasible(S)
  BY DEF Feasible
<1>2. ParetoFront(S) \subseteq Feasible(S) /\ ParetoFront(T) \subseteq Feasible(T)
  BY DEF ParetoFront
<1>3. ASSUME NEW t \in ParetoFront(T), t \notin S
      PROVE  Ids(ParetoFront(T)) # Ids(ParetoFront(S))
  <2>1. t.id \in Ids(ParetoFront(T))
    BY DEF Ids
  <2>2. t.id \notin Ids(ParetoFront(S))
    <3> SUFFICES ASSUME NEW s \in ParetoFront(S), s.id = t.id
                 PROVE  FALSE
      BY DEF Ids
    <3>1. s \in T /\ t \in T /\ s \in S
      BY <1>1, <1>2
    <3>2. s = t
      BY <3>1
    <3> QED
      BY <1>3, <3>1, <3>2
  <2> QED
    BY <2>1, <2>2
<1>4. ASSUME \A t \in ParetoFront(T) : t \in S
      PROVE  ParetoFront(T) = ParetoFront(S)
  <2>1. ASSUME NEW t \in ParetoFront(T)
        PROVE  t \in ParetoFront(S)
    <3>1. t \in Feasible(S)
      BY <1>1, <1>2, <1>4
    <3>2. ~\E other \in Feasible(T) : Dominates(other, t)
      BY DEF ParetoFront
    <3> QED
      BY <1>1, <3>1, <3>2 DEF ParetoFront
  <2>2. ASSUME NEW s \in ParetoFront(S)
        PROVE  s \in ParetoFront(T)
    <3>1. s \in Feasible(T)
      BY <1>1, <1>2
    <3>2. PICK u \in ParetoFront(T) : u = s \/ Dominates(u, s)
      BY <3>1 DEF Covered
    <3>3. u \in Feasible(S)
      BY <1>1, <1>2, <1>4
    <3>4. ~Dominates(u, s)
      BY <3>3 DEF ParetoFront
    <3> QED
      BY <3>2, <3>4
  <2> QED
    BY <2>1, <2>2
<1> QED
  BY <1>3, <1>4
-----------------------------------------------------------------------------
Dimension == Len(problem.objectives)

(***************************************************************************)
(* The archived trials of the batches before the current one.              *)
(***************************************************************************)
Before == {t \in archived : t.id < Len(trials) - told}

(***************************************************************************)
(* The inductive invariant: trials are numbered in order, the archive      *)
(* keeps exactly the successful ones, its front is exact and covers them,  *)
(* and the signature is that of the front of the earlier batches.          *)
(***************************************************************************)
IInv ==
    /\ TypeOK
    /\ told <= Len(trials) /\ Len(trials) <= Budget
    /\ \A i \in DOMAIN trials : trials[i].id = i - 1
    /\ archived = {trials[i] : i \in {j \in DOMAIN trials : trials[j].status = "success"}}
    /\ frontier = ParetoFront(archived)
    /\ Covered(archived)
    /\ signature = Ids(ParetoFront(Before))

LEMMA InitEstablishes == Init => IInv
<1> SUFFICES ASSUME Init PROVE IInv
  OBVIOUS
<1>1. problem \in Problems /\ trials = <<>> /\ archived = {} /\ frontier = {}
      /\ signature = {} /\ told = 0 /\ stagnation = 0
  BY DEF Init
<1>2. BatchSize \in Nat /\ Budget \in Nat
  BY ArchiveAssumption
<1>3. Len(trials) = 0 /\ DOMAIN trials = {} /\ trials \in Seq(Trial(Dimension))
  BY <1>1
<1>4. TypeOK
  BY <1>1, <1>2, <1>3 DEF TypeOK, Dimension
<1>5. ParetoFront({}) = {} /\ Covered({}) /\ Ids({}) = {}
  BY DEF ParetoFront, Feasible, Covered, Ids
<1>6. Before = {}
  BY <1>1 DEF Before
<1>7. archived = {trials[i] : i \in {j \in DOMAIN trials : trials[j].status = "success"}}
  BY <1>1, <1>3
<1>8. told <= Len(trials) /\ Len(trials) <= Budget
  BY <1>1, <1>2, <1>3
<1>9. \A i \in DOMAIN trials : trials[i].id = i - 1
  BY <1>3
<1>10. /\ frontier = ParetoFront(archived) /\ Covered(archived)
       /\ signature = Ids(ParetoFront(Before))
  BY <1>1, <1>5, <1>6
<1> QED
  BY <1>4, <1>7, <1>8, <1>9, <1>10, Zenon DEF IInv

(***************************************************************************)
(* What the invariant says of the ids of the archived trials.              *)
(***************************************************************************)
LEMMA ArchivedIds ==
    ASSUME IInv
    PROVE  /\ Dimension \in Nat
           /\ archived \subseteq Trial(Dimension)
           /\ \A t \in archived : t.id \in 0 .. (Len(trials) - 1)
           /\ \A s \in archived, t \in archived : s.id = t.id => s = t
<1>1. problem \in Problems /\ archived \subseteq Successful(Dimension)
      /\ trials \in Seq(Trial(Dimension))
  BY DEF IInv, TypeOK, Dimension
<1>2. Dimension \in Nat
  BY <1>1, ArchiveAssumption DEF Dimension
<1>3. archived \subseteq Trial(Dimension)
  BY <1>1 DEF Trial
<1>4. DOMAIN trials = 1 .. Len(trials) /\ Len(trials) \in Nat
  BY <1>1
<1>5. \A t \in archived : \E i \in 1 .. Len(trials) : t = trials[i] /\ t.id = i - 1
  BY <1>4 DEF IInv
<1>6. \A t \in archived : t.id \in 0 .. (Len(trials) - 1)
  BY <1>4, <1>5
<1>7. ASSUME NEW s \in archived, NEW t \in archived, s.id = t.id
      PROVE  s = t
  <2>1. PICK i \in 1 .. Len(trials) : s = trials[i] /\ s.id = i - 1
    BY <1>5
  <2>2. PICK j \in 1 .. Len(trials) : t = trials[j] /\ t.id = j - 1
    BY <1>5
  <2>3. i = j
    BY <1>4, <1>7, <2>1, <2>2
  <2> QED
    BY <2>1, <2>2, <2>3
<1> QED
  BY <1>2, <1>3, <1>6, <1>7

(***************************************************************************)
(* Adding a trial to the current batch keeps the invariant: its id is new, *)
(* so the trials of the earlier batches stay those they were.              *)
(***************************************************************************)
LEMMA AddPreserves == IInv /\ Add => IInv'
<1> SUFFICES ASSUME IInv, Add PROVE IInv'
  OBVIOUS
<1>1. PICK t \in Outcomes(problem, Len(trials)) :
        /\ trials' = Append(trials, t)
        /\ IF t.status = "success"
           THEN archived' = archived \union {t} /\ frontier' = ParetoFront(archived')
           ELSE UNCHANGED <<archived, frontier>>
  BY DEF Add
<1>2. told < BatchSize /\ Len(trials) < Budget /\ told' = told + 1
      /\ UNCHANGED <<problem, signature, stagnation>>
  BY DEF Add
<1>3. BatchSize \in Nat /\ Budget \in Nat
  BY ArchiveAssumption
<1>4. problem \in Problems /\ trials \in Seq(Trial(Dimension)) /\ told \in 0 .. BatchSize
      /\ archived \subseteq Successful(Dimension) /\ told <= Len(trials)
      /\ signature \subseteq 0 .. Budget /\ stagnation \in Nat
  BY DEF IInv, TypeOK, Dimension
<1>5. Len(trials) \in 0 .. Budget
  <2>1. Len(trials) \in Nat
    BY <1>4
  <2> QED
    BY <1>2, <1>3, <2>1
<1>6. t \in Trial(Dimension) /\ t.id = Len(trials)
  BY <1>4, <1>5, ArchiveAssumption DEF Dimension
<1>7. Dimension \in Nat
  BY ArchivedIds
<1>8. Dimension' = Dimension
  BY <1>2 DEF Dimension
<1>9. /\ trials' \in Seq(Trial(Dimension))
      /\ Len(trials') = Len(trials) + 1
      /\ DOMAIN trials' = 1 .. (Len(trials) + 1) /\ DOMAIN trials = 1 .. Len(trials)
      /\ \A i \in DOMAIN trials : trials'[i] = trials[i]
      /\ trials'[Len(trials) + 1] = t
  BY <1>1, <1>4, <1>6
<1>10. t.status = "success" => t \in Successful(Dimension)
  BY <1>6, <1>7, TrialTypes
<1>11. archived' \subseteq Successful(Dimension)
  BY <1>1, <1>4, <1>10
<1>12. frontier' = ParetoFront(archived') /\ frontier' \subseteq archived'
  <2>1. frontier' = ParetoFront(archived')
    BY <1>1 DEF IInv
  <2> QED
    BY <2>1 DEF ParetoFront, Feasible
<1>13. TypeOK'
  <2>1. told' \in 0 .. BatchSize
    BY <1>2, <1>3, <1>4
  <2> QED
    BY <1>2, <1>4, <1>8, <1>9, <1>11, <1>12, <2>1 DEF TypeOK, Dimension
<1>14. told' <= Len(trials') /\ Len(trials') <= Budget
  BY <1>2, <1>3, <1>4, <1>5, <1>9
<1>15. \A i \in DOMAIN trials' : trials'[i].id = i - 1
  <2> SUFFICES ASSUME NEW i \in DOMAIN trials' PROVE trials'[i].id = i - 1
    OBVIOUS
  <2>1. CASE i \in DOMAIN trials
    BY <1>9, <2>1 DEF IInv
  <2>2. CASE i = Len(trials) + 1
    BY <1>5, <1>6, <1>9, <2>2
  <2> QED
    BY <1>5, <1>9, <2>1, <2>2
<1>16. archived' = {trials'[i] : i \in {j \in DOMAIN trials' : trials'[j].status = "success"}}
  <2>1. archived = {trials[i] : i \in {j \in DOMAIN trials : trials[j].status = "success"}}
    BY DEF IInv
  <2>2. DOMAIN trials' = DOMAIN trials \union {Len(trials) + 1}
    BY <1>5, <1>9
  <2>3. CASE t.status = "success"
    <3>1. archived' = archived \union {t}
      BY <1>1, <2>3
    <3> QED
      BY <1>9, <2>1, <2>2, <2>3, <3>1
  <2>4. CASE t.status # "success"
    <3>1. archived' = archived
      BY <1>1, <2>4
    <3> QED
      BY <1>9, <2>1, <2>2, <2>4, <3>1
  <2> QED
    BY <2>3, <2>4
<1>17. Covered(archived)'
  <2>1. Covered(archived) /\ archived \subseteq Trial(Dimension)
    BY <1>4 DEF IInv, Trial
  <2>2. CASE t.status = "success"
    <3>1. Covered(archived \union {t})
      BY <1>6, <1>7, <2>1, CoveredByOneMore
    <3>2. archived' = archived \union {t}
      BY <1>1, <2>2
    <3> QED
      BY <3>1, <3>2 DEF Covered
  <2>3. CASE t.status # "success"
    BY <1>1, <2>1, <2>3 DEF Covered
  <2> QED
    BY <2>2, <2>3
<1>18. Before' = Before
  <2>1. Len(trials') - told' = Len(trials) - told
    BY <1>2, <1>3, <1>4, <1>5, <1>9
  <2>2. ~(t.id < Len(trials) - told)
    BY <1>3, <1>4, <1>5, <1>6
  <2>3. archived' = archived \/ archived' = archived \union {t}
    BY <1>1
  <2> QED
    BY <2>1, <2>2, <2>3 DEF Before
<1>19. signature' = Ids(ParetoFront(Before'))
  BY <1>2, <1>18 DEF IInv
<1> QED
  BY <1>12, <1>13, <1>14, <1>15, <1>16, <1>17, <1>19 DEF IInv

(***************************************************************************)
(* At the end of a batch every archived trial is of an earlier batch.      *)
(***************************************************************************)
LEMMA EndBatchPreserves == IInv /\ EndBatch => IInv'
<1> SUFFICES ASSUME IInv, EndBatch PROVE IInv'
  OBVIOUS
<1>1. told > 0 /\ signature' = Ids(frontier) /\ told' = 0
      /\ UNCHANGED <<problem, trials, archived, frontier>>
      /\ stagnation' = IF Ids(frontier) # signature THEN 0 ELSE stagnation + told
  BY DEF EndBatch
<1>2. BatchSize \in Nat /\ Budget \in Nat
  BY ArchiveAssumption
<1>3. Len(trials) \in Nat /\ Len(trials) <= Budget /\ told \in Nat /\ stagnation \in Nat
  BY <1>2 DEF IInv, TypeOK
<1>4. Before' = archived
  <2>1. \A t \in archived : t.id < Len(trials') - told'
    BY <1>1, <1>3, ArchivedIds
  <2> QED
    BY <1>1, <2>1 DEF Before
<1>5. signature' = Ids(ParetoFront(Before'))
  BY <1>1, <1>4 DEF IInv
<1>6. signature' \subseteq 0 .. Budget
  <2>1. \A t \in archived : t.id \in 0 .. Budget
    BY <1>2, <1>3, ArchivedIds
  <2>2. frontier \subseteq archived
    BY DEF IInv, TypeOK
  <2> QED
    BY <1>1, <2>1, <2>2 DEF Ids
<1>7. told' \in 0 .. BatchSize /\ told' <= Len(trials') /\ stagnation' \in Nat
  BY <1>1, <1>2, <1>3
<1>8. TypeOK'
  BY <1>1, <1>6, <1>7 DEF IInv, TypeOK
<1>9. Covered(archived)'
  BY <1>1 DEF IInv, Covered
<1> QED
  BY <1>1, <1>5, <1>7, <1>8, <1>9 DEF IInv

LEMMA NextPreserves == IInv /\ [Next]_vars => IInv'
<1> SUFFICES ASSUME IInv, [Next]_vars PROVE IInv'
  OBVIOUS
<1>1. CASE Add
  BY <1>1, AddPreserves
<1>2. CASE EndBatch
  BY <1>2, EndBatchPreserves
<1>3. CASE UNCHANGED vars
  BY <1>3 DEF vars, IInv, TypeOK, Before, Covered
<1> QED
  BY <1>1, <1>2, <1>3 DEF Next

LEMMA Inductive == Spec => []IInv
<1>1. Init => IInv
  BY InitEstablishes
<1>2. IInv /\ [Next]_vars => IInv'
  BY NextPreserves
<1> QED
  BY <1>1, <1>2, PTL DEF Spec

(***************************************************************************)
(* The variables of the archive keep their types.                          *)
(***************************************************************************)
THEOREM TypeCorrect == Spec => []TypeOK
<1>1. IInv => TypeOK
  BY DEF IInv
<1> QED
  BY <1>1, Inductive, PTL

(***************************************************************************)
(* Whatever was found to be feasible is on the front or dominated by it.   *)
(***************************************************************************)
THEOREM FrontAlwaysCovers == Spec => []FrontCovers
<1>1. IInv => FrontCovers
  <2> SUFFICES ASSUME IInv, NEW i \in DOMAIN trials, trials[i].feasible
               PROVE  \E t \in frontier : t = trials[i] \/ Dominates(t, trials[i])
    BY DEF FrontCovers
  <2>1. trials[i] \in Trial(Dimension)
    BY DEF IInv, TypeOK, Dimension
  <2>2. trials[i].status = "success"
    BY <2>1, ArchivedIds, TrialTypes
  <2>3. trials[i] \in Feasible(archived)
    BY <2>2 DEF IInv, Feasible
  <2> QED
    BY <2>3 DEF IInv, Covered
<1> QED
  BY <1>1, Inductive, PTL

(***************************************************************************)
(* A batch restarts the count of stagnation exactly when one of its trials *)
(* is on the front it ends with.                                           *)
(***************************************************************************)
THEOREM ProgressNeedsANewTrial == Spec => ProgressIsANewTrial
<1>1. ASSUME IInv, EndBatch
      PROVE  (stagnation' = 0) =
                (\E i \in (Len(trials) - told + 1) .. Len(trials) : trials[i] \in frontier')
  <2>1. told > 0 /\ frontier' = frontier
        /\ stagnation' = IF Ids(frontier) # signature THEN 0 ELSE stagnation + told
    BY <1>1 DEF EndBatch
  <2>2. told \in Nat /\ stagnation \in Nat /\ Len(trials) \in Nat /\ told <= Len(trials)
    BY <1>1, ArchiveAssumption DEF IInv, TypeOK
  <2>3. stagnation' = 0 <=> Ids(frontier) # signature
    BY <2>1, <2>2
  <2>4. Ids(frontier) # signature <=> \E t \in frontier : t \notin Before
    <3>1. Before \subseteq archived /\ frontier = ParetoFront(archived) /\ Covered(archived)
          /\ signature = Ids(ParetoFront(Before))
      BY <1>1 DEF IInv, Before
    <3>2. Before \in SUBSET Trial(Dimension) /\ archived \in SUBSET Trial(Dimension)
          /\ Dimension \in Nat
      BY <1>1, <3>1, ArchivedIds
    <3>3. \A s \in archived, t \in archived : s.id = t.id => s = t
      BY <1>1, ArchivedIds
    <3> QED
      BY <3>1, <3>2, <3>3, FrontChangesByNewTrials
  <2>5. (\E t \in frontier : t \notin Before)
          <=> \E i \in (Len(trials) - told + 1) .. Len(trials) : trials[i] \in frontier
    <3>1. frontier \subseteq archived
      BY <1>1 DEF IInv, TypeOK
    <3>2. DOMAIN trials = 1 .. Len(trials)
      BY <1>1 DEF IInv, TypeOK
    <3>3. ASSUME NEW t \in frontier, t \notin Before
          PROVE  \E i \in (Len(trials) - told + 1) .. Len(trials) : trials[i] \in frontier
      <4>1. PICK i \in 1 .. Len(trials) : t = trials[i] /\ t.id = i - 1
        BY <1>1, <3>1, <3>2 DEF IInv
      <4>2. ~(i - 1 < Len(trials) - told)
        BY <3>1, <3>3, <4>1 DEF Before
      <4>3. i \in (Len(trials) - told + 1) .. Len(trials)
        BY <2>2, <4>2
      <4> QED
        BY <4>1, <4>3
    <3>4. ASSUME NEW i \in (Len(trials) - told + 1) .. Len(trials), trials[i] \in frontier
          PROVE  \E t \in frontier : t \notin Before
      <4>1. i \in 1 .. Len(trials) /\ i \in Int /\ i - 1 >= Len(trials) - told
        BY <2>2
      <4>2. trials[i].id = i - 1
        BY <1>1, <3>2, <4>1 DEF IInv
      <4>3. ~(trials[i].id < Len(trials) - told)
        BY <2>2, <4>1, <4>2
      <4>4. trials[i] \notin Before
        BY <4>3 DEF Before
      <4> QED
        BY <3>4, <4>4
    <3> QED
      BY <3>3, <3>4
  <2> QED
    BY <2>1, <2>3, <2>4, <2>5
<1>2. IInv /\ [Next]_vars =>
        [told' = 0 /\ told > 0 =>
            (stagnation' = 0) =
                (\E i \in (Len(trials) - told + 1) .. Len(trials) : trials[i] \in frontier')]_vars
  <2> SUFFICES ASSUME IInv, Next, told' = 0, told > 0
               PROVE  (stagnation' = 0) =
                (\E i \in (Len(trials) - told + 1) .. Len(trials) : trials[i] \in frontier')
    OBVIOUS
  <2>1. ~Add
    <3>1. told \in Nat
      BY ArchiveAssumption DEF IInv, TypeOK
    <3> QED
      BY <3>1 DEF Add
  <2> QED
    BY <1>1, <2>1 DEF Next
<1> QED
  BY <1>2, Inductive, PTL DEF Spec, ProgressIsANewTrial
-----------------------------------------------------------------------------
(* What the anchors are measured with.                                     *)


\* The distance between two trials of a problem is a natural.
LEMMA DistanceIsNatural ==
    ASSUME NEW n \in Nat, NEW a \in [1 .. n -> Int], NEW b \in [1 .. n -> Int]
    PROVE  SquaredDistance(a, b) \in Nat
<1> DEFINE squares == [i \in 1 .. n |-> (a[i] - b[i]) * (a[i] - b[i])]
<1>1. \A d \in Int : d * d \in Nat
  OBVIOUS
<1>2. \A i \in 1 .. n : a[i] - b[i] \in Int
  OBVIOUS
<1>3. squares \in [1 .. n -> Nat]
  BY <1>1, <1>2
<1>4. IsFiniteSet(1 .. n)
  BY FS_Interval
<1> HIDE DEF squares
<1>5. SumFunction(squares) \in Nat
  BY <1>3, <1>4, SumIsNatural
<1>6. SquaredDistance(a, b) = SumFunction(squares)
  BY DEF SquaredDistance, squares
<1> QED
  BY <1>5, <1>6
-----------------------------------------------------------------------------
(* The anchors.                                                            *)

LEMMA ArchiveIsFinite ==
    ASSUME IInv
    PROVE  /\ IsFiniteSet(archived) /\ IsFiniteSet(frontier)
           /\ archived \subseteq Successful(Dimension) /\ frontier \subseteq archived
<1>1. /\ \A t \in archived : t.id \in 0 .. (Len(trials) - 1)
      /\ \A s \in archived, t \in archived : s.id = t.id => s = t
  BY ArchivedIds
<1>2. Len(trials) \in Nat /\ archived \subseteq Successful(Dimension) /\ frontier \subseteq archived
  BY DEF IInv, TypeOK, Dimension
<1> DEFINE ids == 0 .. (Len(trials) - 1)
           f == [t \in archived |-> t.id]
<1>3. f \in Injection(archived, ids)
  BY <1>1 DEF Injection, IsInjective
<1>4. IsFiniteSet(ids)
  BY <1>2, FS_Interval
<1>5. IsFiniteSet(archived)
  BY <1>3, <1>4, FS_Injection
<1>6. IsFiniteSet(frontier)
  BY <1>2, <1>5, FS_Subset
<1> QED
  BY <1>2, <1>5, <1>6

\* Of trials with ids that differ, one has the least.
LEMMA LeastId ==
    ASSUME NEW n \in Nat, NEW T \in SUBSET Successful(n), T # {}
    PROVE  \E t \in T : \A u \in T : t.id <= u.id
<1> DEFINE ids == {t.id : t \in T}
<1>1. ids \in SUBSET Nat /\ ids # {}
  BY DEF Successful
<1>2. PICK x \in ids : \A y \in ids : x <= y
  BY <1>1, LeastNatural
<1> QED
  BY <1>2

(***************************************************************************)
(* The infeasible trials have one best: the least id among the smallest    *)
(* worst violations among the smallest totals.                             *)
(***************************************************************************)
LEMMA BestIsOne ==
    ASSUME IInv, \E t \in archived : ~t.feasible
    PROVE  \E b : BestInfeasible = {b}
<1> DEFINE infeasible == {t \in archived : ~t.feasible}
           totals == {t.violation : t \in infeasible}
<1>1. /\ Dimension \in Nat /\ archived \subseteq Successful(Dimension)
      /\ \A s \in archived, t \in archived : s.id = t.id => s = t
  BY ArchivedIds, ArchiveIsFinite
<1>2. infeasible # {} /\ infeasible \subseteq archived
  OBVIOUS
<1>3. \A t \in infeasible : t.id \in Nat /\ t.violation \in Nat /\ t.worst \in Nat
  BY <1>1 DEF Successful
<1>4. PICK total \in totals : \A y \in totals : total <= y
  <2>1. totals \in SUBSET Nat /\ totals # {}
    BY <1>2, <1>3
  <2> QED
    BY <2>1, LeastNatural
<1> DEFINE least == {t \in infeasible : t.violation = total}
           worsts == {t.worst : t \in least}
<1>5. PICK worst \in worsts : \A y \in worsts : worst <= y
  <2>1. worsts \in SUBSET Nat /\ worsts # {}
    BY <1>3, <1>4
  <2> QED
    BY <2>1, LeastNatural
<1> DEFINE tied == {t \in least : t.worst = worst}
<1>6. PICK b \in tied : \A u \in tied : b.id <= u.id
  <2>1. tied \in SUBSET Successful(Dimension) /\ tied # {}
    BY <1>1, <1>5
  <2> QED
    BY <1>1, <2>1, LeastId
<1> DEFINE NotAfter(t, other) ==
             \/ t.violation < other.violation
             \/ t.violation = other.violation /\ t.worst < other.worst
             \/ t.violation = other.violation /\ t.worst = other.worst /\ t.id <= other.id
<1>7. b \in infeasible
  BY <1>6
<1>8. ASSUME NEW other \in infeasible PROVE NotAfter(b, other)
  <2>1. /\ b.violation = total /\ b.worst = worst /\ b.id \in Nat
        /\ total \in Nat /\ worst \in Nat
    BY <1>3, <1>6, <1>7
  <2>2. other.id \in Nat /\ other.violation \in Nat /\ other.worst \in Nat
    BY <1>3
  <2>3. total <= other.violation
    BY <1>4
  <2>4. other.violation = total => worst <= other.worst
    BY <1>5
  <2>5. other.violation = total /\ other.worst = worst => b.id <= other.id
    BY <1>6
  <2> QED
    BY <2>1, <2>2, <2>3, <2>4, <2>5
<1>9. ASSUME NEW c \in infeasible, NotAfter(c, b) PROVE c = b
  <2>1. NotAfter(b, c)
    BY <1>8
  <2>2. /\ c.id \in Nat /\ c.violation \in Nat /\ c.worst \in Nat
        /\ b.id \in Nat /\ b.violation \in Nat /\ b.worst \in Nat
    BY <1>3, <1>7
  <2>3. c.id = b.id
    BY <1>9, <2>1, <2>2
  <2> QED
    BY <1>1, <1>2, <1>7, <2>3
<1>10. BestInfeasible = {t \in infeasible : \A other \in infeasible : NotAfter(t, other)}
  BY Zenon DEF BestInfeasible
<1> HIDE DEF NotAfter, infeasible
<1>11. BestInfeasible = {b}
  BY <1>7, <1>8, <1>9, <1>10
<1> QED
  BY <1>11

(***************************************************************************)
(* A front that is not empty has one sparse anchor: of the cells with the  *)
(* fewest trials, the most remote trial, and of these the oldest.          *)
(***************************************************************************)
LEMMA SparseIsOne ==
    ASSUME IInv, frontier # {}
    PROVE  \E a \in frontier : SparseAnchor = {a}
<1>1. /\ Dimension \in Nat /\ archived \subseteq Successful(Dimension)
      /\ frontier \subseteq archived /\ IsFiniteSet(frontier)
      /\ \A s \in archived, t \in archived : s.id = t.id => s = t
  BY ArchivedIds, ArchiveIsFinite
<1>2. Cardinality(frontier) \in Nat /\ Cardinality(frontier) # 0
  BY <1>1, FS_CardinalityType, FS_EmptySet
<1>3. CASE Cardinality(frontier) <= 1
  <2>1. Cardinality(frontier) = 1
    BY <1>2, <1>3
  <2>2. PICK a : frontier = {a}
    BY <1>1, <2>1, FS_Singleton
  <2>3. SparseAnchor = frontier
    BY <1>3 DEF SparseAnchor
  <2> QED
    BY <2>2, <2>3
<1>4. CASE ~(Cardinality(frontier) <= 1)
  <2> DEFINE Occupancy(t) == Cardinality({u \in frontier : Cell(u) = Cell(t)})
             occupancies == {Occupancy(t) : t \in frontier}
             fewest == Min(occupancies)
             Distances(t) == {SquaredDistance(t.vector, u.vector) : u \in frontier \ {t}}
             Remote(t) == Min(Distances(t))
             candidates == {t \in frontier : Occupancy(t) = fewest}
             NotAfter(t, u) == \/ Remote(t) > Remote(u)
                               \/ Remote(t) = Remote(u) /\ t.id <= u.id
  <2>1. SparseAnchor = {t \in candidates : \A u \in candidates : NotAfter(t, u)}
    BY <1>4, Zenon DEF SparseAnchor
  <2>2. candidates # {} /\ candidates \subseteq frontier
    <3>1. ASSUME NEW t \in frontier PROVE Occupancy(t) \in Nat
      <4> DEFINE cell == {u \in frontier : Cell(u) = Cell(t)}
      <4>1. cell \in SUBSET frontier
        OBVIOUS
      <4> HIDE DEF cell
      <4>2. IsFiniteSet(cell)
        BY <1>1, <4>1, FS_Subset
      <4>3. Cardinality(cell) \in Nat
        BY <4>2, FS_CardinalityType
      <4> QED
        BY <4>3 DEF cell
    <3> HIDE DEF Occupancy
    <3>2. occupancies \in SUBSET Nat /\ occupancies # {}
      BY <3>1
    <3>3. fewest \in occupancies
      <4> HIDE DEF occupancies
      <4> QED
        BY <3>2, MinIsLeast
    <3>4. \E t \in frontier : Occupancy(t) = fewest
      BY <3>3, Zenon
    <3> QED
      BY <3>4, Zenon
  <2>3. \A t \in frontier : t.id \in Nat /\ t.vector \in [1 .. Dimension -> Int]
    BY <1>1 DEF Successful
  <2>4. ASSUME NEW t \in frontier PROVE Remote(t) \in Nat
    <3>1. \A u \in frontier : SquaredDistance(t.vector, u.vector) \in Nat
      BY <1>1, <2>3, DistanceIsNatural
    <3>2. frontier # {t}
      <4>1. Cardinality({t}) = 1
        BY FS_Singleton
      <4> QED
        BY <1>2, <1>4, <4>1
    <3>3. frontier \ {t} # {}
      BY <3>2
    <3>4. Distances(t) \in SUBSET Nat /\ Distances(t) # {}
      BY <3>1, <3>3
    <3> HIDE DEF Distances
    <3> QED
      BY <3>4, MinIsLeast
  <2> HIDE DEF Remote, candidates
  <2> DEFINE f == [t \in candidates |-> Remote(t)]
  <2>5. PICK m \in candidates : \A u \in candidates : Remote(u) <= Remote(m)
    <3>1. IsFiniteSet(candidates)
      BY <1>1, <2>2, FS_Subset
    <3>2. f \in [candidates -> Nat]
      BY <2>2, <2>4
    <3>3. \A t \in candidates : f[t] = Remote(t)
      OBVIOUS
    <3> HIDE DEF f
    <3>4. PICK m \in candidates : \A u \in candidates : f[u] <= f[m]
      BY <2>2, <3>1, <3>2, GreatestExists
    <3> QED
      BY <3>3, <3>4
  <2> DEFINE remotest == {t \in candidates : Remote(t) = Remote(m)}
  <2>6. PICK a \in remotest : \A u \in remotest : a.id <= u.id
    <3>1. remotest \in SUBSET Successful(Dimension) /\ remotest # {}
      BY <1>1, <2>2, <2>5
    <3> HIDE DEF remotest
    <3> QED
      BY <1>1, <3>1, LeastId
  <2>7. a \in candidates /\ Remote(a) = Remote(m) /\ Remote(m) \in Nat
    BY <2>2, <2>4, <2>5, <2>6
  <2>8. ASSUME NEW u \in candidates PROVE NotAfter(a, u)
    <3>1. Remote(u) \in Nat /\ Remote(u) <= Remote(m)
      BY <2>2, <2>4, <2>5
    <3>2. Remote(u) = Remote(m) => a.id <= u.id
      BY <2>6
    <3> QED
      BY <2>7, <3>1, <3>2
  <2>9. ASSUME NEW c \in candidates, NotAfter(c, a) PROVE c = a
    <3>1. NotAfter(a, c)
      BY <2>8
    <3>2. /\ Remote(a) \in Nat /\ Remote(c) \in Nat /\ a.id \in Nat /\ c.id \in Nat
          /\ a \in archived /\ c \in archived
      BY <1>1, <2>2, <2>3, <2>4, <2>7
    <3>3. c.id = a.id
      BY <2>9, <3>1, <3>2
    <3> QED
      BY <1>1, <3>2, <3>3
  <2> HIDE DEF NotAfter
  <2>10. SparseAnchor = {a}
    BY <2>1, <2>7, <2>8, <2>9
  <2> QED
    BY <2>2, <2>7, <2>10
<1> QED
  BY <1>3, <1>4

(***************************************************************************)
(* The generator refines and repairs from single, undominated trials,      *)
(* whatever the problem's metrics and the order in which trials came       *)
(* (archive.py sparse_anchor and best_infeasible).                         *)
(***************************************************************************)
THEOREM AnchorsAreBest == Spec => []AnchorsAreUndominated
<1>1. IInv => AnchorsAreUndominated
  <2> SUFFICES ASSUME IInv PROVE AnchorsAreUndominated
    OBVIOUS
  <2>1. /\ archived \subseteq Successful(Dimension) /\ frontier \subseteq archived
        /\ frontier = ParetoFront(archived)
    BY ArchiveIsFinite DEF IInv
  <2>2. frontier = {} => SparseAnchor = {}
    <3> SUFFICES ASSUME frontier = {} PROVE SparseAnchor = {}
      OBVIOUS
    <3>1. Cardinality(frontier) <= 1
      BY FS_EmptySet
    <3> QED
      BY <3>1, Zenon DEF SparseAnchor
  <2>3. SparseAnchor \subseteq frontier
    BY <2>2, SparseIsOne
  <2>4. Cardinality(SparseAnchor) = Cardinality(Ids(SparseAnchor))
    <3>1. CASE frontier = {}
      <4>1. Ids({}) = {}
        BY DEF Ids
      <4> QED
        BY <2>2, <3>1, <4>1
    <3>2. CASE frontier # {}
      <4>1. PICK a : SparseAnchor = {a}
        BY <3>2, SparseIsOne
      <4>2. Ids({a}) = {a.id}
        BY DEF Ids
      <4>3. Cardinality({a}) = 1 /\ Cardinality({a.id}) = 1
        BY FS_Singleton
      <4> QED
        BY <4>1, <4>2, <4>3
    <3> QED
      BY <3>1, <3>2
  <2>5. frontier # {} => Cardinality(SparseAnchor) = 1
    BY SparseIsOne, FS_Singleton
  <2>6. (\E t \in archived : ~t.feasible) => Cardinality(BestInfeasible) = 1
    BY BestIsOne, FS_Singleton
  <2>7. ASSUME NEW anchor \in SparseAnchor, NEW t \in archived,
               t.feasible = anchor.feasible
        PROVE  ~Dominates(t, anchor)
    <3>1. anchor \in Feasible(archived) /\ ~\E other \in Feasible(archived) : Dominates(other, anchor)
      BY <2>1, <2>3 DEF ParetoFront
    <3>2. t.status = "success"
      BY <2>1 DEF Successful
    <3>3. t.feasible
      BY <2>7, <3>1, Zenon DEF Feasible
    <3>4. t \in Feasible(archived)
      BY <3>2, <3>3 DEF Feasible
    <3> QED
      BY <3>1, <3>4
  <2>8. ASSUME NEW anchor \in BestInfeasible, NEW t \in archived,
               t.feasible = anchor.feasible
        PROVE  ~Dominates(t, anchor)
    <3>1. anchor \in archived /\ ~anchor.feasible
      BY DEF BestInfeasible
    <3>2. ~t.feasible
      BY <2>8, <3>1, Zenon
    <3>3. \/ anchor.violation < t.violation
          \/ anchor.violation = t.violation /\ anchor.worst < t.worst
          \/ anchor.violation = t.violation /\ anchor.worst = t.worst /\ anchor.id <= t.id
      BY <3>2 DEF BestInfeasible
    <3>4. /\ anchor.status = "success" /\ anchor.violation \in Nat /\ anchor.worst \in Nat
          /\ t.violation \in Nat /\ t.worst \in Nat
      BY <2>1, <3>1 DEF Successful
    <3>5. ~(t.violation < anchor.violation)
          /\ ~(t.violation = anchor.violation /\ t.worst < anchor.worst)
      BY <3>3, <3>4
    <3>6. anchor.status # "failed"
      BY <3>4
    <3> QED
      BY <3>1, <3>2, <3>5, <3>6, Zenon DEF Dominates
  <2> QED
    BY <2>4, <2>5, <2>6, <2>7, <2>8 DEF AnchorsAreUndominated
<1> QED
  BY <1>1, Inductive, PTL
(***************************************************************************)
(* The order of preference is a strict total order on the trials of every  *)
(* run, for any number of objectives and wherever the squashing function   *)
(* saturates (optimizers/ranking.py preferred and preference_key).         *)
(***************************************************************************)
THEOREM PreferenceIsAStrictOrder == Spec => []PreferenceIsTotal
<1>1. IInv => PreferenceIsTotal
  <2> SUFFICES ASSUME IInv PROVE PreferenceIsTotal
    OBVIOUS
  <2> DEFINE Less(s, t) == Lexicographic(PreferenceKey(s), PreferenceKey(t))
  <2>1. /\ trials \in Seq(Trial(Dimension)) /\ \A i \in DOMAIN trials : trials[i].id = i - 1
        /\ problem \in Problems
    BY DEF IInv, TypeOK, Dimension
  <2>2. Dimension \in Nat
    BY <2>1, ArchiveAssumption DEF Dimension
  <2>3. /\ Run \subseteq Trial(Dimension)
        /\ \A t \in Run : \E i \in DOMAIN trials : t = trials[i]
    BY <2>1 DEF Run, Range
  <2>4. ASSUME NEW s \in Run, NEW t \in Run, s # t PROVE s.id # t.id
    <3>1. PICK i \in DOMAIN trials : s = trials[i]
      BY <2>3
    <3>2. PICK j \in DOMAIN trials : t = trials[j]
      BY <2>3
    <3>3. i # j /\ i \in Nat /\ j \in Nat
      BY <2>1, <2>4, <3>1, <3>2
    <3>4. s.id = i - 1 /\ t.id = j - 1
      BY <2>1, <3>1, <3>2
    <3> QED
      BY <3>3, <3>4
  <2>5. \A s, t \in Run : Preferred(s, t) <=> Less(s, t)
    BY <2>2, <2>3, KeyDecides
  <2>6. \A s \in Run : PreferenceKey(s) \in Seq(Int)
    BY <2>2, <2>3, KeyKind
  <2>7. \A s, t \in Run : s # t => Less(s, t) \/ Less(t, s)
    BY <2>2, <2>3, <2>4, IdentityDecides
  <2>8. \A s \in Run : ~Less(s, s)
    BY <2>6, LexicographicIrreflexive
  <2>9. \A s, t, u \in Run : Less(s, t) /\ Less(t, u) => Less(s, u)
    BY <2>6, LexicographicTransitive
  <2> HIDE DEF Less
  <2>10. \A s, t \in Run : Preferred(s, t) \in BOOLEAN
    BY DEF Preferred, Dominates, Lexicographic
  <2>11. ASSUME NEW s \in Run, NEW t \in Run, s # t
         PROVE  Preferred(s, t) = ~Preferred(t, s)
    <3>1. Less(s, t) \/ Less(t, s)
      BY <2>7, <2>11
    <3>2. ~(Less(s, t) /\ Less(t, s))
      BY <2>8, <2>9, Zenon
    <3>3. Preferred(s, t) <=> ~Preferred(t, s)
      BY <2>5, <3>1, <3>2, Zenon
    <3> QED
      BY <2>10, <3>3
  <2>12. \A t \in Run : ~Preferred(t, t)
    BY <2>5, <2>8, Zenon
  <2>13. \A s, t, u \in Run : Preferred(s, t) /\ Preferred(t, u) => Preferred(s, u)
    BY <2>5, <2>9, Zenon
  <2> QED
    BY <2>11, <2>12, <2>13 DEF PreferenceIsTotal
<1> QED
  BY <1>1, Inductive, PTL


(***************************************************************************)
(* The run's trials are a finite set, one per evaluation.                  *)
(***************************************************************************)
LEMMA RunIsFinite ==
    ASSUME IInv
    PROVE  /\ Dimension \in Nat /\ Run \subseteq Trial(Dimension)
           /\ IsFiniteSet(Run) /\ Cardinality(Run) = Len(trials) /\ Len(trials) \in Nat
           /\ \A s \in Run, t \in Run : s.id = t.id => s = t
<1>1. /\ trials \in Seq(Trial(Dimension)) /\ \A i \in DOMAIN trials : trials[i].id = i - 1
      /\ problem \in Problems
  BY DEF IInv, TypeOK, Dimension
<1>2. Dimension \in Nat
  BY <1>1, ArchiveAssumption DEF Dimension
<1>3. Len(trials) \in Nat /\ DOMAIN trials = 1 .. Len(trials)
  BY <1>1
<1>4. /\ Run = {trials[i] : i \in 1 .. Len(trials)}
      /\ Run \subseteq Trial(Dimension)
  BY <1>1, <1>3 DEF Run, Range
<1>5. ASSUME NEW s \in Run, NEW t \in Run, s.id = t.id PROVE s = t
  <2>1. PICK i \in 1 .. Len(trials) : s = trials[i]
    BY <1>4
  <2>2. PICK j \in 1 .. Len(trials) : t = trials[j]
    BY <1>4
  <2>3. s.id = i - 1 /\ t.id = j - 1 /\ i \in Nat /\ j \in Nat
    BY <1>1, <1>3, <2>1, <2>2
  <2>4. i - 1 = j - 1
    BY <1>5, <2>3, Zenon
  <2>5. i = j
    BY <2>3, <2>4
  <2> QED
    BY <2>1, <2>2, <2>5
<1>6. trials \in Bijection(1 .. Len(trials), Run)
  <2>1. trials \in [1 .. Len(trials) -> Run]
    BY <1>1, <1>3, <1>4
  <2>2. \A i, j \in 1 .. Len(trials) : trials[i] = trials[j] => i = j
    BY <1>1, <1>3
  <2>3. \A t \in Run : \E i \in 1 .. Len(trials) : trials[i] = t
    BY <1>4
  <2> QED
    BY <2>1, <2>2, <2>3, Fun_IsBij
<1>7. /\ IsFiniteSet(1 .. Len(trials)) /\ Cardinality(1 .. Len(trials)) = Len(trials)
  <2> DEFINE N == Len(trials)
  <2> HIDE DEF N
  <2>1. N \in Nat
    BY <1>3 DEF N
  <2>2. IsFiniteSet(1 .. N) /\ Cardinality(1 .. N) = IF 1 > N THEN 0 ELSE N - 1 + 1
    BY <2>1, FS_Interval
  <2>3. IsFiniteSet(1 .. N) /\ Cardinality(1 .. N) = N
    BY <2>1, <2>2
  <2> QED
    BY <2>3 DEF N
<1>8. IsFiniteSet(Run) /\ Cardinality(Run) = Len(trials)
  BY <1>6, <1>7, FS_Bijection DEF ExistsBijection
<1> QED
  BY <1>2, <1>3, <1>4, <1>5, <1>8, Zenon

(***************************************************************************)
(* The sort by counting down emits the fronts dominance defines, whatever  *)
(* the trials, and a population of any size is filled from them exactly    *)
(* and front by front (optimizers/ranking.py non_dominated_sort,           *)
(* crowding_distance and select_population).                               *)
(***************************************************************************)
THEOREM SelectionIsExact == Spec => []SelectionFollowsTheFronts
<1>1. IInv => SelectionFollowsTheFronts
  <2> SUFFICES ASSUME IInv PROVE SelectionFollowsTheFronts
    OBVIOUS
  <2> DEFINE fronts == NonDominatedSort(Run)
             Earlier(i) == UNION {fronts[j] : j \in 1 .. i - 1}
  <2>1. /\ Dimension \in Nat /\ Run \in SUBSET Trial(Dimension) /\ IsFiniteSet(Run)
        /\ Cardinality(Run) = Len(trials) /\ Len(trials) \in Nat
        /\ \A s \in Run, t \in Run : s.id = t.id => s = t
    BY RunIsFinite
  <2>2. Fronts(Run, fronts)
    BY <2>1, SortIsExact
  <2>3. \A size \in Nat : Populates(Run, fronts, size, SelectPopulation(Run, size))
    BY <2>1, PopulationIsExact
  <2> HIDE DEF fronts
  <2>4. Run = UNION ToSet(fronts)
    <3>1. Upto(fronts, Len(fronts)) = Run /\ DOMAIN fronts = 1 .. Len(fronts)
      BY <2>2, UptoParts DEF Fronts
    <3> QED
      BY <3>1 DEF Upto, ToSet
  <2>5. \A i \in DOMAIN fronts :
          fronts[i] = {t \in Run \ Earlier(i) :
                         ~\E u \in Run \ Earlier(i) : Dominates(u, t)}
    BY <2>2, Zenon DEF Fronts, Undominated, Upto
  <2>6. ASSUME NEW size \in 0 .. Len(trials)
        PROVE  LET selected == SelectPopulation(Run, size)
               IN  /\ Cardinality(selected) = size
                   /\ \A i, j \in DOMAIN fronts :
                        i < j /\ fronts[j] \cap selected # {} => fronts[i] \subseteq selected
    <3> DEFINE selected == SelectPopulation(Run, size)
    <3>1. size \in Nat /\ size <= Cardinality(Run)
      BY <2>1
    <3>2. Populates(Run, fronts, size, selected)
      BY <2>3, <3>1
    <3> HIDE DEF selected
    <3>3. Cardinality(selected) = size
      BY <2>1, <3>1, <3>2 DEF Populates
    <3>4. \A i, j \in DOMAIN fronts :
             i < j /\ fronts[j] \cap selected # {} => fronts[i] \subseteq selected
      BY <3>2 DEF Populates
    <3> QED
      BY <3>3, <3>4 DEF selected
  <2> QED
    BY <2>4, <2>5, <2>6, Zenon DEF SelectionFollowsTheFronts, fronts
<1> QED
  BY <1>1, Inductive, PTL
=============================================================================
