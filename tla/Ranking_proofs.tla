---------------------------- MODULE Ranking_proofs ----------------------------
(***************************************************************************)
(* Dominance is a strict partial order on the trials of a problem, and the *)
(* order of preference is decided by a key.  So counting dominators down   *)
(* sorts trials into the fronts that dominance defines, and a population   *)
(* of any size is selected from them exactly.                              *)
(***************************************************************************)
EXTENDS Ranking, FiniteSetTheorems, WellFoundedInduction, TLAPS

(***************************************************************************)
(* What the type of a trial says of its components.                        *)
(***************************************************************************)
LEMMA TrialTypes ==
    ASSUME NEW n \in Nat, NEW t \in Trial(n)
    PROVE  /\ t.id \in Nat /\ t.violation \in Int /\ t.worst \in Int
           /\ t.feasible \in BOOLEAN
           /\ t.feasible => t.status = "success"
           /\ t.status # "failed" => t \in Successful(n) /\ t.vector \in [1 .. n -> Int]
<1>1. CASE t \in Successful(n)
  BY <1>1 DEF Successful
<1>2. CASE t \in Unsuccessful
  <2>1. t.id \in Nat /\ t.violation \in Nat /\ t.worst \in Nat
    BY <1>2 DEF Unsuccessful
  <2>2. t.status = "failed"
    BY <1>2 DEF Unsuccessful
  <2>3. ~t.feasible /\ t.feasible \in BOOLEAN
    BY <1>2 DEF Unsuccessful
  <2> QED
    BY <2>1, <2>2, <2>3
<1> QED
  BY <1>1, <1>2 DEF Trial

(***************************************************************************)
(* No trial dominates itself.                                              *)
(***************************************************************************)
LEMMA DominatesIrreflexive ==
    ASSUME NEW n \in Nat, NEW t \in Trial(n)
    PROVE  ~Dominates(t, t)
<1>1. CASE t.status = "failed"
  BY <1>1 DEF Dominates
<1>2. CASE t.status # "failed"
  <2>1. t.violation \in Int /\ t.worst \in Int /\ t.vector \in [1 .. n -> Int]
    BY <1>2, TrialTypes
  <2>2. ~Better(t.vector, t.vector)
    BY <2>1 DEF Better
  <2> QED
    BY <1>2, <2>1, <2>2 DEF Dominates
<1> QED
  BY <1>1, <1>2

(***************************************************************************)
(* Dominance between vectors of one length is transitive.                  *)
(***************************************************************************)
LEMMA VectorTransitive ==
    ASSUME NEW n \in Nat, NEW a \in [1 .. n -> Int], NEW b \in [1 .. n -> Int],
           NEW c \in [1 .. n -> Int],
           NoWorse(a, b), Better(a, b), NoWorse(b, c)
    PROVE  NoWorse(a, c) /\ Better(a, c)
<1>1. \A i \in 1 .. n : a[i] <= b[i] /\ b[i] <= c[i] /\ a[i] \in Int /\ b[i] \in Int /\ c[i] \in Int
  BY DEF NoWorse
<1>2. PICK i \in 1 .. n : a[i] < b[i]
  BY DEF Better
<1>3. a[i] < c[i]
  BY <1>1, <1>2
<1>4. \A j \in 1 .. n : a[j] <= c[j]
  BY <1>1
<1> QED
  BY <1>3, <1>4 DEF NoWorse, Better

(***************************************************************************)
(* Dominance between trials is transitive, across failed, infeasible and   *)
(* feasible ones.                                                          *)
(***************************************************************************)
LEMMA DominatesTransitive ==
    ASSUME NEW n \in Nat, NEW x \in Trial(n), NEW y \in Trial(n), NEW z \in Trial(n),
           Dominates(x, y), Dominates(y, z)
    PROVE  Dominates(x, z)
<1>1. x.status = "success" /\ y.status = "success"
  BY DEF Dominates
<1>2. /\ x.violation \in Int /\ y.violation \in Int /\ z.violation \in Int
      /\ x.worst \in Int /\ y.worst \in Int /\ z.worst \in Int
      /\ x.feasible \in BOOLEAN /\ y.feasible \in BOOLEAN /\ z.feasible \in BOOLEAN
      /\ x.vector \in [1 .. n -> Int] /\ y.vector \in [1 .. n -> Int]
  BY <1>1, TrialTypes
<1>3. CASE z.status = "failed"
  BY <1>1, <1>3 DEF Dominates
<1>4. CASE z.status # "failed"
  <2>1. z.vector \in [1 .. n -> Int]
    BY <1>4, TrialTypes
  <2>2. CASE x.feasible /\ ~z.feasible
    BY <1>1, <2>2 DEF Dominates
  <2>3. CASE ~x.feasible
    <3>1. ~y.feasible
      BY <1>1, <2>3 DEF Dominates
    <3>2. ~z.feasible
      BY <1>1, <1>4, <3>1 DEF Dominates
    <3>3. x.violation < y.violation \/ (x.violation = y.violation /\ x.worst < y.worst)
      BY <1>1, <2>3, <3>1 DEF Dominates
    <3>4. y.violation < z.violation \/ (y.violation = z.violation /\ y.worst < z.worst)
      BY <1>1, <1>4, <3>1, <3>2 DEF Dominates
    <3>5. x.violation < z.violation \/ (x.violation = z.violation /\ x.worst < z.worst)
      BY <1>2, <3>3, <3>4
    <3> QED
      BY <1>1, <2>3, <3>2, <3>5 DEF Dominates
  <2>4. CASE x.feasible /\ z.feasible
    <3>1. y.feasible
      BY <1>1, <1>4, <2>4 DEF Dominates
    <3>2. NoWorse(x.vector, y.vector) /\ Better(x.vector, y.vector)
      BY <1>1, <2>4, <3>1 DEF Dominates
    <3>3. NoWorse(y.vector, z.vector)
      BY <1>1, <1>4, <2>4, <3>1 DEF Dominates
    <3>4. NoWorse(x.vector, z.vector) /\ Better(x.vector, z.vector)
      BY <1>2, <2>1, <3>2, <3>3, VectorTransitive
    <3> QED
      BY <1>1, <2>4, <3>4 DEF Dominates
  <2> QED
    BY <1>2, <2>2, <2>3, <2>4
<1> QED
  BY <1>3, <1>4
-----------------------------------------------------------------------------
(* Least elements, and sums over finite sets.                              *)

\* A set of naturals that is not empty has a least element.
LEMMA LeastNatural ==
    ASSUME NEW S \in SUBSET Nat, S # {}
    PROVE  \E x \in S : \A y \in S : x <= y
<1>1. PICK x \in S : \A y \in S : ~(<<y, x>> \in OpToRel(<, Nat))
  BY NatLessThanWellFounded, WFMin, Zenon
<1>2. \A y \in S : <<y, x>> \in Nat \X Nat /\ <<y, x>>[1] = y /\ <<y, x>>[2] = x
  OBVIOUS
<1>3. \A y \in S : ~(y < x)
  BY <1>1, <1>2, Zenon DEF OpToRel
<1> QED
  BY <1>3

\* So the minimum of a set of naturals is one of them.
LEMMA MinIsLeast ==
    ASSUME NEW S \in SUBSET Nat, S # {}
    PROVE  Min(S) \in S /\ Min(S) \in Nat /\ \A y \in S : Min(S) <= y
<1>1. \E x \in S : \A y \in S : x <= y
  BY LeastNatural
<1>2. Min(S) \in S /\ \A y \in S : Min(S) <= y
  BY <1>1 DEF Min
<1> QED
  BY <1>2

\* Sets of subsets of a finite set have a smallest one, if they have any.
LEMMA LeastSet ==
    ASSUME NEW I, IsFiniteSet(I), NEW B \in SUBSET (SUBSET I), B # {}
    PROVE  \E T \in B : \A U \in B : U \subseteq T => U = T
<1>1. B \subseteq FiniteSubsetsOf(I)
  BY FS_Subset DEF FiniteSubsetsOf
<1>2. PICK T \in B : \A U \in B : ~(<<U, T>> \in StrictSubsetOrdering(I))
  BY <1>1, FS_StrictSubsetOrderingWellFounded, WFMin, Zenon
<1>3. ASSUME NEW U \in B, U \subseteq T PROVE U = T
  <2> SUFFICES ASSUME U # T PROVE FALSE
    OBVIOUS
  <2> DEFINE p == <<U, T>>
  <2>1. p \in (SUBSET I) \X (SUBSET I) /\ p[1] = U /\ p[2] = T
    OBVIOUS
  <2>2. ~(p \in StrictSubsetOrdering(I))
    BY <1>2
  <2> HIDE DEF p
  <2> QED
    BY <1>3, <2>1, <2>2 DEF StrictSubsetOrdering
<1>4. \A U \in B : U \subseteq T => U = T
  BY <1>3
<1> QED
  BY <1>4

\* On a finite set that is not empty, a measure has a greatest value.
LEMMA GreatestExists ==
    ASSUME NEW F, IsFiniteSet(F), F # {}, NEW f \in [F -> Nat]
    PROVE  \E t \in F : \A u \in F : f[u] <= f[t]
<1> DEFINE Good(T) == \E t \in T : \A u \in T : f[u] <= f[t]
           bad == {T \in SUBSET F : T # {} /\ ~Good(T)}
<1>1. bad = {}
  <2> SUFFICES ASSUME bad # {} PROVE FALSE
    OBVIOUS
  <2>1. PICK T \in bad : \A U \in bad : U \subseteq T => U = T
    <3>1. bad \in SUBSET (SUBSET F)
      OBVIOUS
    <3> HIDE DEF bad
    <3> QED
      BY <3>1, LeastSet
  <2>2. PICK x \in T : TRUE
    BY <2>1
  <2>3. x \in F /\ T \subseteq F /\ f[x] \in Nat /\ \A u \in T : f[u] \in Nat
    BY <2>1, <2>2
  <2>4. CASE T = {x}
    <3>1. Good(T)
      BY <2>3, <2>4
    <3> QED
      BY <2>1, <3>1
  <2>5. CASE T # {x}
    <3>1. T \ {x} # {} /\ T \ {x} \subseteq T /\ T \ {x} # T /\ T \ {x} \in SUBSET F
      BY <2>2, <2>3, <2>5
    <3>2. T \ {x} \notin bad
      BY <2>1, <3>1
    <3>3. Good(T \ {x})
      BY <3>1, <3>2
    <3>4. PICK t \in T \ {x} : \A u \in T \ {x} : f[u] <= f[t]
      BY <3>3
    <3>5. CASE f[x] <= f[t]
      <4>1. Good(T)
        BY <3>4, <3>5
      <4> QED
        BY <2>1, <4>1
    <3>6. CASE f[t] < f[x]
      <4>1. Good(T)
        BY <2>2, <2>3, <3>4, <3>6
      <4> QED
        BY <2>1, <4>1
    <3> QED
      BY <2>3, <3>4, <3>5, <3>6
  <2> QED
    BY <2>4, <2>5
<1> HIDE DEF Good
<1>2. Good(F)
  BY <1>1
<1> QED
  BY <1>2 DEF Good

(***************************************************************************)
(* A fold takes one element after another from a set, and "it" holds what  *)
(* it makes of each of the sets in D: the base of the empty one, and of    *)
(* any other what the function G makes of an element and the rest.         *)
(***************************************************************************)
Chosen(s) == CHOOSE x \in s : TRUE

FoldsTo(it, D, base, G) ==
    it = [s \in D |-> IF s = {} THEN base ELSE G[<<Chosen(s), it[s \ {Chosen(s)}]>>]]

LEMMA ChosenIs ==
    ASSUME NEW s, s # {}
    PROVE  Chosen(s) \in s
BY DEF Chosen

\* What the fold is at each set.
LEMMA FoldsAre ==
    ASSUME NEW base, NEW G, NEW it, NEW D, FoldsTo(it, D, base, G)
    PROVE  \A s \in D : it[s] = IF s = {} THEN base ELSE G[<<Chosen(s), it[s \ {Chosen(s)}]>>]
<1>1. it = [s \in D |-> IF s = {} THEN base ELSE G[<<Chosen(s), it[s \ {Chosen(s)}]>>]]
  BY DEF FoldsTo
<1> QED
  BY <1>1, Zenon

\* The sets of up to m elements.
UpTo(I, m) == {s \in SUBSET I : Cardinality(s) <= m}

\* The fold over one element more, from that over m.
LEMMA FoldsOn ==
    ASSUME NEW I, IsFiniteSet(I), NEW base, NEW G, NEW m \in Nat,
           NEW it, FoldsTo(it, UpTo(I, m), base, G)
    PROVE  \E more : FoldsTo(more, UpTo(I, m + 1), base, G)
<1> DEFINE more == [s \in UpTo(I, m + 1) |->
                      IF s \in UpTo(I, m) THEN it[s]
                      ELSE G[<<Chosen(s), it[s \ {Chosen(s)}]>>]]
<1>1. \A s \in UpTo(I, m) : it[s] = IF s = {} THEN base ELSE G[<<Chosen(s), it[s \ {Chosen(s)}]>>]
  BY FoldsAre
<1>2. \A s \in SUBSET I : IsFiniteSet(s) /\ Cardinality(s) \in Nat
  BY FS_Subset, FS_CardinalityType
<1>3. {} \in UpTo(I, m)
  <2>1. Cardinality({}) = 0 /\ {} \in SUBSET I
    BY FS_EmptySet
  <2> QED
    BY <2>1 DEF UpTo
<1>4. ASSUME NEW s \in UpTo(I, m + 1), s # {}
      PROVE  s \ {Chosen(s)} \in UpTo(I, m)
  <2>1. s \in SUBSET I /\ Cardinality(s) <= m + 1
    BY DEF UpTo
  <2>2. Chosen(s) \in s
    BY <1>4, ChosenIs
  <2>3. Cardinality(s \ {Chosen(s)}) = Cardinality(s) - 1
    BY <1>2, <2>1, <2>2, FS_RemoveElement
  <2>4. Cardinality(s) \in Nat /\ s \ {Chosen(s)} \in SUBSET I
    BY <1>2, <2>1
  <2>5. Cardinality(s \ {Chosen(s)}) <= m
    BY <2>1, <2>3, <2>4
  <2> QED
    BY <2>4, <2>5 DEF UpTo
<1>5. \A s \in UpTo(I, m) : s \in UpTo(I, m + 1)
  BY <1>2 DEF UpTo
<1>6. \A s \in UpTo(I, m) : more[s] = it[s]
  BY <1>5
<1>7. ASSUME NEW s \in UpTo(I, m + 1)
      PROVE  more[s] = IF s = {} THEN base ELSE G[<<Chosen(s), more[s \ {Chosen(s)}]>>]
  <2>1. CASE s = {}
    <3>1. more[s] = it[s] /\ s \in UpTo(I, m)
      BY <1>3, <1>6, <2>1
    <3> HIDE DEF more
    <3> QED
      BY <1>1, <2>1, <3>1, Zenon
  <2>2. CASE s # {}
    <3>1. more[s \ {Chosen(s)}] = it[s \ {Chosen(s)}]
      BY <1>4, <1>6, <2>2
    <3>2. more[s] = G[<<Chosen(s), it[s \ {Chosen(s)}]>>]
      <4>1. CASE s \in UpTo(I, m)
        <5>1. more[s] = it[s]
          BY <1>6, <4>1
        <5> HIDE DEF more
        <5> QED
          BY <1>1, <2>2, <4>1, <5>1, Zenon
      <4>2. CASE s \notin UpTo(I, m)
        BY <4>2, Zenon
      <4> QED
        BY <4>1, <4>2
    <3> HIDE DEF more
    <3> QED
      BY <2>2, <3>1, <3>2, Zenon
  <2> QED
    BY <2>1, <2>2
<1>8. more = [s \in UpTo(I, m + 1) |-> more[s]]
  OBVIOUS
<1> HIDE DEF more
<1> DEFINE result == [s \in UpTo(I, m + 1) |->
                        IF s = {} THEN base ELSE G[<<Chosen(s), more[s \ {Chosen(s)}]>>]]
<1>9. [s \in UpTo(I, m + 1) |-> more[s]] = result
  BY <1>7, Zenon
<1>10. more = result
  BY <1>8, <1>9, Zenon
<1> QED
  BY <1>10, Zenon DEF FoldsTo

\* So there is a fold over all subsets of a finite set.
LEMMA FoldsExist ==
    ASSUME NEW I, IsFiniteSet(I), NEW base, NEW G
    PROVE  \E it : FoldsTo(it, SUBSET I, base, G)
<1> DEFINE Good(m) == \E it : FoldsTo(it, UpTo(I, m), base, G)
           bad == {m \in Nat : ~Good(m)}
<1>1. Good(0)
  <2> DEFINE it == [s \in UpTo(I, 0) |-> base]
  <2>1. \A s \in UpTo(I, 0) : s = {}
    <3> SUFFICES ASSUME NEW s \in UpTo(I, 0) PROVE s = {}
      OBVIOUS
    <3>1. s \in SUBSET I /\ Cardinality(s) <= 0
      BY DEF UpTo
    <3>2. IsFiniteSet(s) /\ Cardinality(s) \in Nat
      BY <3>1, FS_Subset, FS_CardinalityType
    <3>3. Cardinality(s) = 0
      BY <3>1, <3>2
    <3> QED
      BY <3>2, <3>3, FS_EmptySet
  <2>2. it = [s \in UpTo(I, 0) |->
                IF s = {} THEN base ELSE G[<<Chosen(s), it[s \ {Chosen(s)}]>>]]
    BY <2>1, Zenon
  <2> QED
    BY <2>2, Zenon DEF FoldsTo
<1>2. ASSUME NEW m \in Nat, Good(m) PROVE Good(m + 1)
  BY <1>2, FoldsOn
<1> HIDE DEF Good
<1>3. bad = {}
  <2> SUFFICES ASSUME bad # {} PROVE FALSE
    OBVIOUS
  <2>1. PICK m \in bad : \A k \in bad : m <= k
    BY LeastNatural
  <2>2. m \in Nat /\ m # 0
    BY <1>1, <2>1
  <2>3. m - 1 \in Nat /\ m - 1 + 1 = m /\ ~(m <= m - 1)
    BY <2>2
  <2>4. Good(m - 1)
    BY <2>1, <2>3
  <2>5. Good(m - 1 + 1)
    BY <1>2, <2>3, <2>4
  <2> QED
    BY <2>1, <2>3, <2>5
<1>4. Cardinality(I) \in Nat
  BY FS_CardinalityType
<1>5. UpTo(I, Cardinality(I)) = SUBSET I
  BY FS_Subset DEF UpTo
<1>6. Good(Cardinality(I))
  BY <1>3, <1>4
<1> QED
  BY <1>5, <1>6, Zenon DEF Good

\* Its values are in any set that G does not leave.
LEMMA FoldsTyped ==
    ASSUME NEW I, IsFiniteSet(I), NEW U, NEW base \in U, NEW G \in [I \X U -> U],
           NEW it, FoldsTo(it, SUBSET I, base, G)
    PROVE  \A s \in SUBSET I : it[s] \in U
<1>1. \A s \in SUBSET I :
         it[s] = IF s = {} THEN base ELSE G[<<Chosen(s), it[s \ {Chosen(s)}]>>]
  BY FoldsAre
<1> DEFINE bad == {s \in SUBSET I : it[s] \notin U}
<1>2. bad = {}
  <2> SUFFICES ASSUME bad # {} PROVE FALSE
    OBVIOUS
  <2>1. PICK s \in bad : \A r \in bad : r \subseteq s => r = s
    <3>1. bad \in SUBSET (SUBSET I)
      OBVIOUS
    <3> HIDE DEF bad
    <3> QED
      BY <3>1, LeastSet
  <2>2. s \in SUBSET I /\ it[s] \notin U
    BY <2>1
  <2>3. s # {}
    BY <1>1, <2>2, Zenon
  <2> DEFINE x == Chosen(s)
             r == s \ {x}
  <2>4. x \in s /\ r \subseteq s /\ r # s /\ r \in SUBSET I /\ x \in I
    BY <2>2, <2>3, ChosenIs
  <2>5. it[s] = G[<<x, it[r]>>]
    BY <1>1, <2>2, <2>3, Zenon
  <2> HIDE DEF x, r
  <2>6. it[r] \in U
    BY <2>1, <2>4
  <2>7. <<x, it[r]>> \in I \X U
    BY <2>4, <2>6
  <2> QED
    BY <2>2, <2>5, <2>7
<1> QED
  BY <1>2

(***************************************************************************)
(* SumFunction() adds up the values of a function.                         *)
(***************************************************************************)
Sums(fun, it) ==
    it = [s \in SUBSET DOMAIN fun |->
            IF s = {} THEN 0 ELSE fun[Chosen(s)] + it[s \ {Chosen(s)}]]

Products(fun, it) ==
    it = [s \in SUBSET DOMAIN fun |->
            IF s = {} THEN 1 ELSE fun[Chosen(s)] * it[s \ {Chosen(s)}]]

LEMMA SumIs ==
    ASSUME NEW fun, \E it : Sums(fun, it)
    PROVE  \E it : Sums(fun, it) /\ SumFunction(fun) = it[DOMAIN fun]
<1> DEFINE it == CHOOSE it : it = [s \in SUBSET DOMAIN fun |->
                   IF s = {} THEN 0
                   ELSE fun[CHOOSE x \in s : TRUE] + it[s \ {CHOOSE x \in s : TRUE}]]
<1>1. SumFunction(fun) = it[DOMAIN fun]
  BY Zenon DEF SumFunction, SumFunctionOnSet, FoldFunctionOnSet, MapThenFoldSet
<1>2. Sums(fun, it)
  BY Zenon DEF Sums, Chosen
<1> QED
  BY <1>1, <1>2, Zenon

LEMMA ProductIs ==
    ASSUME NEW fun, \E it : Products(fun, it)
    PROVE  \E it : Products(fun, it) /\ ProductOf(fun) = it[DOMAIN fun]
<1> DEFINE it == CHOOSE it : it = [s \in SUBSET DOMAIN fun |->
                   IF s = {} THEN 1
                   ELSE fun[CHOOSE x \in s : TRUE] * it[s \ {CHOOSE x \in s : TRUE}]]
<1>1. ProductOf(fun) = it[DOMAIN fun]
  BY Zenon DEF ProductOf, FoldFunction, FoldFunctionOnSet, MapThenFoldSet
<1>2. Products(fun, it)
  BY Zenon DEF Products, Chosen
<1> QED
  BY <1>1, <1>2, Zenon

\* What the sums are at each set.
LEMMA SumsAre ==
    ASSUME NEW fun, NEW it, Sums(fun, it)
    PROVE  \A s \in SUBSET DOMAIN fun :
              it[s] = IF s = {} THEN 0 ELSE fun[Chosen(s)] + it[s \ {Chosen(s)}]
<1>1. it = [s \in SUBSET DOMAIN fun |->
              IF s = {} THEN 0 ELSE fun[Chosen(s)] + it[s \ {Chosen(s)}]]
  BY DEF Sums
<1> QED
  BY <1>1, Zenon

\* A function of a finite set to the integers has sums and products.
LEMMA SumsExist ==
    ASSUME NEW I, IsFiniteSet(I), NEW fun \in [I -> Int]
    PROVE  \E it : Sums(fun, it)
<1> DEFINE G == [p \in I \X Int |-> fun[p[1]] + p[2]]
<1>1. G \in [I \X Int -> Int]
  OBVIOUS
<1>2. PICK it : FoldsTo(it, SUBSET I, 0, G)
  BY FoldsExist
<1>3. \A s \in SUBSET I : it[s] \in Int
  <2>1. 0 \in Int /\ 1 \in Int
    OBVIOUS
  <2> HIDE DEF G
  <2> QED
    BY <1>1, <1>2, <2>1, FoldsTyped, Zenon
<1>4. it = [s \in SUBSET I |-> IF s = {} THEN 0 ELSE G[<<Chosen(s), it[s \ {Chosen(s)}]>>]]
  BY <1>2, Zenon DEF FoldsTo
<1>5. ASSUME NEW s \in SUBSET I, s # {}
      PROVE  G[<<Chosen(s), it[s \ {Chosen(s)}]>>] = fun[Chosen(s)] + it[s \ {Chosen(s)}]
  <2>1. Chosen(s) \in I /\ s \ {Chosen(s)} \in SUBSET I
    BY <1>5, ChosenIs
  <2>2. <<Chosen(s), it[s \ {Chosen(s)}]>> \in I \X Int
    BY <1>3, <2>1
  <2> QED
    BY <2>2
<1> HIDE DEF G
<1> DEFINE left == [s \in SUBSET I |->
                      IF s = {} THEN 0 ELSE G[<<Chosen(s), it[s \ {Chosen(s)}]>>]]
           right == [s \in SUBSET I |->
                       IF s = {} THEN 0 ELSE fun[Chosen(s)] + it[s \ {Chosen(s)}]]
<1>6. left = right
  BY <1>5, Zenon
<1>7. it = right /\ DOMAIN fun = I
  BY <1>4, <1>6
<1> QED
  BY <1>7, Zenon DEF Sums

LEMMA ProductsExist ==
    ASSUME NEW I, IsFiniteSet(I), NEW fun \in [I -> Int]
    PROVE  \E it : Products(fun, it)
<1> DEFINE G == [p \in I \X Int |-> fun[p[1]] * p[2]]
<1>1. G \in [I \X Int -> Int]
  OBVIOUS
<1>2. PICK it : FoldsTo(it, SUBSET I, 1, G)
  BY FoldsExist
<1>3. \A s \in SUBSET I : it[s] \in Int
  <2>1. 0 \in Int /\ 1 \in Int
    OBVIOUS
  <2> HIDE DEF G
  <2> QED
    BY <1>1, <1>2, <2>1, FoldsTyped, Zenon
<1>4. it = [s \in SUBSET I |-> IF s = {} THEN 1 ELSE G[<<Chosen(s), it[s \ {Chosen(s)}]>>]]
  BY <1>2, Zenon DEF FoldsTo
<1>5. ASSUME NEW s \in SUBSET I, s # {}
      PROVE  G[<<Chosen(s), it[s \ {Chosen(s)}]>>] = fun[Chosen(s)] * it[s \ {Chosen(s)}]
  <2>1. Chosen(s) \in I /\ s \ {Chosen(s)} \in SUBSET I
    BY <1>5, ChosenIs
  <2>2. <<Chosen(s), it[s \ {Chosen(s)}]>> \in I \X Int
    BY <1>3, <2>1
  <2> QED
    BY <2>2
<1> HIDE DEF G
<1> DEFINE left == [s \in SUBSET I |->
                      IF s = {} THEN 1 ELSE G[<<Chosen(s), it[s \ {Chosen(s)}]>>]]
           right == [s \in SUBSET I |->
                       IF s = {} THEN 1 ELSE fun[Chosen(s)] * it[s \ {Chosen(s)}]]
<1>6. left = right
  BY <1>5, Zenon
<1>7. it = right /\ DOMAIN fun = I
  BY <1>4, <1>6
<1> QED
  BY <1>7, Zenon DEF Products

\* So a product of integers is an integer.
LEMMA ProductIsInteger ==
    ASSUME NEW I, IsFiniteSet(I), NEW fun \in [I -> Int]
    PROVE  ProductOf(fun) \in Int
<1> DEFINE G == [p \in I \X Int |-> fun[p[1]] * p[2]]
<1>1. DOMAIN fun = I
  OBVIOUS
<1>2. PICK it : Products(fun, it) /\ ProductOf(fun) = it[I]
  BY <1>1, ProductsExist, ProductIs
<1>3. \A s \in SUBSET I : it[s] = IF s = {} THEN 1 ELSE fun[Chosen(s)] * it[s \ {Chosen(s)}]
  <2>1. it = [s \in SUBSET I |-> IF s = {} THEN 1 ELSE fun[Chosen(s)] * it[s \ {Chosen(s)}]]
    BY <1>1, <1>2 DEF Products
  <2> QED
    BY <2>1, Zenon
<1> DEFINE bad == {s \in SUBSET I : it[s] \notin Int}
<1>4. bad = {}
  <2> SUFFICES ASSUME bad # {} PROVE FALSE
    OBVIOUS
  <2>1. PICK s \in bad : \A r \in bad : r \subseteq s => r = s
    <3>1. bad \in SUBSET (SUBSET I)
      OBVIOUS
    <3> HIDE DEF bad
    <3> QED
      BY <3>1, LeastSet
  <2>2. s # {}
    <3>1. s \in SUBSET I /\ it[s] \notin Int /\ 1 \in Int
      BY <2>1
    <3> QED
      BY <1>3, <3>1, Zenon
  <2>3. Chosen(s) \in s /\ s \ {Chosen(s)} \subseteq s /\ s \ {Chosen(s)} # s
    BY <2>2, ChosenIs
  <2>4. s \ {Chosen(s)} \in SUBSET I /\ Chosen(s) \in I
    BY <2>1, <2>3
  <2>5. it[s \ {Chosen(s)}] \in Int
    BY <2>1, <2>3, <2>4
  <2>6. fun[Chosen(s)] \in Int
    BY <2>4
  <2>7. it[s] = fun[Chosen(s)] * it[s \ {Chosen(s)}]
    BY <1>3, <2>1, <2>2
  <2> QED
    BY <2>1, <2>5, <2>6, <2>7
<1> QED
  BY <1>2, <1>4

\* A sum of naturals is a natural.
LEMMA SumIsNatural ==
    ASSUME NEW I, IsFiniteSet(I), NEW fun \in [I -> Nat]
    PROVE  SumFunction(fun) \in Nat
<1>1. DOMAIN fun = I
  OBVIOUS
<1>2. PICK it : Sums(fun, it) /\ SumFunction(fun) = it[I]
  BY <1>1, SumsExist, SumIs
<1>3. \A s \in SUBSET I : it[s] = IF s = {} THEN 0 ELSE fun[Chosen(s)] + it[s \ {Chosen(s)}]
  <2>1. it = [s \in SUBSET I |-> IF s = {} THEN 0 ELSE fun[Chosen(s)] + it[s \ {Chosen(s)}]]
    BY <1>1, <1>2 DEF Sums
  <2> QED
    BY <2>1, Zenon
<1> DEFINE bad == {s \in SUBSET I : it[s] \notin Nat}
<1>4. bad = {}
  <2> SUFFICES ASSUME bad # {} PROVE FALSE
    OBVIOUS
  <2>1. PICK s \in bad : \A r \in bad : r \subseteq s => r = s
    <3>1. bad \in SUBSET (SUBSET I)
      OBVIOUS
    <3> HIDE DEF bad
    <3> QED
      BY <3>1, LeastSet
  <2>2. s # {}
    <3>1. s \in SUBSET I /\ it[s] \notin Nat /\ 0 \in Nat
      BY <2>1
    <3>2. s = {} => it[s] = 0
      BY <1>3, <3>1, Zenon
    <3> QED
      BY <3>1, <3>2, Zenon
  <2>3. Chosen(s) \in s /\ s \ {Chosen(s)} \subseteq s /\ s \ {Chosen(s)} # s
    BY <2>2, ChosenIs
  <2>4. s \ {Chosen(s)} \in SUBSET I /\ Chosen(s) \in I
    BY <2>1, <2>3
  <2>5. it[s \ {Chosen(s)}] \in Nat
    BY <2>1, <2>3, <2>4
  <2>6. fun[Chosen(s)] \in Nat
    BY <2>4
  <2>7. it[s] = fun[Chosen(s)] + it[s \ {Chosen(s)}]
    BY <1>3, <2>1, <2>2
  <2> QED
    BY <2>1, <2>5, <2>6, <2>7
<1> QED
  BY <1>2, <1>4
-----------------------------------------------------------------------------
(* The order of preference.                                                *)

LEMMA MaxOfTwo ==
    ASSUME NEW a \in Int, NEW b \in Int
    PROVE  Max({a, b}) = IF a >= b THEN a ELSE b
<1>1. \E x \in {a, b} : \A y \in {a, b} : x >= y
  OBVIOUS
<1>2. Max({a, b}) \in {a, b} /\ \A y \in {a, b} : Max({a, b}) >= y
  BY <1>1 DEF Max
<1> QED
  BY <1>2

LEMMA MinOfTwo ==
    ASSUME NEW a \in Int, NEW b \in Int
    PROVE  Min({a, b}) = IF a <= b THEN a ELSE b
<1>1. \E x \in {a, b} : \A y \in {a, b} : x <= y
  OBVIOUS
<1>2. Min({a, b}) \in {a, b} /\ \A y \in {a, b} : Min({a, b}) <= y
  BY <1>1 DEF Min
<1> QED
  BY <1>2

\* The squashing function is monotone, wherever it saturates.
LEMMA SquashIsMonotone ==
    ASSUME NEW v \in Int, NEW w \in Int, v <= w
    PROVE  Squash(v) \in Int /\ Squash(w) \in Int /\ Squash(v) <= Squash(w)
<1>1. Saturation \in Int /\ -Saturation \in Int
  BY SaturationAssumption
<1> DEFINE S == Saturation
           Floor(x) == Max({x, -S})
<1>2. ASSUME NEW x \in Int
      PROVE  /\ Floor(x) = IF x >= -S THEN x ELSE -S
             /\ Floor(x) \in Int
             /\ Squash(x) = IF Floor(x) <= S THEN Floor(x) ELSE S
  <2>1. Floor(x) = IF x >= -S THEN x ELSE -S
    BY <1>1, MaxOfTwo
  <2>2. Floor(x) \in Int
    BY <1>1, <2>1
  <2> HIDE DEF Floor
  <2>3. Min({Floor(x), S}) = IF Floor(x) <= S THEN Floor(x) ELSE S
    BY <1>1, <2>2, MinOfTwo
  <2>4. Squash(x) = Min({Floor(x), S})
    BY DEF Squash, Floor
  <2> QED
    BY <2>1, <2>2, <2>3, <2>4
<1> HIDE DEF Floor
<1> QED
  BY <1>1, <1>2

\* A sum of larger integers is larger.
LEMMA SumIsMonotone ==
    ASSUME NEW I, IsFiniteSet(I), NEW f \in [I -> Int], NEW g \in [I -> Int],
           \A i \in I : f[i] <= g[i]
    PROVE  /\ SumFunction(f) \in Int /\ SumFunction(g) \in Int
           /\ SumFunction(f) <= SumFunction(g)
<1>1. DOMAIN f = I /\ DOMAIN g = I
  OBVIOUS
<1>2. PICK p : Sums(f, p) /\ SumFunction(f) = p[I]
  BY <1>1, SumsExist, SumIs
<1>3. PICK q : Sums(g, q) /\ SumFunction(g) = q[I]
  BY <1>1, SumsExist, SumIs
<1>4. /\ \A s \in SUBSET I : p[s] = IF s = {} THEN 0 ELSE f[Chosen(s)] + p[s \ {Chosen(s)}]
      /\ \A s \in SUBSET I : q[s] = IF s = {} THEN 0 ELSE g[Chosen(s)] + q[s \ {Chosen(s)}]
  BY <1>2, <1>3, SumsAre
<1> DEFINE Good(s) == p[s] \in Int /\ q[s] \in Int /\ p[s] <= q[s]
           bad == {s \in SUBSET I : ~Good(s)}
<1>5. bad = {}
  <2> SUFFICES ASSUME bad # {} PROVE FALSE
    OBVIOUS
  <2>1. PICK s \in bad : \A r \in bad : r \subseteq s => r = s
    <3>1. bad \in SUBSET (SUBSET I)
      OBVIOUS
    <3> HIDE DEF bad
    <3> QED
      BY <3>1, LeastSet
  <2>2. s \in SUBSET I /\ ~Good(s)
    BY <2>1
  <2>3. s # {}
    <3> SUFFICES ASSUME s = {} PROVE FALSE
      OBVIOUS
    <3>1. p[s] = 0 /\ q[s] = 0
      BY <1>4, <2>2, Zenon
    <3> QED
      BY <2>2, <3>1
  <2> DEFINE x == Chosen(s)
             r == s \ {x}
  <2>4. x \in s /\ r \subseteq s /\ r # s /\ r \in SUBSET I /\ x \in I
    BY <2>2, <2>3, ChosenIs
  <2>5. r \notin bad
    BY <2>1, <2>4
  <2>6. p[s] = f[x] + p[r] /\ q[s] = g[x] + q[r]
    BY <1>4, <2>2, <2>3, Zenon
  <2> HIDE DEF x, r
  <2>7. Good(r)
    BY <2>4, <2>5
  <2>8. f[x] \in Int /\ g[x] \in Int /\ f[x] <= g[x]
    BY <2>4
  <2> QED
    BY <2>2, <2>6, <2>7, <2>8
<1> HIDE DEF Good
<1>6. Good(I)
  BY <1>5
<1> QED
  BY <1>2, <1>3, <1>6 DEF Good

\* So an objective vector that is nowhere worse has no larger squashed sum.
LEMMA SquashedSumIsMonotone ==
    ASSUME NEW n \in Nat, NEW a \in [1 .. n -> Int], NEW b \in [1 .. n -> Int],
           NoWorse(a, b)
    PROVE  /\ SumOfSquashed(a) \in Int /\ SumOfSquashed(b) \in Int
           /\ SumOfSquashed(a) <= SumOfSquashed(b)
<1> DEFINE f == [i \in 1 .. n |-> Squash(a[i])]
           g == [i \in 1 .. n |-> Squash(b[i])]
<1>1. SumOfSquashed(a) = SumFunction(f) /\ SumOfSquashed(b) = SumFunction(g)
  <2>1. DOMAIN a = 1 .. n /\ DOMAIN b = 1 .. n
    OBVIOUS
  <2> QED
    BY <2>1, Zenon DEF SumOfSquashed
<1>2. \A i \in 1 .. n : a[i] \in Int /\ b[i] \in Int /\ a[i] <= b[i]
  BY DEF NoWorse
<1>3. \A i \in 1 .. n : Squash(a[i]) \in Int /\ Squash(b[i]) \in Int /\ Squash(a[i]) <= Squash(b[i])
  BY <1>2, SquashIsMonotone
<1>4. f \in [1 .. n -> Int] /\ g \in [1 .. n -> Int] /\ \A i \in 1 .. n : f[i] <= g[i]
  BY <1>3
<1>5. IsFiniteSet(1 .. n)
  BY FS_Interval
<1> HIDE DEF f, g
<1>6. /\ SumFunction(f) \in Int /\ SumFunction(g) \in Int
      /\ SumFunction(f) <= SumFunction(g)
  BY <1>4, <1>5, SumIsMonotone
<1> QED
  BY <1>1, <1>6

(***************************************************************************)
(* The lexicographic order of sequences of integers is strict, and total   *)
(* on those of one length.                                                 *)
(***************************************************************************)
LEMMA LexicographicIrreflexive ==
    ASSUME NEW a \in Seq(Int)
    PROVE  ~Lexicographic(a, a)
BY DEF Lexicographic

LEMMA LexicographicTransitive ==
    ASSUME NEW a \in Seq(Int), NEW b \in Seq(Int), NEW c \in Seq(Int),
           Lexicographic(a, b), Lexicographic(b, c)
    PROVE  Lexicographic(a, c)
<1>1. /\ DOMAIN a = 1 .. Len(a) /\ DOMAIN b = 1 .. Len(b) /\ DOMAIN c = 1 .. Len(c)
      /\ Len(a) \in Nat /\ Len(b) \in Nat /\ Len(c) \in Nat
      /\ \A j \in 1 .. Len(a) : a[j] \in Int
      /\ \A j \in 1 .. Len(b) : b[j] \in Int
      /\ \A j \in 1 .. Len(c) : c[j] \in Int
  OBVIOUS
<1>2. PICK i \in DOMAIN a \intersect DOMAIN b : a[i] < b[i] /\ \A j \in 1 .. i - 1 : a[j] = b[j]
  BY DEF Lexicographic
<1>3. PICK k \in DOMAIN b \intersect DOMAIN c : b[k] < c[k] /\ \A j \in 1 .. k - 1 : b[j] = c[j]
  BY DEF Lexicographic
<1>4. /\ i \in 1 .. Len(a) /\ i \in 1 .. Len(b) /\ k \in 1 .. Len(b) /\ k \in 1 .. Len(c)
      /\ i \in Nat /\ k \in Nat
  BY <1>1, <1>2, <1>3
<1>5. CASE i <= k
  <2>1. i \in DOMAIN a \intersect DOMAIN c
    BY <1>1, <1>4, <1>5
  <2>2. a[i] < c[i]
    <3>1. CASE i = k
      BY <1>1, <1>2, <1>3, <1>4, <3>1
    <3>2. CASE i < k
      <4>1. i \in 1 .. k - 1
        BY <1>4, <3>2
      <4> QED
        BY <1>2, <1>3, <4>1
    <3> QED
      BY <1>4, <1>5, <3>1, <3>2
  <2>3. ASSUME NEW j \in 1 .. i - 1 PROVE a[j] = c[j]
    <3>1. j \in 1 .. k - 1
      BY <1>4, <1>5
    <3> QED
      BY <1>2, <1>3, <3>1
  <2> QED
    BY <2>1, <2>2, <2>3 DEF Lexicographic
<1>6. CASE k < i
  <2>1. k \in DOMAIN a \intersect DOMAIN c
    BY <1>1, <1>4, <1>6
  <2>2. k \in 1 .. i - 1
    BY <1>4, <1>6
  <2>3. a[k] < c[k]
    BY <1>2, <1>3, <2>2
  <2>4. ASSUME NEW j \in 1 .. k - 1 PROVE a[j] = c[j]
    <3>1. j \in 1 .. i - 1
      BY <1>4, <1>6
    <3> QED
      BY <1>2, <1>3, <3>1
  <2> QED
    BY <2>1, <2>3, <2>4 DEF Lexicographic
<1> QED
  BY <1>4, <1>5, <1>6

\* Sequences that differ somewhere first differ somewhere.
LEMMA LexicographicTotal ==
    ASSUME NEW a \in Seq(Int), NEW b \in Seq(Int), NEW d \in DOMAIN a \intersect DOMAIN b,
           a[d] # b[d]
    PROVE  Lexicographic(a, b) \/ Lexicographic(b, a)
<1> DEFINE differing == {i \in DOMAIN a \intersect DOMAIN b : a[i] # b[i]}
<1>1. /\ DOMAIN a = 1 .. Len(a) /\ DOMAIN b = 1 .. Len(b)
      /\ Len(a) \in Nat /\ Len(b) \in Nat
      /\ \A j \in 1 .. Len(a) : a[j] \in Int
      /\ \A j \in 1 .. Len(b) : b[j] \in Int
  OBVIOUS
<1>2. differing \in SUBSET Nat /\ differing # {}
  BY <1>1
<1>3. PICK i \in differing : \A k \in differing : i <= k
  <2> HIDE DEF differing
  <2> QED
    BY <1>2, LeastNatural
<1>4. i \in 1 .. Len(a) /\ i \in 1 .. Len(b) /\ a[i] # b[i]
  BY <1>1, <1>3
<1>5. ASSUME NEW j \in 1 .. i - 1 PROVE a[j] = b[j]
  <2>1. j \in 1 .. Len(a) /\ j \in 1 .. Len(b) /\ ~(i <= j)
    <3> DEFINE p == Len(a)
               q == Len(b)
    <3>1. p \in Nat /\ q \in Nat /\ i \in 1 .. p /\ i \in 1 .. q
      BY <1>1, <1>4, Zenon
    <3> HIDE DEF p, q, differing
    <3>2. i \in Int /\ j \in 1 .. i - 1 /\ i <= p /\ i <= q
      BY <3>1
    <3>3. j \in 1 .. p /\ j \in 1 .. q /\ ~(i <= j)
      BY <3>1, <3>2
    <3> QED
      BY <3>3 DEF p, q
  <2>2. j \notin differing
    BY <1>3, <2>1
  <2> QED
    BY <1>1, <2>1, <2>2
<1>6. a[i] < b[i] \/ b[i] < a[i]
  BY <1>1, <1>4
<1> QED
  BY <1>1, <1>4, <1>5, <1>6 DEF Lexicographic
\* Where the elements of two sequences are in their concatenation.
Joins(c, a, b) ==
    /\ c \in Seq(Int) /\ Len(c) = Len(a) + Len(b)
    /\ \A i \in 1 .. Len(a) : c[i] = a[i]
    /\ \A i \in 1 .. Len(b) : c[Len(a) + i] = b[i]

LEMMA ConcatenationParts ==
    ASSUME NEW a \in Seq(Int), NEW b \in Seq(Int)
    PROVE  Joins(a \o b, a, b)
<1>1. a \o b \in Seq(Int)
  OBVIOUS
<1>2. Len(a \o b) = Len(a) + Len(b)
  OBVIOUS
<1>3. \A i \in 1 .. Len(a) : (a \o b)[i] = a[i]
  OBVIOUS
<1>4. \A i \in 1 .. Len(b) : (a \o b)[Len(a) + i] = b[i]
  OBVIOUS
<1> QED
  BY <1>1, <1>2, <1>3, <1>4, Zenon DEF Joins

\* The components of a key: a head of four numbers, a vector and an id.
Components(key, n, r, p, w, s, v, id) ==
    /\ key \in Seq(Int) /\ DOMAIN key = 1 .. n + 5
    /\ key[1] = r /\ key[2] = p /\ key[3] = w /\ key[4] = s
    /\ \A d \in 1 .. n : key[4 + d] = v[d]
    /\ key[n + 5] = id

LEMMA KeyComponents ==
    ASSUME NEW n \in Nat, NEW v \in [1 .. n -> Int], NEW id \in Int,
           NEW r \in Int, NEW p \in Int, NEW w \in Int, NEW s \in Int
    PROVE  Components(<<r, p, w, s>> \o v \o <<id>>, n, r, p, w, s, v, id)
<1> DEFINE h == <<r, p, w, s>>
           e == <<id>>
           hv == h \o v
           key == hv \o e
<1>1. h \in Seq(Int) /\ Len(h) = 4 /\ h[1] = r /\ h[2] = p /\ h[3] = w /\ h[4] = s
  OBVIOUS
<1>2. v \in Seq(Int) /\ Len(v) = n
  OBVIOUS
<1>3. e \in Seq(Int) /\ Len(e) = 1 /\ e[1] = id
  OBVIOUS
<1> HIDE DEF h, e
<1>4. Joins(hv, h, v)
  BY <1>1, <1>2, ConcatenationParts
<1> HIDE DEF hv
<1>5. hv \in Seq(Int)
  BY <1>4 DEF Joins
<1>6. Joins(key, hv, e)
  BY <1>3, <1>5, ConcatenationParts
<1> HIDE DEF key
<1>7. Len(hv) = n + 4 /\ Len(key) = n + 5 /\ key \in Seq(Int)
  <2>1. Len(hv) = 4 + n /\ Len(key) = Len(hv) + 1 /\ key \in Seq(Int)
    BY <1>1, <1>2, <1>3, <1>4, <1>6, Zenon DEF Joins
  <2> QED
    BY <2>1
<1>8. DOMAIN key = 1 .. n + 5
  BY <1>7
<1>9. /\ \A i \in 1 .. 4 : hv[i] = h[i]
      /\ \A d \in 1 .. n : hv[4 + d] = v[d]
  BY <1>1, <1>2, <1>4, Zenon DEF Joins
<1>10. /\ \A i \in 1 .. n + 4 : key[i] = hv[i]
       /\ \A i \in 1 .. 1 : key[n + 4 + i] = e[i]
  BY <1>3, <1>6, <1>7, Zenon DEF Joins
<1>11. key[1] = r /\ key[2] = p /\ key[3] = w /\ key[4] = s
  <2>1. /\ 1 \in 1 .. 4 /\ 2 \in 1 .. 4 /\ 3 \in 1 .. 4 /\ 4 \in 1 .. 4
        /\ \A i \in 1 .. 4 : i \in 1 .. n + 4
    OBVIOUS
  <2>2. \A i \in 1 .. 4 : key[i] = h[i]
    BY <1>9, <1>10, <2>1, Zenon
  <2>3. key[1] = h[1] /\ key[2] = h[2] /\ key[3] = h[3] /\ key[4] = h[4]
    BY <2>1, <2>2, Zenon
  <2> QED
    BY <1>1, <2>3, Zenon
<1>12. \A d \in 1 .. n : key[4 + d] = v[d]
  <2>1. \A d \in 1 .. n : 4 + d \in 1 .. n + 4
    OBVIOUS
  <2> QED
    BY <1>9, <1>10, <2>1, Zenon
<1>13. key[n + 5] = id
  <2>1. 1 \in 1 .. 1 /\ n + 4 + 1 = n + 5
    OBVIOUS
  <2>2. key[n + 4 + 1] = id
    BY <1>3, <1>10, <2>1, Zenon
  <2> QED
    BY <2>1, <2>2, Zenon
<1>14. Components(key, n, r, p, w, s, v, id)
  BY <1>7, <1>8, <1>11, <1>12, <1>13, Zenon DEF Components
<1> QED
  BY <1>14 DEF key, hv, h, e

\* The key of a failed trial.
LEMMA KeyOfFailed ==
    ASSUME NEW n \in Nat, NEW t \in Trial(n), t.status = "failed"
    PROVE  LET key == PreferenceKey(t)
           IN  /\ key \in Seq(Int) /\ DOMAIN key = 1 .. 2
               /\ key[1] = 2 /\ key[2] = t.id
<1>1. PreferenceKey(t) = <<2, t.id>>
  BY Zenon DEF PreferenceKey
<1>2. t.id \in Int
  BY TrialTypes
<1> QED
  BY <1>1, <1>2

\* The key of an infeasible trial.
LEMMA KeyOfInfeasible ==
    ASSUME NEW n \in Nat, NEW t \in Trial(n), t.status # "failed", ~t.feasible
    PROVE  LET key == PreferenceKey(t)
           IN  /\ key \in Seq(Int) /\ DOMAIN key = 1 .. n + 5
               /\ key[1] = 1 /\ key[2] = t.violation /\ key[3] = t.worst
               /\ key[n + 5] = t.id
<1> DEFINE s == SumOfSquashed(t.vector)
<1>1. PreferenceKey(t) = <<1, t.violation, t.worst, s>> \o t.vector \o <<t.id>>
  BY Zenon DEF PreferenceKey
<1>2. /\ t.id \in Int /\ t.violation \in Int /\ t.worst \in Int
      /\ t.vector \in [1 .. n -> Int]
  BY TrialTypes
<1>3. s \in Int
  <2>1. NoWorse(t.vector, t.vector)
    BY <1>2 DEF NoWorse
  <2> QED
    BY <1>2, <2>1, SquashedSumIsMonotone
<1> HIDE DEF s
<1>4. Components(PreferenceKey(t), n, 1, t.violation, t.worst, s, t.vector, t.id)
  <2> DEFINE joined == <<1, t.violation, t.worst, s>> \o t.vector \o <<t.id>>
  <2>1. 1 \in Int
    OBVIOUS
  <2>2. Components(joined, n, 1, t.violation, t.worst, s, t.vector, t.id)
    BY <1>2, <1>3, <2>1, KeyComponents
  <2> HIDE DEF joined
  <2>3. PreferenceKey(t) = joined
    BY <1>1 DEF joined
  <2> QED
    BY <2>2, <2>3, Zenon
<1> QED
  BY <1>4, Zenon DEF Components

\* The key of a feasible trial.
LEMMA KeyOfFeasible ==
    ASSUME NEW n \in Nat, NEW t \in Trial(n), t.status # "failed", t.feasible
    PROVE  LET key == PreferenceKey(t)
           IN  /\ key \in Seq(Int) /\ DOMAIN key = 1 .. n + 5
               /\ key[1] = 0 /\ key[2] = 0 /\ key[3] = 0 /\ key[4] = SumOfSquashed(t.vector)
               /\ \A d \in 1 .. n : key[4 + d] = t.vector[d]
               /\ key[n + 5] = t.id
<1> DEFINE s == SumOfSquashed(t.vector)
<1>1. PreferenceKey(t) = <<0, 0, 0, s>> \o t.vector \o <<t.id>>
  BY Zenon DEF PreferenceKey
<1>2. t.id \in Int /\ t.vector \in [1 .. n -> Int]
  BY TrialTypes
<1>3. s \in Int
  <2>1. NoWorse(t.vector, t.vector)
    BY <1>2 DEF NoWorse
  <2> QED
    BY <1>2, <2>1, SquashedSumIsMonotone
<1> HIDE DEF s
<1>4. Components(PreferenceKey(t), n, 0, 0, 0, s, t.vector, t.id)
  <2> DEFINE joined == <<0, 0, 0, s>> \o t.vector \o <<t.id>>
  <2>1. 0 \in Int
    OBVIOUS
  <2>2. Components(joined, n, 0, 0, 0, s, t.vector, t.id)
    BY <1>2, <1>3, <2>1, KeyComponents
  <2> HIDE DEF joined
  <2>3. PreferenceKey(t) = joined
    BY <1>1 DEF joined
  <2> QED
    BY <2>2, <2>3, Zenon
<1> QED
  BY <1>4, Zenon DEF Components, s

\* The first component tells the kinds of trials apart.
LEMMA KeyKind ==
    ASSUME NEW n \in Nat, NEW t \in Trial(n)
    PROVE  LET key == PreferenceKey(t)
           IN  /\ key \in Seq(Int) /\ 1 \in DOMAIN key
               /\ key[1] = IF t.status = "failed" THEN 2 ELSE IF t.feasible THEN 0 ELSE 1
<1>1. CASE t.status = "failed"
  BY <1>1, KeyOfFailed
<1>2. CASE t.status # "failed" /\ ~t.feasible
  <2>1. 1 \in 1 .. n + 5
    OBVIOUS
  <2> QED
    BY <1>2, <2>1, KeyOfInfeasible, Zenon
<1>3. CASE t.status # "failed" /\ t.feasible
  <2>1. 1 \in 1 .. n + 5
    OBVIOUS
  <2> QED
    BY <1>3, <2>1, KeyOfFeasible, Zenon
<1> QED
  BY <1>1, <1>2, <1>3

\* A smaller first component decides.
LEMMA KindDecides ==
    ASSUME NEW a \in Seq(Int), NEW b \in Seq(Int), 1 \in DOMAIN a, 1 \in DOMAIN b, a[1] < b[1]
    PROVE  Lexicographic(a, b)
<1>1. \A j \in 1 .. 1 - 1 : a[j] = b[j]
  OBVIOUS
<1> QED
  BY <1>1 DEF Lexicographic

(***************************************************************************)
(* The key agrees with dominance: between infeasible trials the violations *)
(* come first, and a feasible one that is nowhere worse and somewhere      *)
(* better has a smaller squashed sum or, where that is saturated, a        *)
(* smaller vector.                                                         *)
(***************************************************************************)
LEMMA DominanceDecides ==
    ASSUME NEW n \in Nat, NEW x \in Trial(n), NEW y \in Trial(n), Dominates(x, y)
    PROVE  Lexicographic(PreferenceKey(x), PreferenceKey(y))
<1> DEFINE a == PreferenceKey(x)
           b == PreferenceKey(y)
<1>1. x.status = "success" /\ x.status # "failed"
  BY DEF Dominates
<1>2. /\ a \in Seq(Int) /\ 1 \in DOMAIN a /\ b \in Seq(Int) /\ 1 \in DOMAIN b
      /\ a[1] = IF x.feasible THEN 0 ELSE 1
      /\ b[1] = IF y.status = "failed" THEN 2 ELSE IF y.feasible THEN 0 ELSE 1
  BY <1>1, KeyKind
<1>3. /\ x.violation \in Int /\ y.violation \in Int /\ x.worst \in Int /\ y.worst \in Int
      /\ x.vector \in [1 .. n -> Int]
  BY <1>1, TrialTypes
<1>4. CASE y.status = "failed" \/ (y.status # "failed" /\ x.feasible /\ ~y.feasible)
  <2>1. a[1] < b[1]
    BY <1>2, <1>4
  <2> HIDE DEF a, b
  <2>2. Lexicographic(a, b)
    BY <1>2, <2>1, KindDecides
  <2> QED
    BY <2>2 DEF a, b
<1>5. CASE y.status # "failed" /\ ~x.feasible /\ ~y.feasible
  <2>1. \/ x.violation < y.violation
        \/ x.violation = y.violation /\ x.worst < y.worst
    BY <1>5 DEF Dominates
  <2>2. /\ DOMAIN a = 1 .. n + 5 /\ a[1] = 1 /\ a[2] = x.violation /\ a[3] = x.worst
        /\ DOMAIN b = 1 .. n + 5 /\ b[1] = 1 /\ b[2] = y.violation /\ b[3] = y.worst
    BY <1>1, <1>5, KeyOfInfeasible
  <2> HIDE DEF a, b
  <2>3. 2 \in DOMAIN a \intersect DOMAIN b /\ 3 \in DOMAIN a \intersect DOMAIN b
    BY <2>2
  <2>4. CASE x.violation < y.violation
    <3>1. \A j \in 1 .. 2 - 1 : a[j] = b[j]
      BY <2>2
    <3>2. a[2] < b[2]
      BY <2>2, <2>4
    <3>3. Lexicographic(a, b)
      BY <2>3, <3>1, <3>2, Zenon DEF Lexicographic
    <3> QED
      BY <3>3 DEF a, b
  <2>5. CASE x.violation = y.violation /\ x.worst < y.worst
    <3>1. \A j \in 1 .. 3 - 1 : j = 1 \/ j = 2
      OBVIOUS
    <3>2. \A j \in 1 .. 3 - 1 : a[j] = b[j]
      BY <2>2, <2>5, <3>1
    <3>3. a[3] < b[3]
      BY <2>2, <2>5
    <3>4. Lexicographic(a, b)
      BY <2>3, <3>2, <3>3, Zenon DEF Lexicographic
    <3> QED
      BY <3>4 DEF a, b
  <2> QED
    BY <2>1, <2>4, <2>5
<1>6. CASE y.status # "failed" /\ x.feasible /\ y.feasible
  <2>1. NoWorse(x.vector, y.vector) /\ Better(x.vector, y.vector)
    BY <1>6 DEF Dominates
  <2>2. y.vector \in [1 .. n -> Int]
    BY <1>6, TrialTypes
  <2> DEFINE p == SumOfSquashed(x.vector)
             q == SumOfSquashed(y.vector)
  <2>3. p \in Int /\ q \in Int /\ p <= q
    BY <1>3, <2>1, <2>2, SquashedSumIsMonotone
  <2>4. /\ DOMAIN a = 1 .. n + 5 /\ a[1] = 0 /\ a[2] = 0 /\ a[3] = 0 /\ a[4] = p
        /\ \A d \in 1 .. n : a[4 + d] = x.vector[d]
    BY <1>1, <1>6, KeyOfFeasible
  <2>5. /\ DOMAIN b = 1 .. n + 5 /\ b[1] = 0 /\ b[2] = 0 /\ b[3] = 0 /\ b[4] = q
        /\ \A d \in 1 .. n : b[4 + d] = y.vector[d]
    BY <1>6, KeyOfFeasible
  <2> HIDE DEF a, b, p, q
  <2>6. CASE p < q
    <3>1. 4 \in DOMAIN a \intersect DOMAIN b
      BY <2>4, <2>5
    <3>2. \A j \in 1 .. 4 - 1 : j = 1 \/ j = 2 \/ j = 3
      OBVIOUS
    <3>3. \A j \in 1 .. 4 - 1 : a[j] = b[j]
      BY <2>4, <2>5, <3>2
    <3>4. a[4] < b[4]
      BY <2>4, <2>5, <2>6
    <3>5. Lexicographic(a, b)
      BY <3>1, <3>3, <3>4, Zenon DEF Lexicographic
    <3> QED
      BY <3>5 DEF a, b
  <2>7. CASE p = q
    <3> DEFINE v == x.vector
               w == y.vector
               differing == {d \in 1 .. n : v[d] # w[d]}
    <3>1. \A d \in 1 .. n : v[d] \in Int /\ w[d] \in Int /\ v[d] <= w[d]
      BY <1>3, <2>1, <2>2 DEF NoWorse
    <3>2. \E d \in 1 .. n : v[d] < w[d]
      BY <1>3, <2>1 DEF Better
    <3> HIDE DEF v, w
    <3>3. differing \in SUBSET Nat /\ differing # {}
      BY <3>1, <3>2
    <3>4. PICK d \in differing : \A k \in differing : d <= k
      <4> HIDE DEF differing
      <4> QED
        BY <3>3, LeastNatural
    <3>5. d \in 1 .. n /\ v[d] # w[d]
      BY <3>4
    <3>6. v[d] < w[d]
      BY <3>1, <3>5
    <3>7. ASSUME NEW k \in 1 .. n, k < d PROVE v[k] = w[k]
      <4>1. ~(d <= k)
        BY <3>5, <3>7
      <4> QED
        BY <3>4, <4>1
    <3> DEFINE i == 4 + d
    <3>8. i \in DOMAIN a \intersect DOMAIN b
      BY <2>4, <2>5, <3>5
    <3>9. a[i] < b[i]
      BY <2>4, <2>5, <3>5, <3>6 DEF v, w
    <3>10. ASSUME NEW j \in 1 .. i - 1 PROVE a[j] = b[j]
      <4>1. j \in 1 .. 3 \/ j = 4 \/ j - 4 \in 1 .. d - 1
        BY <3>5
      <4>2. CASE j \in 1 .. 3
        <5>1. j = 1 \/ j = 2 \/ j = 3
          BY <4>2
        <5> QED
          BY <2>4, <2>5, <5>1
      <4>3. CASE j = 4
        BY <2>4, <2>5, <2>7, <4>3
      <4>4. CASE j - 4 \in 1 .. d - 1
        <5> DEFINE k == j - 4
        <5>1. k \in 1 .. n /\ k < d /\ j = 4 + k
          BY <3>5, <4>4
        <5> HIDE DEF k
        <5>2. v[k] = w[k]
          BY <3>7, <5>1
        <5>3. a[4 + k] = v[k] /\ b[4 + k] = w[k]
          BY <2>4, <2>5, <5>1 DEF v, w
        <5> QED
          BY <5>1, <5>2, <5>3
      <4> QED
        BY <4>1, <4>2, <4>3, <4>4
    <3> HIDE DEF i
    <3>11. Lexicographic(a, b)
      BY <3>8, <3>9, <3>10, Zenon DEF Lexicographic
    <3> QED
      BY <3>11 DEF a, b
  <2> QED
    BY <2>3, <2>6, <2>7
<1>7. x.feasible \in BOOLEAN /\ y.feasible \in BOOLEAN
  BY TrialTypes
<1>8. ~(y.status # "failed" /\ ~x.feasible /\ y.feasible)
  BY DEF Dominates
<1> QED
  BY <1>4, <1>5, <1>6, <1>8, Zenon

\* Trials with different ids have keys in one order or the other.
LEMMA IdentityDecides ==
    ASSUME NEW n \in Nat, NEW x \in Trial(n), NEW y \in Trial(n), x.id # y.id
    PROVE  \/ Lexicographic(PreferenceKey(x), PreferenceKey(y))
           \/ Lexicographic(PreferenceKey(y), PreferenceKey(x))
<1> DEFINE a == PreferenceKey(x)
           b == PreferenceKey(y)
<1>1. a \in Seq(Int) /\ 1 \in DOMAIN a /\ b \in Seq(Int) /\ 1 \in DOMAIN b
  BY KeyKind
<1>2. CASE a[1] # b[1]
  <2> HIDE DEF a, b
  <2>1. 1 \in DOMAIN a \intersect DOMAIN b
    BY <1>1
  <2>2. Lexicographic(a, b) \/ Lexicographic(b, a)
    BY <1>1, <1>2, <2>1, LexicographicTotal
  <2> QED
    BY <2>2 DEF a, b
<1>3. CASE a[1] = b[1]
  <2>1. (x.status = "failed" /\ y.status = "failed")
        \/ (x.status # "failed" /\ y.status # "failed")
    BY <1>3, KeyKind
  <2>2. CASE x.status = "failed" /\ y.status = "failed"
    <3>1. /\ DOMAIN a = 1 .. 2 /\ a[2] = x.id
          /\ DOMAIN b = 1 .. 2 /\ b[2] = y.id
      BY <2>2, KeyOfFailed
    <3> HIDE DEF a, b
    <3>2. 2 \in DOMAIN a \intersect DOMAIN b /\ a[2] # b[2]
      BY <3>1
    <3>3. Lexicographic(a, b) \/ Lexicographic(b, a)
      BY <1>1, <3>2, LexicographicTotal
    <3> QED
      BY <3>3 DEF a, b
  <2>3. CASE x.status # "failed" /\ y.status # "failed"
    <3>1. DOMAIN a = 1 .. n + 5 /\ a[n + 5] = x.id
      <4>1. CASE x.feasible
        BY <2>3, <4>1, KeyOfFeasible
      <4>2. CASE ~x.feasible
        BY <2>3, <4>2, KeyOfInfeasible
      <4> QED
        BY <4>1, <4>2, Zenon
    <3>2. DOMAIN b = 1 .. n + 5 /\ b[n + 5] = y.id
      <4>1. CASE y.feasible
        BY <2>3, <4>1, KeyOfFeasible
      <4>2. CASE ~y.feasible
        BY <2>3, <4>2, KeyOfInfeasible
      <4> QED
        BY <4>1, <4>2, Zenon
    <3> HIDE DEF a, b
    <3> DEFINE d == n + 5
    <3>3. d \in DOMAIN a \intersect DOMAIN b /\ a[d] # b[d]
      BY <3>1, <3>2
    <3> HIDE DEF d
    <3>4. Lexicographic(a, b) \/ Lexicographic(b, a)
      BY <1>1, <3>3, LexicographicTotal
    <3> QED
      BY <3>4 DEF a, b
  <2> QED
    BY <2>1, <2>2, <2>3
<1> QED
  BY <1>2, <1>3

\* So what is preferred is decided by the key alone.
LEMMA KeyDecides ==
    ASSUME NEW n \in Nat, NEW x \in Trial(n), NEW y \in Trial(n)
    PROVE  Preferred(x, y) <=> Lexicographic(PreferenceKey(x), PreferenceKey(y))
<1> DEFINE a == PreferenceKey(x)
           b == PreferenceKey(y)
<1>1. a \in Seq(Int) /\ b \in Seq(Int)
  BY KeyKind
<1>2. Dominates(x, y) => Lexicographic(a, b)
  BY DominanceDecides
<1>3. Dominates(y, x) => Lexicographic(b, a)
  BY DominanceDecides
<1> HIDE DEF a, b
<1>4. Lexicographic(a, b) => ~Lexicographic(b, a)
  <2> SUFFICES ASSUME Lexicographic(a, b), Lexicographic(b, a) PROVE FALSE
    OBVIOUS
  <2>1. Lexicographic(a, a)
    BY <1>1, LexicographicTransitive
  <2> QED
    BY <1>1, <2>1, LexicographicIrreflexive
<1>5. Preferred(x, y) <=> (Dominates(x, y) \/ (~Dominates(y, x) /\ Lexicographic(a, b)))
  BY Zenon DEF Preferred, a, b
<1>6. Preferred(x, y) <=> Lexicographic(a, b)
  BY <1>2, <1>3, <1>4, <1>5, Zenon
<1> QED
  BY <1>6 DEF a, b
-----------------------------------------------------------------------------
(* Loops: what is computed in rounds, each from the one before it.         *)

\* The rounds up to N of a loop whose body is the function G.
Rounds(it, N, start, G) ==
    it = [r \in 0 .. N |-> IF r = 0 THEN start ELSE G[<<r, it[r - 1]>>]]

LEMMA RoundsAre ==
    ASSUME NEW N \in Nat, NEW start, NEW G, NEW it, Rounds(it, N, start, G)
    PROVE  it[0] = start /\ \A r \in 1 .. N : it[r] = G[<<r, it[r - 1]>>]
<1>1. \A r \in 0 .. N : it[r] = IF r = 0 THEN start ELSE G[<<r, it[r - 1]>>]
  BY Zenon DEF Rounds
<1>2. 0 \in 0 .. N /\ \A r \in 1 .. N : r \in 0 .. N /\ r # 0
  OBVIOUS
<1> QED
  BY <1>1, <1>2, Zenon

\* A loop of any number of rounds has a result after each.
LEMMA RoundsExist ==
    ASSUME NEW N \in Nat, NEW start, NEW G
    PROVE  \E it : Rounds(it, N, start, G)
<1> DEFINE Good(m) == \E it : Rounds(it, m, start, G)
           bad == {m \in Nat : ~Good(m)}
<1>1. Good(0)
  <2> DEFINE it == [r \in 0 .. 0 |-> start]
  <2>1. \A r \in 0 .. 0 : r = 0
    OBVIOUS
  <2>2. it = [r \in 0 .. 0 |-> IF r = 0 THEN start ELSE G[<<r, it[r - 1]>>]]
    BY <2>1, Zenon
  <2> QED
    BY <2>2, Zenon DEF Rounds
<1>2. ASSUME NEW m \in Nat, Good(m) PROVE Good(m + 1)
  <2>1. PICK it : Rounds(it, m, start, G)
    BY <1>2
  <2>2. it[0] = start /\ \A r \in 1 .. m : it[r] = G[<<r, it[r - 1]>>]
    BY <2>1, RoundsAre
  <2> DEFINE more == [r \in 0 .. m + 1 |-> IF r <= m THEN it[r] ELSE G[<<r, it[m]>>]]
  <2>3. ASSUME NEW r \in 0 .. m + 1
        PROVE  more[r] = IF r = 0 THEN start ELSE G[<<r, more[r - 1]>>]
    <3>1. CASE r = 0
      BY <2>2, <3>1
    <3>2. CASE r \in 1 .. m
      <4>1. r - 1 \in 0 .. m + 1 /\ r - 1 <= m /\ r <= m /\ r # 0
        BY <3>2
      <4>2. more[r] = it[r] /\ more[r - 1] = it[r - 1]
        BY <4>1
      <4> HIDE DEF more
      <4> QED
        BY <2>2, <3>2, <4>1, <4>2, Zenon
    <3>3. CASE r = m + 1
      <4>1. r - 1 = m /\ m \in 0 .. m + 1 /\ m <= m /\ ~(r <= m) /\ r # 0
        BY <3>3
      <4>2. more[r] = G[<<r, it[m]>>] /\ more[m] = it[m]
        BY <4>1
      <4> HIDE DEF more
      <4> QED
        BY <4>1, <4>2, Zenon
    <3> QED
      BY <3>1, <3>2, <3>3
  <2>4. more = [r \in 0 .. m + 1 |-> more[r]]
    OBVIOUS
  <2> HIDE DEF more
  <2> DEFINE result == [r \in 0 .. m + 1 |-> IF r = 0 THEN start ELSE G[<<r, more[r - 1]>>]]
  <2>5. [r \in 0 .. m + 1 |-> more[r]] = result
    BY <2>3, Zenon
  <2>6. more = result
    BY <2>4, <2>5, Zenon
  <2> QED
    BY <2>6, Zenon DEF Rounds
<1> HIDE DEF Good
<1>3. bad = {}
  <2> SUFFICES ASSUME bad # {} PROVE FALSE
    OBVIOUS
  <2>1. PICK m \in bad : \A k \in bad : m <= k
    BY LeastNatural
  <2>2. m \in Nat /\ m # 0
    BY <1>1, <2>1
  <2>3. m - 1 \in Nat /\ m - 1 + 1 = m /\ ~(m <= m - 1)
    BY <2>2
  <2>4. Good(m - 1)
    BY <2>1, <2>3
  <2>5. Good(m - 1 + 1)
    BY <1>2, <2>3, <2>4
  <2> QED
    BY <2>1, <2>3, <2>5
<1>4. Good(N)
  BY <1>3
<1> QED
  BY <1>4 DEF Good

\* What holds at first and is kept by every round holds after all of them.
LEMMA RoundsKeep ==
    ASSUME NEW N \in Nat, NEW S, 0 \in S, \A r \in 1 .. N : r - 1 \in S => r \in S
    PROVE  \A r \in 0 .. N : r \in S
<1> DEFINE bad == {r \in 0 .. N : r \notin S}
<1>1. bad = {}
  <2> SUFFICES ASSUME bad # {} PROVE FALSE
    OBVIOUS
  <2>1. bad \in SUBSET Nat
    OBVIOUS
  <2>2. PICK r \in bad : \A k \in bad : r <= k
    <3> HIDE DEF bad
    <3> QED
      BY <2>1, LeastNatural
  <2>3. r \in 0 .. N /\ r \notin S /\ r # 0
    BY <2>2
  <2>4. r \in 1 .. N /\ r - 1 \in 0 .. N /\ ~(r <= r - 1)
    BY <2>3
  <2>5. r - 1 \in S
    BY <2>2, <2>4
  <2> QED
    BY <2>3, <2>4, <2>5
<1> QED
  BY <1>1
-----------------------------------------------------------------------------
(* The sort into fronts.                                                   *)

\* The states of the loop of non_dominated_sort().
Sorts(S) == [fronts : Seq(SUBSET S), counts : [S -> Int], pending : SUBSET S]

SortRound(sort) == IF sort.pending = {} THEN sort ELSE EmitFront(sort)

\* A state of the sort, after any number of rounds, is one.
LEMMA SortTypes ==
    ASSUME NEW S, IsFiniteSet(S)
    PROVE  /\ SortBegins(S) \in Sorts(S)
           /\ \A x \in Sorts(S) : EmitFront(x) \in Sorts(S) /\ SortRound(x) \in Sorts(S)
<1>1. \A T \in SUBSET S : Cardinality(T) \in Int
  BY FS_Subset, FS_CardinalityType
<1>2. SortBegins(S) \in Sorts(S)
  <2> DEFINE counts == [t \in S |-> Cardinality({u \in S : Dominates(u, t)})]
  <2>1. \A t \in S : {u \in S : Dominates(u, t)} \in SUBSET S
    OBVIOUS
  <2>2. counts \in [S -> Int]
    BY <1>1, <2>1
  <2>3. SortBegins(S) = [fronts |-> <<>>, counts |-> counts,
                         pending |-> {t \in S : counts[t] = 0}]
    BY DEF SortBegins
  <2> HIDE DEF counts
  <2>4. <<>> \in Seq(SUBSET S) /\ {t \in S : counts[t] = 0} \in SUBSET S
    OBVIOUS
  <2> QED
    BY <2>2, <2>3, <2>4 DEF Sorts
<1>3. ASSUME NEW x \in Sorts(S) PROVE EmitFront(x) \in Sorts(S)
  <2> DEFINE Dominators(t) == {u \in x.pending : Dominates(u, t)}
             lowered == [t \in DOMAIN x.counts |-> x.counts[t] - Cardinality(Dominators(t))]
             following == {t \in DOMAIN x.counts : Dominators(t) # {} /\ lowered[t] = 0}
  <2>1. x.fronts \in Seq(SUBSET S) /\ x.counts \in [S -> Int] /\ x.pending \in SUBSET S
    BY DEF Sorts
  <2>2. EmitFront(x) = [fronts |-> Append(x.fronts, x.pending), counts |-> lowered,
                        pending |-> following]
    BY Zenon DEF EmitFront
  <2>3. \A t \in S : Cardinality(Dominators(t)) \in Int
    BY <1>1, <2>1
  <2>4. lowered \in [S -> Int] /\ following \in SUBSET S
    <3>1. DOMAIN x.counts = S
      BY <2>1
    <3>2. \A t \in S : x.counts[t] \in Int
      BY <2>1
    <3> HIDE DEF Dominators
    <3> QED
      BY <2>3, <3>1, <3>2
  <2>5. Append(x.fronts, x.pending) \in Seq(SUBSET S)
    BY <2>1
  <2> HIDE DEF lowered, following
  <2> QED
    BY <2>2, <2>4, <2>5 DEF Sorts
<1> QED
  BY <1>2, <1>3 DEF SortRound

\* NonDominatedSort() is what a loop of as many rounds as trials computes.
LEMMA SortIs ==
    ASSUME NEW S, IsFiniteSet(S)
    PROVE  \E it \in [0 .. Cardinality(S) -> Sorts(S)] :
              /\ it[0] = SortBegins(S)
              /\ \A r \in 1 .. Cardinality(S) : it[r] = SortRound(it[r - 1])
              /\ NonDominatedSort(S) = it[Cardinality(S)].fronts
<1> DEFINE N == Cardinality(S)
           Loop(it) == it = [rounds \in 0 .. N |->
                               IF rounds = 0 THEN SortBegins(S)
                               ELSE LET sort == it[rounds - 1]
                                    IN  IF sort.pending = {} THEN sort ELSE EmitFront(sort)]
           it == CHOOSE it : Loop(it)
<1>1. N \in Nat
  BY FS_CardinalityType
<1>2. NonDominatedSort(S) = it[N].fronts
  BY Zenon DEF NonDominatedSort
<1>3. \E f : Loop(f)
  <2> DEFINE G == [p \in Nat \X Sorts(S) |-> SortRound(p[2])]
  <2>1. PICK f : Rounds(f, N, SortBegins(S), G)
    BY <1>1, RoundsExist
  <2>2. f[0] = SortBegins(S) /\ \A r \in 1 .. N : f[r] = G[<<r, f[r - 1]>>]
    BY <1>1, <2>1, RoundsAre
  <2>3. \A r \in 0 .. N : f[r] \in Sorts(S)
    <3> DEFINE Typed == {r \in 0 .. N : f[r] \in Sorts(S)}
    <3>1. 0 \in Typed
      BY <1>1, <2>2, SortTypes
    <3>2. ASSUME NEW r \in 1 .. N, r - 1 \in Typed PROVE r \in Typed
      <4>1. <<r, f[r - 1]>> \in Nat \X Sorts(S)
        BY <3>2
      <4>2. f[r] = SortRound(f[r - 1])
        BY <2>2, <4>1
      <4> QED
        BY <3>2, <4>2, SortTypes
    <3> HIDE DEF Typed
    <3>3. \A r \in 0 .. N : r \in Typed
      BY <1>1, <3>1, <3>2, RoundsKeep
    <3> QED
      BY <3>3 DEF Typed
  <2>4. ASSUME NEW r \in 1 .. N PROVE f[r] = SortRound(f[r - 1])
    <3>1. r \in Nat /\ r - 1 \in 0 .. N
      BY <1>1
    <3>2. <<r, f[r - 1]>> \in Nat \X Sorts(S)
      BY <2>3, <3>1
    <3> QED
      BY <2>2, <3>2
  <2>5. f = [r \in 0 .. N |-> f[r]]
    BY <2>1 DEF Rounds
  <2> HIDE DEF G, N
  <2>6. ASSUME NEW r \in 0 .. N
        PROVE  f[r] = IF r = 0 THEN SortBegins(S)
                      ELSE LET sort == f[r - 1]
                           IN  IF sort.pending = {} THEN sort ELSE EmitFront(sort)
    <3>1. CASE r = 0
      BY <2>2, <3>1
    <3>2. CASE r # 0
      <4>1. r \in 1 .. N
        BY <1>1, <3>2
      <4> QED
        BY <2>4, <3>2, <4>1 DEF SortRound
    <3> QED
      BY <3>1, <3>2
  <2> DEFINE body == [rounds \in 0 .. N |->
                        IF rounds = 0 THEN SortBegins(S)
                        ELSE LET sort == f[rounds - 1]
                             IN  IF sort.pending = {} THEN sort ELSE EmitFront(sort)]
  <2>7. [r \in 0 .. N |-> f[r]] = body
    BY <2>6, Zenon
  <2>8. f = body
    BY <2>5, <2>7, Zenon
  <2> QED
    BY <2>8, Zenon
<1>4. Loop(it)
  BY <1>3, Zenon
<1>5. /\ \A r \in 0 .. N : it[r] = IF r = 0 THEN SortBegins(S) ELSE SortRound(it[r - 1])
      /\ it = [r \in 0 .. N |-> it[r]]
  <2> HIDE DEF it, N
  <2>1. it = [rounds \in 0 .. N |-> IF rounds = 0 THEN SortBegins(S)
                                    ELSE SortRound(it[rounds - 1])]
    BY <1>4, Zenon DEF SortRound
  <2> QED
    BY <2>1
<1> HIDE DEF it
<1>6. it[0] = SortBegins(S) /\ \A r \in 1 .. N : it[r] = SortRound(it[r - 1])
  <2>1. 0 \in 0 .. N /\ \A r \in 1 .. N : r \in 0 .. N /\ r # 0
    BY <1>1
  <2> QED
    BY <1>5, <2>1, Zenon
<1>7. \A r \in 0 .. N : it[r] \in Sorts(S)
  <2> DEFINE Typed == {r \in 0 .. N : it[r] \in Sorts(S)}
  <2>1. 0 \in Typed
    BY <1>1, <1>6, SortTypes
  <2>2. ASSUME NEW r \in 1 .. N, r - 1 \in Typed PROVE r \in Typed
    BY <1>6, <2>2, SortTypes
  <2> HIDE DEF Typed
  <2>3. \A r \in 0 .. N : r \in Typed
    BY <1>1, <2>1, <2>2, RoundsKeep
  <2> QED
    BY <2>3 DEF Typed
<1>8. it \in [0 .. N -> Sorts(S)]
  BY <1>5, <1>7
<1> QED
  BY <1>2, <1>6, <1>8

Undominated(R) == {t \in R : ~\E u \in R : Dominates(u, t)}

\* The trials of the first i fronts.
Upto(fronts, i) == UNION {fronts[j] : j \in 1 .. i}

(***************************************************************************)
(* Of finitely many trials some are not dominated: dominance has no cycle. *)
(***************************************************************************)
LEMMA UndominatedExists ==
    ASSUME NEW n \in Nat, NEW R \in SUBSET Trial(n), IsFiniteSet(R), R # {}
    PROVE  Undominated(R) # {}
<1> DEFINE Over(t) == {u \in R : Dominates(u, t)}
           all == {Over(t) : t \in R}
<1>1. all \in SUBSET (SUBSET R) /\ all # {}
  OBVIOUS
<1>2. PICK D \in all : \A U \in all : U \subseteq D => U = D
  <2> HIDE DEF all
  <2> QED
    BY <1>1, LeastSet
<1>3. PICK t \in R : D = Over(t)
  BY <1>2
<1>4. ASSUME NEW u \in R, Dominates(u, t) PROVE FALSE
  <2>1. ~Dominates(u, u)
    BY DominatesIrreflexive
  <2>2. \A v \in R : Dominates(v, u) => Dominates(v, t)
    BY <1>4, DominatesTransitive
  <2>3. Over(u) \in all /\ Over(u) \subseteq D
    BY <1>3, <2>2
  <2>4. u \in D /\ u \notin Over(u)
    BY <1>3, <1>4, <2>1
  <2> QED
    BY <1>2, <2>3, <2>4
<1> QED
  BY <1>4 DEF Undominated

\* One front more.
Extended(S, fronts, P, more) ==
    LET k == Len(fronts)
    IN  /\ k \in Nat /\ DOMAIN fronts = 1 .. k
        /\ Len(more) = k + 1 /\ DOMAIN more = 1 .. k + 1
        /\ \A i \in 1 .. k : more[i] = fronts[i]
        /\ more[k + 1] = P
        /\ \A i \in 0 .. k : Upto(more, i) = Upto(fronts, i)
        /\ Upto(more, k + 1) = Upto(fronts, k) \union P
        /\ Upto(fronts, k) \subseteq S

LEMMA UptoAppend ==
    ASSUME NEW S, NEW fronts \in Seq(SUBSET S), NEW P \in SUBSET S
    PROVE  Extended(S, fronts, P, Append(fronts, P))
<1> DEFINE k == Len(fronts)
           more == Append(fronts, P)
<1>1. /\ k \in Nat /\ DOMAIN fronts = 1 .. k
      /\ Len(more) = k + 1 /\ DOMAIN more = 1 .. k + 1
      /\ \A i \in 1 .. k : more[i] = fronts[i]
      /\ more[k + 1] = P
  OBVIOUS
<1>2. \A j \in 1 .. k : fronts[j] \subseteq S
  OBVIOUS
<1> HIDE DEF k, more
<1>3. ASSUME NEW i \in 0 .. k PROVE Upto(more, i) = Upto(fronts, i)
  <2>1. \A j \in 1 .. i : j \in 1 .. k
    BY <1>1
  <2>2. \A j \in 1 .. i : more[j] = fronts[j]
    BY <1>1, <2>1
  <2>3. {more[j] : j \in 1 .. i} = {fronts[j] : j \in 1 .. i}
    BY <2>2
  <2> QED
    BY <2>3, Zenon DEF Upto
<1>4. Upto(more, k + 1) = Upto(fronts, k) \union P
  <2>1. \A j \in 1 .. k + 1 : j \in 1 .. k \/ j = k + 1
    BY <1>1
  <2>2. \A j \in 1 .. k : j \in 1 .. k + 1
    BY <1>1
  <2>3. k + 1 \in 1 .. k + 1
    BY <1>1
  <2>4. \A x : x \in Upto(more, k + 1) <=> \E j \in 1 .. k + 1 : x \in more[j]
    BY DEF Upto
  <2>5. \A x : x \in Upto(fronts, k) <=> \E j \in 1 .. k : x \in fronts[j]
    BY DEF Upto
  <2>6. \A x : x \in Upto(more, k + 1) <=> x \in Upto(fronts, k) \/ x \in P
    BY <1>1, <2>1, <2>2, <2>3, <2>4, <2>5, Zenon
  <2> QED
    BY <2>6
<1>5. Upto(fronts, k) \subseteq S
  BY <1>2 DEF Upto
<1> QED
  BY <1>1, <1>3, <1>4, <1>5, Zenon DEF k, more, Extended

\* What was not emitted yet.
Rest(S, fronts) == S \ Upto(fronts, Len(fronts))

(***************************************************************************)
(* The loop invariant of non_dominated_sort() after r rounds: the fronts   *)
(* so far are what dominance makes of them, the pending trials are the     *)
(* next one, and each count is that of the dominators not emitted yet.     *)
(***************************************************************************)
Sorted(S, x, r) ==
    /\ \A i \in DOMAIN x.fronts :
         x.fronts[i] = Undominated(S \ Upto(x.fronts, i - 1)) /\ x.fronts[i] # {}
    /\ x.pending = Undominated(Rest(S, x.fronts))
    /\ \A t \in S : x.counts[t] = Cardinality({u \in Rest(S, x.fronts) : Dominates(u, t)})
    /\ \A t \in Upto(x.fronts, Len(x.fronts)), u \in Rest(S, x.fronts) : ~Dominates(u, t)
    /\ x.pending = {} \/ Cardinality(Upto(x.fronts, Len(x.fronts))) >= r

LEMMA SortBeginsSorted ==
    ASSUME NEW S, IsFiniteSet(S)
    PROVE  Sorted(S, SortBegins(S), 0)
<1> DEFINE x == SortBegins(S)
<1>1. /\ x.fronts = <<>>
      /\ \A t \in S : x.counts[t] = Cardinality({u \in S : Dominates(u, t)})
      /\ x.pending = {t \in S : Cardinality({u \in S : Dominates(u, t)}) = 0}
  BY DEF SortBegins
<1>2. Upto(<<>>, 0) = {} /\ Len(<<>>) = 0 /\ DOMAIN <<>> = {}
  BY DEF Upto
<1>3. Rest(S, x.fronts) = S /\ Upto(x.fronts, Len(x.fronts)) = {} /\ DOMAIN x.fronts = {}
  BY <1>1, <1>2 DEF Rest
<1>4. \A t \in S : IsFiniteSet({u \in S : Dominates(u, t)})
  BY FS_Subset
<1>5. x.pending = Undominated(S)
  BY <1>1, <1>4, FS_EmptySet DEF Undominated
<1>6. Cardinality({}) >= 0
  BY FS_EmptySet
<1> HIDE DEF x
<1> QED
  BY <1>1, <1>3, <1>5, <1>6 DEF Sorted, x

LEMMA SortRoundSorted ==
    ASSUME NEW S, IsFiniteSet(S), NEW x \in Sorts(S), NEW r \in Nat, Sorted(S, x, r)
    PROVE  Sorted(S, SortRound(x), r + 1)
<1>1. CASE x.pending = {}
  BY <1>1, Zenon DEF SortRound, Sorted
<1>2. CASE x.pending # {}
  <2> DEFINE P == x.pending
             F == x.fronts
             k == Len(F)
             done == Upto(F, k)
             R == S \ done
             Dominators(t) == {u \in P : Dominates(u, t)}
             y == EmitFront(x)
             more == y.fronts
             R2 == S \ Upto(more, k + 1)
             Over(t) == {u \in R : Dominates(u, t)}
             Over2(t) == {u \in R2 : Dominates(u, t)}
  <2>1. F \in Seq(SUBSET S) /\ x.counts \in [S -> Int] /\ P \in SUBSET S
    BY DEF Sorts
  <2>2. /\ more = Append(F, P)
        /\ \A t \in S : y.counts[t] = x.counts[t] - Cardinality(Dominators(t))
        /\ y.pending = {t \in S : Dominators(t) # {} /\ y.counts[t] = 0}
    <3>1. DOMAIN x.counts = S
      BY <2>1
    <3> DEFINE lowered == [t \in S |-> x.counts[t] - Cardinality(Dominators(t))]
    <3>2. y = [fronts |-> Append(F, P), counts |-> lowered,
               pending |-> {t \in S : Dominators(t) # {} /\ lowered[t] = 0}]
      BY <3>1, Zenon DEF EmitFront
    <3>3. more = Append(F, P) /\ y.counts = lowered
          /\ y.pending = {t \in S : Dominators(t) # {} /\ lowered[t] = 0}
      <4> HIDE DEF y, lowered
      <4> QED
        BY <3>2
    <3> HIDE DEF y
    <3> QED
      BY <3>3
  <2>3. /\ k \in Nat /\ DOMAIN F = 1 .. k /\ Len(more) = k + 1 /\ DOMAIN more = 1 .. k + 1
        /\ \A i \in 1 .. k : more[i] = F[i]
        /\ more[k + 1] = P
        /\ \A i \in 0 .. k : Upto(more, i) = Upto(F, i)
        /\ Upto(more, k + 1) = done \union P
        /\ done \subseteq S
    <3> HIDE DEF F, P, y
    <3>1. Extended(S, F, P, Append(F, P))
      BY <2>1, UptoAppend
    <3>2. Extended(S, F, P, more)
      BY <2>2, <3>1, Zenon
    <3> QED
      BY <3>2, Zenon DEF Extended
  <2>4. /\ \A i \in 1 .. k : F[i] = Undominated(S \ Upto(F, i - 1)) /\ F[i] # {}
        /\ P = Undominated(R)
        /\ \A t \in S : x.counts[t] = Cardinality(Over(t))
        /\ \A t \in done, u \in R : ~Dominates(u, t)
        /\ Cardinality(done) >= r
    BY <1>2, <2>3, Zenon DEF Sorted, Rest
  <2>5. SortRound(x) = y
    BY <1>2 DEF SortRound
  <2>6. Rest(S, y.fronts) = R2 /\ Upto(more, Len(more)) = done \union P
    BY <2>3, Zenon DEF Rest
  <2> HIDE DEF y, more, F, k, done
  <2>7. R2 = R \ P /\ P \subseteq R
    BY <2>3, <2>4 DEF Undominated
  <2>8. ASSUME NEW i \in 1 .. k + 1
        PROVE  more[i] = Undominated(S \ Upto(more, i - 1)) /\ more[i] # {}
    <3>1. CASE i \in 1 .. k
      <4>1. i - 1 \in 0 .. k
        BY <2>3, <3>1
      <4> QED
        BY <2>3, <2>4, <3>1, <4>1, Zenon
    <3>2. CASE i = k + 1
      <4>1. i - 1 = k /\ k \in 0 .. k
        BY <2>3, <3>2
      <4>2. more[i] = P /\ Upto(more, i - 1) = done
        BY <2>3, <3>2, <4>1, Zenon DEF done
      <4> QED
        BY <1>2, <2>4, <4>2, Zenon
    <3> QED
      BY <2>3, <3>1, <3>2
  <2>9. ASSUME NEW t \in S PROVE y.counts[t] = Cardinality(Over2(t))
    <3>1. Over2(t) = Over(t) \ Dominators(t) /\ Dominators(t) \subseteq Over(t)
      BY <2>7
    <3>2. Over(t) \in SUBSET S
      OBVIOUS
    <3> HIDE DEF Over, Over2, Dominators
    <3>3. IsFiniteSet(Over(t))
      BY <3>2, FS_Subset
    <3>4. Cardinality(Over(t) \ Dominators(t))
            = Cardinality(Over(t)) - Cardinality(Over(t) \intersect Dominators(t))
      BY <3>3, FS_Difference
    <3>5. Over(t) \intersect Dominators(t) = Dominators(t)
      BY <3>1
    <3> QED
      BY <2>2, <2>4, <3>1, <3>4, <3>5
  <2>10. \A t \in S : y.counts[t] = 0 <=> Over2(t) = {}
    <3>1. \A t \in S : Over2(t) \in SUBSET S
      OBVIOUS
    <3> HIDE DEF Over2
    <3> QED
      BY <2>9, <3>1, FS_Subset, FS_EmptySet
  <2>11. y.pending = Undominated(R2)
    <3>1. ASSUME NEW t \in y.pending PROVE t \in Undominated(R2)
      <4>1. t \in S /\ Dominators(t) # {} /\ Over2(t) = {}
        BY <2>2, <2>10, <3>1
      <4>2. PICK u \in P : Dominates(u, t)
        BY <4>1
      <4>3. t \notin done
        BY <2>4, <2>7, <4>2
      <4>4. t \notin P
        BY <2>4, <2>7, <4>2 DEF Undominated
      <4> QED
        BY <2>7, <4>1, <4>3, <4>4 DEF Undominated
    <3>2. ASSUME NEW t \in Undominated(R2) PROVE t \in y.pending
      <4>1. t \in R /\ t \notin P /\ Over2(t) = {}
        BY <2>7 DEF Undominated
      <4>2. PICK u \in R : Dominates(u, t)
        BY <2>4, <4>1 DEF Undominated
      <4>3. u \in P
        BY <2>7, <4>1, <4>2
      <4> QED
        BY <2>2, <2>10, <4>1, <4>2, <4>3
    <3> QED
      BY <3>1, <3>2
  <2>12. \A t \in done \union P, u \in R2 : ~Dominates(u, t)
    BY <2>4, <2>7 DEF Undominated
  <2>13. Cardinality(done \union P) >= r + 1
    <3>1. PICK p \in P : TRUE
      BY <1>2
    <3>2. IsFiniteSet(done) /\ IsFiniteSet(done \union P) /\ done \union {p} \in SUBSET (done \union P)
      BY <2>1, <2>3, <3>1, FS_Subset
    <3>3. p \notin done
      BY <2>7, <3>1
    <3>4. Cardinality(done \union {p}) = Cardinality(done) + 1
      BY <3>2, <3>3, FS_AddElement
    <3>5. Cardinality(done \union {p}) <= Cardinality(done \union P)
      BY <3>2, FS_Subset
    <3>6. Cardinality(done) \in Nat /\ Cardinality(done \union P) \in Nat
      BY <3>2, FS_CardinalityType
    <3> QED
      BY <2>4, <3>4, <3>5, <3>6
  <2> HIDE DEF R2
  <2> QED
    BY <2>3, <2>5, <2>6, <2>8, <2>9, <2>11, <2>12, <2>13, Zenon DEF Sorted, more
<1> QED
  BY <1>1, <1>2

(***************************************************************************)
(* The fronts of non_dominated_sort() are those dominance defines, and no  *)
(* trial is left out.                                                      *)
(***************************************************************************)
Fronts(S, fronts) ==
    /\ fronts \in Seq(SUBSET S)
    /\ \A i \in DOMAIN fronts :
         fronts[i] = Undominated(S \ Upto(fronts, i - 1)) /\ fronts[i] # {}
    /\ Upto(fronts, Len(fronts)) = S

LEMMA SortIsExact ==
    ASSUME NEW n \in Nat, NEW S \in SUBSET Trial(n), IsFiniteSet(S)
    PROVE  Fronts(S, NonDominatedSort(S))
<1> DEFINE N == Cardinality(S)
<1>1. N \in Nat
  BY FS_CardinalityType
<1>2. PICK it \in [0 .. N -> Sorts(S)] :
         /\ it[0] = SortBegins(S)
         /\ \A r \in 1 .. N : it[r] = SortRound(it[r - 1])
         /\ NonDominatedSort(S) = it[N].fronts
  BY SortIs
<1> HIDE DEF N
<1> DEFINE Good == {r \in 0 .. N : Sorted(S, it[r], r)}
<1>3. 0 \in Good
  BY <1>1, <1>2, SortBeginsSorted
<1>4. ASSUME NEW r \in 1 .. N, r - 1 \in Good PROVE r \in Good
  <2>1. r - 1 \in Nat /\ r - 1 \in 0 .. N /\ r \in 0 .. N /\ (r - 1) + 1 = r
    BY <1>1
  <2>2. it[r - 1] \in Sorts(S) /\ Sorted(S, it[r - 1], r - 1)
    BY <1>4, <2>1
  <2>3. Sorted(S, SortRound(it[r - 1]), (r - 1) + 1)
    BY <2>1, <2>2, SortRoundSorted
  <2> QED
    BY <1>2, <2>1, <2>3
<1> HIDE DEF Good
<1>5. \A r \in 0 .. N : r \in Good
  BY <1>1, <1>3, <1>4, RoundsKeep
<1>6. Sorted(S, it[N], N) /\ it[N] \in Sorts(S)
  BY <1>1, <1>5 DEF Good
<1> DEFINE fronts == it[N].fronts
           all == Upto(fronts, Len(fronts))
<1>7. fronts \in Seq(SUBSET S)
  BY <1>6 DEF Sorts
<1>8. all \subseteq S
  BY <1>7, UptoAppend DEF Extended
<1>9. \/ Undominated(S \ all) = {}
      \/ Cardinality(all) >= N
  BY <1>6 DEF Sorted, Rest
<1>10. all = S
  <2>1. CASE Undominated(S \ all) = {}
    <3>1. IsFiniteSet(S \ all) /\ S \ all \in SUBSET Trial(n)
      BY FS_Subset
    <3> HIDE DEF all
    <3>2. S \ all = {}
      BY <2>1, <3>1, UndominatedExists
    <3> QED
      BY <1>8, <3>2
  <2>2. CASE Cardinality(all) >= N
    <3> HIDE DEF all
    <3>1. IsFiniteSet(all) /\ Cardinality(all) <= N /\ (N = Cardinality(all) => S = all)
      BY <1>8, FS_Subset DEF N
    <3>2. Cardinality(all) \in Nat
      BY <3>1, FS_CardinalityType
    <3> QED
      BY <1>1, <2>2, <3>1, <3>2
  <2> QED
    BY <1>9, <2>1, <2>2
<1>11. \A i \in DOMAIN fronts :
          fronts[i] = Undominated(S \ Upto(fronts, i - 1)) /\ fronts[i] # {}
  BY <1>6 DEF Sorted
<1> HIDE DEF fronts
<1> QED
  BY <1>2, <1>7, <1>10, <1>11, Zenon DEF Fronts, fronts
-----------------------------------------------------------------------------
(* Selection: the first k elements of a finite set in a strict total order.*)

StrictOrder(S, R) ==
    /\ \A s \in S : <<s, s>> \notin R
    /\ \A s, t, u \in S : <<s, t>> \in R /\ <<t, u>> \in R => <<s, u>> \in R
    /\ \A s, t \in S : s # t => <<s, t>> \in R \/ <<t, s>> \in R

\* How many elements are ahead of one.
Rank(S, R, t) == Cardinality({u \in S : <<u, t>> \in R})

LEMMA RankSelects ==
    ASSUME NEW S, IsFiniteSet(S), NEW R, StrictOrder(S, R),
           NEW k \in Nat, k <= Cardinality(S)
    PROVE  Cardinality({t \in S : Rank(S, R, t) < k}) = k
<1> DEFINE Ahead(t) == {u \in S : <<u, t>> \in R}
           N == Cardinality(S)
           rank == [t \in S |-> Rank(S, R, t)]
           top == {t \in S : Rank(S, R, t) < k}
           Up == 0 .. N - 1
           Low == 0 .. k - 1
           g == [t \in top |-> rank[t]]
<1>1. N \in Nat /\ IsFiniteSet(Up) /\ Cardinality(Up) = N
  <2>1. N \in Nat
    BY FS_CardinalityType
  <2> HIDE DEF N
  <2>2. 0 \in Int /\ N - 1 \in Int
    BY <2>1
  <2>3. IsFiniteSet(0 .. N - 1)
        /\ Cardinality(0 .. N - 1) = IF 0 > N - 1 THEN 0 ELSE (N - 1) - 0 + 1
    BY <2>2, FS_Interval
  <2> QED
    BY <2>1, <2>3
<1>2. \A t \in S : IsFiniteSet(Ahead(t)) /\ Cardinality(Ahead(t)) \in Nat /\ Ahead(t) \in SUBSET S
  <2>1. \A t \in S : Ahead(t) \in SUBSET S
    OBVIOUS
  <2> HIDE DEF Ahead
  <2> QED
    BY <2>1, FS_Subset, FS_CardinalityType
<1>3. ASSUME NEW t \in S PROVE Rank(S, R, t) = Cardinality(Ahead(t)) /\ Rank(S, R, t) \in Up
  <2>1. Rank(S, R, t) = Cardinality(Ahead(t))
    BY DEF Rank
  <2>2. t \notin Ahead(t)
    BY DEF StrictOrder
  <2>3. Cardinality(Ahead(t)) <= N /\ (N = Cardinality(Ahead(t)) => S = Ahead(t))
    BY <1>2, FS_Subset
  <2>4. N # Cardinality(Ahead(t))
    BY <2>2, <2>3
  <2>5. Cardinality(Ahead(t)) \in Nat
    BY <1>2
  <2> HIDE DEF N, Ahead
  <2> QED
    BY <1>1, <2>1, <2>3, <2>4, <2>5
<1>4. ASSUME NEW s \in S, NEW t \in S, <<s, t>> \in R PROVE Rank(S, R, s) < Rank(S, R, t)
  <2>1. Ahead(s) \subseteq Ahead(t) /\ s \in Ahead(t) /\ s \notin Ahead(s)
    BY <1>4 DEF StrictOrder
  <2> HIDE DEF Ahead
  <2>2. /\ Cardinality(Ahead(s)) <= Cardinality(Ahead(t))
        /\ Cardinality(Ahead(t)) = Cardinality(Ahead(s)) => Ahead(t) = Ahead(s)
    BY <1>2, <2>1, FS_Subset
  <2>3. Cardinality(Ahead(s)) # Cardinality(Ahead(t))
    BY <2>1, <2>2
  <2>4. Cardinality(Ahead(s)) \in Nat /\ Cardinality(Ahead(t)) \in Nat
    BY <1>2
  <2> QED
    BY <1>3, <2>2, <2>3, <2>4
<1> HIDE DEF N
<1>5. ASSUME NEW s \in S, NEW t \in S, s # t PROVE Rank(S, R, s) # Rank(S, R, t)
  <2>1. <<s, t>> \in R \/ <<t, s>> \in R
    BY <1>5 DEF StrictOrder
  <2>2. Rank(S, R, s) \in Nat /\ Rank(S, R, t) \in Nat
    BY <1>2, <1>3, Zenon
  <2> QED
    BY <1>4, <2>1, <2>2
<1>6. rank \in Injection(S, Up)
  <2>1. rank \in [S -> Up]
    BY <1>3
  <2>2. \A s, t \in S : rank[s] = rank[t] => s = t
    BY <1>5
  <2> HIDE DEF rank, Up
  <2> QED
    BY <2>1, <2>2 DEF Injection, IsInjective
<1>7. rank \in Surjection(S, Up)
  <2> HIDE DEF rank, Up
  <2> QED
    BY <1>1, <1>6, FS_Injection DEF N
<1>8. \A t \in S : rank[t] = Rank(S, R, t)
  OBVIOUS
<1>9. \A i \in Up : \E t \in S : rank[t] = i
  <2> HIDE DEF rank, Up
  <2> QED
    BY <1>7 DEF Surjection
<1>10. g \in Bijection(top, Low)
  <2>1. ASSUME NEW t \in top PROVE g[t] = Rank(S, R, t) /\ g[t] \in Low
    <3>1. t \in S /\ Rank(S, R, t) < k /\ Rank(S, R, t) \in Up
      BY <1>3
    <3>2. g[t] = Rank(S, R, t)
      BY <3>1
    <3> HIDE DEF g, top
    <3> QED
      BY <1>1, <3>1, <3>2
  <2>2. ASSUME NEW i \in Low PROVE \E t \in top : g[t] = i
    <3>1. i \in Up /\ i < k
      BY <1>1 DEF N
    <3>2. PICK t \in S : rank[t] = i
      BY <1>9, <3>1
    <3>3. t \in top
      BY <1>8, <3>1, <3>2
    <3> QED
      BY <3>2, <3>3
  <2>3. \A s, t \in top : s \in S /\ t \in S
    OBVIOUS
  <2>4. g = [t \in top |-> g[t]]
    OBVIOUS
  <2> HIDE DEF g, top, Low, rank, Up
  <2>5. g \in [top -> Low]
    BY <2>1, <2>4
  <2>6. \A s, t \in top : g[s] = g[t] => s = t
    BY <1>5, <2>1, <2>3
  <2> QED
    BY <2>2, <2>5, <2>6 DEF Bijection, Injection, Surjection, IsInjective
<1>11. IsFiniteSet(Low) /\ Cardinality(Low) = k
  <2>1. 0 \in Int /\ k - 1 \in Int
    OBVIOUS
  <2>2. IsFiniteSet(0 .. k - 1)
        /\ Cardinality(0 .. k - 1) = IF 0 > k - 1 THEN 0 ELSE (k - 1) - 0 + 1
    BY <2>1, FS_Interval
  <2> QED
    BY <2>2
<1>12. IsFiniteSet(top)
  <2>1. top \in SUBSET S
    OBVIOUS
  <2> HIDE DEF top
  <2> QED
    BY <2>1, FS_Subset
<1> HIDE DEF g, Low
<1>13. Cardinality(top) = Cardinality(Low)
  <2> HIDE DEF top
  <2>1. ExistsBijection(top, Low)
    BY <1>10 DEF ExistsBijection
  <2> QED
    BY <1>12, <2>1, FS_Bijection
<1> QED
  BY <1>11, <1>13

\* Finitely many integers have a least and a greatest one.
LEMMA Extremes ==
    ASSUME NEW S \in SUBSET Int, IsFiniteSet(S), S # {}
    PROVE  Min(S) \in S /\ Max(S) \in S /\ \A x \in S : Min(S) <= x /\ x <= Max(S)
<1> DEFINE Up == {p \in S \X S : p[1] < p[2]}
           Down == {p \in S \X S : p[1] > p[2]}
<1>1. \A s, t \in S : /\ <<s, t>> \in Up <=> s < t
                      /\ <<s, t>> \in Down <=> s > t
  OBVIOUS
<1>2. \A s \in S : s \in Int
  OBVIOUS
<1> HIDE DEF Up, Down
<1>3. StrictOrder(S, Up)
  BY <1>1, <1>2 DEF StrictOrder
<1>4. StrictOrder(S, Down)
  BY <1>1, <1>2 DEF StrictOrder
<1>5. Cardinality(S) \in Nat /\ 1 <= Cardinality(S)
  <2>1. Cardinality(S) \in Nat /\ Cardinality(S) # 0
    BY FS_CardinalityType, FS_EmptySet
  <2> QED
    BY <2>1
<1>6. ASSUME NEW R, StrictOrder(S, R)
      PROVE  \E t \in S : \A u \in S : u = t \/ <<t, u>> \in R
  <2> DEFINE first == {t \in S : Rank(S, R, t) < 1}
  <2>1. Cardinality(first) = 1
    BY <1>5, <1>6, RankSelects
  <2>2. first # {}
    <3> HIDE DEF first
    <3> QED
      BY <2>1, FS_EmptySet
  <2>3. PICK t \in S : Rank(S, R, t) < 1
    BY <2>2
  <2> DEFINE ahead == {u \in S : <<u, t>> \in R}
  <2>4. IsFiniteSet(ahead)
    BY FS_Subset
  <2>5. Cardinality(ahead) \in Nat /\ Cardinality(ahead) < 1
    BY <2>3, <2>4, FS_CardinalityType DEF Rank
  <2>6. Cardinality(ahead) = 0
    BY <2>5
  <2>7. ahead = {}
    <3> HIDE DEF ahead
    <3> QED
      BY <2>4, <2>6, FS_EmptySet
  <2>8. \A u \in S : u = t \/ <<t, u>> \in R
    BY <1>6, <2>7 DEF StrictOrder
  <2> QED
    BY <2>8
<1>7. \E x \in S : \A y \in S : x <= y
  <2>1. PICK t \in S : \A u \in S : u = t \/ <<t, u>> \in Up
    BY <1>3, <1>6
  <2>2. ASSUME NEW u \in S PROVE t <= u
    <3>1. t \in Int /\ u \in Int
      BY <1>2
    <3>2. u = t \/ <<t, u>> \in Up
      BY <2>1
    <3> QED
      BY <1>1, <3>1, <3>2
  <2> QED
    BY <2>2
<1>8. \E x \in S : \A y \in S : x >= y
  <2>1. PICK t \in S : \A u \in S : u = t \/ <<t, u>> \in Down
    BY <1>4, <1>6
  <2>2. ASSUME NEW u \in S PROVE t >= u
    <3>1. t \in Int /\ u \in Int
      BY <1>2
    <3>2. u = t \/ <<t, u>> \in Down
      BY <2>1
    <3> QED
      BY <1>1, <3>1, <3>2
  <2> QED
    BY <2>2
<1>9. Min(S) \in S /\ \A y \in S : Min(S) <= y
  BY <1>7 DEF Min
<1>10. Max(S) \in S /\ \A y \in S : Max(S) >= y
  BY <1>8 DEF Max
<1> QED
  BY <1>2, <1>9, <1>10

\* The values of a function on a finite set are finitely many.
LEMMA ImageIsFinite ==
    ASSUME NEW G, IsFiniteSet(G), NEW f
    PROVE  IsFiniteSet({f[t] : t \in G})
<1> DEFINE image == {f[t] : t \in G}
           g == [t \in G |-> f[t]]
<1>1. g \in Surjection(G, image)
  <2>1. g \in [G -> image]
    OBVIOUS
  <2>2. \A v \in image : \E t \in G : g[t] = v
    OBVIOUS
  <2> HIDE DEF g, image
  <2> QED
    BY <2>1, <2>2 DEF Surjection
<1> HIDE DEF g, image
<1>2. IsFiniteSet(image)
  BY <1>1, FS_Surjection
<1> QED
  BY <1>2 DEF image

Values(G, d) == {t.vector[d] : t \in G}

\* So a component of the vectors of some trials has a least and a greatest value.
LEMMA ComponentExtremes ==
    ASSUME NEW F, IsFiniteSet(F), NEW G \in SUBSET F, G # {}, NEW d,
           \A t \in F : t.vector[d] \in Int
    PROVE  Min(Values(G, d)) \in Int /\ Max(Values(G, d)) \in Int
<1> DEFINE f == [t \in F |-> t.vector[d]]
           values == {t.vector[d] : t \in G}
<1>1. IsFiniteSet({f[t] : t \in G})
  <2> HIDE DEF f
  <2>1. IsFiniteSet(G)
    BY FS_Subset
  <2> QED
    BY <2>1, ImageIsFinite
<1>2. {f[t] : t \in G} = values
  OBVIOUS
<1>3. values \in SUBSET Int /\ values # {}
  OBVIOUS
<1> HIDE DEF values
<1>4. Min(values) \in values /\ Max(values) \in values
  BY <1>1, <1>2, <1>3, Extremes
<1>5. Min(values) \in Int /\ Max(values) \in Int
  BY <1>3, <1>4
<1> QED
  BY <1>5 DEF values, Values

(***************************************************************************)
(* The distance of each trial of a front is an integer: it is infinite, or *)
(* every gap lies between two neighbours and is divided by a span.         *)
(***************************************************************************)
LEMMA DistancesAreIntegers ==
    ASSUME NEW F, IsFiniteSet(F), F # {}, NEW m \in Nat,
           \A t \in F : t.vector \in [1 .. m -> Int]
    PROVE  /\ DOMAIN CrowdingDistance(F) = F
           /\ \A t \in F : CrowdingDistance(F)[t] \in Int
<1> DEFINE dims == 1 .. Max({Len(t.vector) : t \in F})
           Column(d) == {t.vector[d] : t \in F}
           Span(d) == Max(Column(d)) - Min(Column(d))
           spanning == {d \in dims : Span(d) > 0}
           spans == [d \in spanning |-> Span(d)]
           scale == ProductOf(spans)
           Precedes(u, t, d) == Lexicographic(<<u.vector[d], u.id>>, <<t.vector[d], t.id>>)
           Earlier(t, d) == {u.vector[d] : u \in {v \in F : Precedes(v, t, d)}}
           Later(t, d) == {u.vector[d] : u \in {v \in F : Precedes(t, v, d)}}
           Gap(t, d) == (Min(Later(t, d)) - Max(Earlier(t, d))) * (scale \div Span(d))
           Distance(t) ==
              IF Cardinality(F) <= 2
              THEN IF spanning # {} THEN Infinite ELSE 0
              ELSE IF \E d \in spanning : Earlier(t, d) = {} \/ Later(t, d) = {}
              THEN Infinite
              ELSE SumFunction([d \in spanning |-> Gap(t, d)])
<1>1. CrowdingDistance(F) = [t \in F |-> Distance(t)]
  BY Zenon DEF CrowdingDistance
<1>2. dims = 1 .. m
  <2>1. \A t \in F : Len(t.vector) = m
    OBVIOUS
  <2>2. {Len(t.vector) : t \in F} = {m}
    BY <2>1
  <2>3. IsFiniteSet({m}) /\ {m} \in SUBSET Int /\ {m} # {}
    <3>1. IsFiniteSet({m})
      BY FS_Singleton, Zenon
    <3> QED
      BY <3>1
  <2>4. Max({m}) \in {m}
    BY <2>3, Extremes
  <2> QED
    BY <2>2, <2>4
<1>3. \A d \in dims : \A t \in F : t.vector[d] \in Int
  BY <1>2
<1>4. \A d \in dims : Min(Column(d)) \in Int /\ Max(Column(d)) \in Int
  <2> SUFFICES ASSUME NEW d \in dims PROVE Min(Column(d)) \in Int /\ Max(Column(d)) \in Int
    OBVIOUS
  <2>1. F \in SUBSET F /\ \A t \in F : t.vector[d] \in Int
    BY <1>3
  <2>2. Column(d) = Values(F, d)
    BY Zenon DEF Values
  <2> HIDE DEF dims, Column
  <2>3. Min(Values(F, d)) \in Int /\ Max(Values(F, d)) \in Int
    BY <2>1, ComponentExtremes
  <2> QED
    BY <2>2, <2>3
<1>5. IsFiniteSet(spanning) /\ \A d \in spanning : d \in dims /\ Span(d) \in Nat /\ Span(d) > 0
  <2>1. IsFiniteSet(dims)
    BY <1>2, FS_Interval
  <2> HIDE DEF dims, Column
  <2>2. \A d \in dims : Span(d) \in Int
    BY <1>4
  <2>3. spanning \in SUBSET dims
    OBVIOUS
  <2>4. IsFiniteSet(spanning)
    BY <2>1, <2>3, FS_Subset
  <2>5. \A d \in spanning : d \in dims /\ Span(d) > 0
    OBVIOUS
  <2> HIDE DEF Span, spanning
  <2> QED
    BY <2>2, <2>4, <2>5
<1> HIDE DEF dims, Column, Span, spanning
<1>6. scale \in Int
  <2>1. spans \in [spanning -> Int]
    BY <1>5
  <2> HIDE DEF spans
  <2> QED
    BY <1>5, <2>1, ProductIsInteger
<1>7. ASSUME NEW t \in F, NEW d \in spanning, Earlier(t, d) # {}, Later(t, d) # {}
      PROVE  Gap(t, d) \in Int
  <2> DEFINE A == {v \in F : Precedes(v, t, d)}
             B == {v \in F : Precedes(t, v, d)}
  <2>1. A \in SUBSET F /\ B \in SUBSET F /\ A # {} /\ B # {}
    BY <1>7
  <2>2. \A v \in F : v.vector[d] \in Int
    BY <1>3, <1>5
  <2>3. Earlier(t, d) = Values(A, d) /\ Later(t, d) = Values(B, d)
    BY Zenon DEF Values
  <2> HIDE DEF A, B, Precedes, Earlier, Later, scale
  <2>4. Max(Earlier(t, d)) \in Int /\ Min(Later(t, d)) \in Int
    <3>1. Max(Values(A, d)) \in Int
      BY <2>1, <2>2, ComponentExtremes
    <3>2. Min(Values(B, d)) \in Int
      BY <2>1, <2>2, ComponentExtremes
    <3> QED
      BY <2>3, <3>1, <3>2
  <2>5. scale \div Span(d) \in Int
    BY <1>5, <1>6
  <2> QED
    BY <2>4, <2>5
<1> HIDE DEF Gap, Earlier, Later, scale
<1>8. ASSUME NEW t \in F PROVE Distance(t) \in Int
  <2>1. CASE \E d \in spanning : Earlier(t, d) = {} \/ Later(t, d) = {}
    BY <2>1 DEF Infinite
  <2>2. CASE ~\E d \in spanning : Earlier(t, d) = {} \/ Later(t, d) = {}
    <3> DEFINE gaps == [d \in spanning |-> Gap(t, d)]
    <3>1. gaps \in [spanning -> Int]
      BY <1>7, <2>2
    <3> HIDE DEF gaps
    <3>2. SumFunction(gaps) \in Int
      BY <1>5, <3>1, SumIsMonotone
    <3> QED
      BY <2>2, <3>2 DEF Infinite, gaps
  <2> QED
    BY <2>1, <2>2
<1> HIDE DEF Distance
<1> QED
  BY <1>1, <1>8
-----------------------------------------------------------------------------
(* Selection from the fronts.                                              *)

\* Trials of one kind, failed or not: so are those of a front.
Uniform(n, F) == F \subseteq Successful(n) \/ F \subseteq Unsuccessful

LEMMA FrontIsUniform ==
    ASSUME NEW n \in Nat, NEW R \in SUBSET Trial(n)
    PROVE  Uniform(n, Undominated(R))
<1> SUFFICES ASSUME NEW x \in Undominated(R), NEW y \in Undominated(R),
                    x \in Successful(n), y \in Unsuccessful
             PROVE  FALSE
  BY DEF Undominated, Uniform, Trial
<1>1. x.status = "success" /\ y.status = "failed"
  BY DEF Successful, Unsuccessful
<1>2. Dominates(x, y)
  BY <1>1, Zenon DEF Dominates
<1> QED
  BY <1>2 DEF Undominated

LEMMA UniformVectors ==
    ASSUME NEW n \in Nat, NEW F, Uniform(n, F)
    PROVE  \E m \in Nat : \A t \in F : t.vector \in [1 .. m -> Int]
<1>1. CASE F \subseteq Successful(n)
  BY <1>1 DEF Successful
<1>2. CASE F \subseteq Unsuccessful
  <2>1. \A t \in F : t.vector = <<>>
    BY <1>2 DEF Unsuccessful
  <2>2. <<>> \in [1 .. 0 -> Int]
    OBVIOUS
  <2> QED
    BY <2>1, <2>2
<1> QED
  BY <1>1, <1>2 DEF Uniform

\* A sequence with one more number in front.
LEMMA LongerKeys ==
    ASSUME NEW a \in Seq(Int), NEW b \in Seq(Int), NEW x \in Int, NEW y \in Int,
           x # y \/ Lexicographic(a, b) \/ Lexicographic(b, a)
    PROVE  \/ Lexicographic(<<x>> \o a, <<y>> \o b)
           \/ Lexicographic(<<y>> \o b, <<x>> \o a)
<1> DEFINE c == <<x>> \o a
           d == <<y>> \o b
<1>1. <<x>> \in Seq(Int) /\ Len(<<x>>) = 1 /\ <<x>>[1] = x
  OBVIOUS
<1>2. <<y>> \in Seq(Int) /\ Len(<<y>>) = 1 /\ <<y>>[1] = y
  OBVIOUS
<1>3. Joins(c, <<x>>, a) /\ Joins(d, <<y>>, b)
  BY <1>1, <1>2, ConcatenationParts
<1>4. /\ c \in Seq(Int) /\ Len(c) = 1 + Len(a) /\ c[1] = x
      /\ \A i \in 1 .. Len(a) : c[1 + i] = a[i]
  BY <1>1, <1>3 DEF Joins
<1>5. /\ d \in Seq(Int) /\ Len(d) = 1 + Len(b) /\ d[1] = y
      /\ \A i \in 1 .. Len(b) : d[1 + i] = b[i]
  BY <1>2, <1>3 DEF Joins
<1> HIDE DEF c, d
<1>6. Len(a) \in Nat /\ Len(b) \in Nat
  OBVIOUS
<1>7. DOMAIN c = 1 .. 1 + Len(a) /\ DOMAIN d = 1 .. 1 + Len(b)
  BY <1>4, <1>5
<1>8. \E i \in DOMAIN c \intersect DOMAIN d : c[i] # d[i]
  <2>1. CASE x # y
    <3>1. 1 \in DOMAIN c \intersect DOMAIN d
      BY <1>6, <1>7
    <3> QED
      BY <1>4, <1>5, <2>1, <3>1
  <2>2. CASE Lexicographic(a, b) \/ Lexicographic(b, a)
    <3>1. PICK i \in DOMAIN a \intersect DOMAIN b : a[i] < b[i] \/ b[i] < a[i]
      BY <2>2 DEF Lexicographic
    <3>2. i \in 1 .. Len(a) /\ i \in 1 .. Len(b) /\ a[i] \in Int /\ b[i] \in Int
      OBVIOUS
    <3>3. 1 + i \in DOMAIN c \intersect DOMAIN d
      BY <1>6, <1>7, <3>2
    <3>4. c[1 + i] = a[i] /\ d[1 + i] = b[i]
      BY <1>4, <1>5, <3>2
    <3>5. a[i] # b[i]
      BY <3>1, <3>2
    <3> QED
      BY <3>3, <3>4, <3>5
  <2> QED
    BY <2>1, <2>2
<1>9. Lexicographic(c, d) \/ Lexicographic(d, c)
  BY <1>4, <1>5, <1>8, LexicographicTotal
<1> QED
  BY <1>9 DEF c, d

(***************************************************************************)
(* Of a front that does not fit exactly the room there is for it is taken: *)
(* the less crowded and then the preferred trials come first, and the two  *)
(* make a strict total order.                                              *)
(***************************************************************************)
LEMMA TruncatedIsExact ==
    ASSUME NEW n \in Nat, NEW F \in SUBSET Trial(n), IsFiniteSet(F), Uniform(n, F),
           \A s \in F, t \in F : s.id = t.id => s = t,
           NEW room \in Nat, room <= Cardinality(F)
    PROVE  /\ Truncated(F, room) \subseteq F
           /\ Cardinality(Truncated(F, room)) = room
<1> DEFINE distances == CrowdingDistance(F)
           Key(t) == <<-distances[t]>> \o PreferenceKey(t)
           Ahead(u, t) == Lexicographic(Key(u), Key(t))
           R == {p \in F \X F : Ahead(p[1], p[2])}
<1>1. \A t \in F : distances[t] \in Int
  <2>1. CASE F = {}
    BY <2>1
  <2>2. CASE F # {}
    BY <2>2, UniformVectors, DistancesAreIntegers
  <2> QED
    BY <2>1, <2>2
<1> HIDE DEF distances
<1>2. ASSUME NEW t \in F
      PROVE  -distances[t] \in Int /\ PreferenceKey(t) \in Seq(Int) /\ Key(t) \in Seq(Int)
  <2>1. distances[t] \in Int /\ PreferenceKey(t) \in Seq(Int)
    BY <1>1, KeyKind
  <2> HIDE DEF Key
  <2>2. -distances[t] \in Int /\ <<-distances[t]>> \in Seq(Int)
    BY <2>1
  <2>3. Key(t) \in Seq(Int)
    BY <2>1, <2>2 DEF Key
  <2> QED
    BY <2>1, <2>2, <2>3
<1>3. ASSUME NEW s \in F, NEW t \in F, s # t
      PROVE  Ahead(s, t) \/ Ahead(t, s)
  <2>1. s.id # t.id
    BY <1>3
  <2>2. \/ Lexicographic(PreferenceKey(s), PreferenceKey(t))
        \/ Lexicographic(PreferenceKey(t), PreferenceKey(s))
    BY <2>1, IdentityDecides
  <2> QED
    BY <1>2, <2>2, LongerKeys
<1>4. \A t \in F : ~Ahead(t, t)
  <2> HIDE DEF Key
  <2> QED
    BY <1>2, LexicographicIrreflexive
<1>5. ASSUME NEW s \in F, NEW t \in F, NEW u \in F, Ahead(s, t), Ahead(t, u)
      PROVE  Ahead(s, u)
  <2> HIDE DEF Key
  <2> QED
    BY <1>2, <1>5, LexicographicTransitive
<1> HIDE DEF Key
<1>6. \A s \in F, t \in F : <<s, t>> \in R <=> Ahead(s, t)
  <2> HIDE DEF Ahead
  <2> QED
    OBVIOUS
<1> HIDE DEF R, Ahead
<1>7. StrictOrder(F, R)
  BY <1>3, <1>4, <1>5, <1>6 DEF StrictOrder
<1>8. Cardinality({t \in F : Rank(F, R, t) < room}) = room
  BY <1>7, RankSelects
<1>9. \A t \in F : Rank(F, R, t) = Cardinality({u \in F : Ahead(u, t)})
  <2> SUFFICES ASSUME NEW t \in F
               PROVE  {u \in F : <<u, t>> \in R} = {u \in F : Ahead(u, t)}
    BY DEF Rank
  <2> QED
    BY <1>6
<1>10. Truncated(F, room) = {t \in F : Cardinality({u \in F : Ahead(u, t)}) < room}
  BY Zenon DEF Truncated, Ahead, Key, distances
<1>11. Truncated(F, room) = {t \in F : Rank(F, R, t) < room}
  BY <1>9, <1>10
<1> QED
  BY <1>8, <1>11


\* The first i fronts and the next one.
LEMMA UptoParts ==
    ASSUME NEW S, NEW fronts, Fronts(S, fronts)
    PROVE  /\ Len(fronts) \in Nat /\ DOMAIN fronts = 1 .. Len(fronts)
           /\ Upto(fronts, 0) = {}
           /\ \A i \in 0 .. Len(fronts) : Upto(fronts, i) \subseteq S
           /\ \A i \in 1 .. Len(fronts) :
                /\ fronts[i] \subseteq S \ Upto(fronts, i - 1)
                /\ Upto(fronts, i) = Upto(fronts, i - 1) \union fronts[i]
           /\ \A i, j \in 0 .. Len(fronts) : i <= j => Upto(fronts, i) \subseteq Upto(fronts, j)
           /\ \A i, j \in 1 .. Len(fronts) : i <= j => fronts[i] \subseteq Upto(fronts, j)
<1>1. Len(fronts) \in Nat /\ DOMAIN fronts = 1 .. Len(fronts)
  BY DEF Fronts
<1>2. \A i \in 1 .. Len(fronts) : fronts[i] \subseteq S
  BY <1>1 DEF Fronts
<1>3. ASSUME NEW i \in 1 .. Len(fronts)
      PROVE  Upto(fronts, i) = Upto(fronts, i - 1) \union fronts[i]
  <2>1. 1 .. i = 1 .. i - 1 \union {i}
    BY <1>1
  <2> QED
    BY <2>1 DEF Upto
<1>4. \A i \in 1 .. Len(fronts) : fronts[i] \subseteq S \ Upto(fronts, i - 1)
  BY <1>1 DEF Fronts, Undominated
<1>5. Upto(fronts, 0) = {}
  BY DEF Upto
<1>6. \A i \in 0 .. Len(fronts) : Upto(fronts, i) \subseteq S
  BY <1>1, <1>2 DEF Upto
<1>7. \A i, j \in 0 .. Len(fronts) : i <= j => Upto(fronts, i) \subseteq Upto(fronts, j)
  BY <1>1 DEF Upto
<1>8. \A i, j \in 1 .. Len(fronts) : i <= j => fronts[i] \subseteq Upto(fronts, j)
  BY <1>1 DEF Upto
<1> QED
  BY <1>1, <1>3, <1>4, <1>5, <1>6, <1>7, <1>8

\* A round of the loop of select_population().
Filling(room, P, front) ==
    LET remaining == room - Cardinality(P)
    IN  P \union
           (CASE remaining <= 0 -> {}
              [] remaining > 0 /\ Cardinality(front) <= remaining -> front
              [] OTHER -> Truncated(front, remaining))

\* What was selected from the first i fronts: all of them, or a part of one.
Picked(fronts, room, i, P) ==
    /\ P \subseteq Upto(fronts, i)
    /\ \/ P = Upto(fronts, i) /\ Cardinality(P) <= room
       \/ /\ Cardinality(P) = room
          /\ \E k \in 1 .. i : Upto(fronts, k - 1) \subseteq P /\ P \subseteq Upto(fronts, k)

LEMMA FillingPicks ==
    ASSUME NEW n \in Nat, NEW S \in SUBSET Trial(n), IsFiniteSet(S),
           \A s \in S, t \in S : s.id = t.id => s = t,
           NEW fronts, Fronts(S, fronts), NEW room \in Nat,
           NEW i \in 1 .. Len(fronts), NEW P, Picked(fronts, room, i - 1, P)
    PROVE  Picked(fronts, room, i, Filling(room, P, fronts[i]))
<1> DEFINE front == fronts[i]
           before == Upto(fronts, i - 1)
           after == Upto(fronts, i)
           remaining == room - Cardinality(P)
           Q == Filling(room, P, front)
<1>1. Len(fronts) \in Nat /\ i \in Nat /\ i - 1 \in 0 .. Len(fronts) /\ i \in 1 .. i
  BY UptoParts
<1>2. /\ front \subseteq S \ before /\ after = before \union front
      /\ before \subseteq S
  BY <1>1, UptoParts
<1>3. front = Undominated(S \ before)
  BY UptoParts DEF Fronts
<1>4. Uniform(n, front)
  BY <1>3, FrontIsUniform
<1>5. IsFiniteSet(front) /\ front \in SUBSET Trial(n) /\ P \subseteq before /\ IsFiniteSet(P)
  BY <1>2, FS_Subset DEF Picked
<1>6. Cardinality(front) \in Nat /\ Cardinality(P) \in Nat
  BY <1>5, FS_CardinalityType
<1>7. Q = P \union (CASE remaining <= 0 -> {}
                      [] remaining > 0 /\ Cardinality(front) <= remaining -> front
                      [] OTHER -> Truncated(front, remaining))
  BY Zenon DEF Filling
<1>8. \/ P = before /\ Cardinality(P) <= room
      \/ /\ Cardinality(P) = room
         /\ \E k \in 1 .. i - 1 : Upto(fronts, k - 1) \subseteq P /\ P \subseteq Upto(fronts, k)
  BY DEF Picked
<1>9. ASSUME NEW T, T \subseteq front
      PROVE  /\ P \union T \subseteq after
             /\ Cardinality(P \union T) = Cardinality(P) + Cardinality(T)
  <2>1. IsFiniteSet(T) /\ P \intersect T = {}
    BY <1>2, <1>5, <1>9, FS_Subset
  <2>2. Cardinality(P \intersect T) = 0
    BY <2>1, FS_EmptySet
  <2>3. Cardinality(P \union T) = Cardinality(P) + Cardinality(T) - Cardinality(P \intersect T)
    BY <1>5, <2>1, FS_Union
  <2>4. Cardinality(T) \in Nat
    BY <2>1, FS_CardinalityType
  <2> QED
    BY <1>2, <1>5, <1>6, <1>9, <2>2, <2>3, <2>4
<1> HIDE DEF front, before, after, remaining, Q
<1>10. \A T : T = Filling(room, P, fronts[i]) <=> T = Q
  BY DEF Q, front
<1> SUFFICES Picked(fronts, room, i, Q)
  BY <1>10
<1>11. remaining \in Int
  BY <1>6 DEF remaining
<1>12. CASE remaining <= 0
  <2>1. Q = P
    <3>1. ~(remaining > 0)
      BY <1>11, <1>12
    <3> QED
      BY <1>7, <1>12, <3>1
  <2>2. Cardinality(P) = room
    BY <1>6, <1>8, <1>12 DEF remaining
  <2>3. \E k \in 1 .. i : Upto(fronts, k - 1) \subseteq P /\ P \subseteq Upto(fronts, k)
    <3>1. CASE P = before
      BY <1>1, <1>2, <3>1 DEF before, after
    <3>2. CASE \E k \in 1 .. i - 1 : Upto(fronts, k - 1) \subseteq P /\ P \subseteq Upto(fronts, k)
      <4>1. 1 .. i - 1 \subseteq 1 .. i
        BY <1>1
      <4> QED
        BY <3>2, <4>1
    <3> QED
      BY <1>8, <3>1, <3>2
  <2>4. P \subseteq Upto(fronts, i)
    BY <1>2, <1>5 DEF after
  <2> QED
    BY <2>1, <2>2, <2>3, <2>4 DEF Picked
<1>13. CASE remaining > 0
  <2>1. P = before
    BY <1>6, <1>8, <1>13 DEF remaining
  <2>2. ~(remaining <= 0)
    BY <1>11, <1>13
  <2>3. CASE Cardinality(front) <= remaining
    <3>1. Q = P \union front
      BY <1>7, <1>13, <2>2, <2>3
    <3>2. Q = after
      BY <1>2, <2>1, <3>1
    <3>3. Cardinality(Q) = Cardinality(P) + Cardinality(front)
      BY <1>9, <3>1
    <3>4. Cardinality(Q) <= room
      BY <1>6, <2>3, <3>3 DEF remaining
    <3> QED
      BY <3>2, <3>4 DEF Picked, after
  <2>4. CASE ~(Cardinality(front) <= remaining)
    <3> DEFINE T == Truncated(front, remaining)
    <3>1. Q = P \union T
      BY <1>7, <2>2, <2>4
    <3>2. remaining \in Nat /\ remaining <= Cardinality(front)
      BY <1>6, <1>11, <1>13, <2>4
    <3>3. T \subseteq front /\ Cardinality(T) = remaining
      <4>1. \A s \in front, t \in front : s.id = t.id => s = t
        BY <1>2
      <4> QED
        BY <1>4, <1>5, <3>2, <4>1, TruncatedIsExact
    <3> HIDE DEF T
    <3>4. Q \subseteq after /\ Cardinality(Q) = Cardinality(P) + Cardinality(T)
      BY <1>9, <3>1, <3>3
    <3>5. Cardinality(Q) = room
      BY <1>6, <3>3, <3>4 DEF remaining
    <3>6. Upto(fronts, i - 1) \subseteq Q
      BY <2>1, <3>1 DEF before
    <3> QED
      BY <1>1, <3>4, <3>5, <3>6 DEF Picked, after
  <2> QED
    BY <2>3, <2>4
<1> QED
  BY <1>6, <1>11, <1>12, <1>13

(***************************************************************************)
(* A population has as many trials as were asked for, or all there are,    *)
(* and has whole fronts but for the last one it takes from.                *)
(***************************************************************************)
Populates(S, fronts, room, P) ==
    /\ P \subseteq S
    /\ \/ P = S /\ Cardinality(S) <= room
       \/ Cardinality(P) = room
    /\ \A i, j \in DOMAIN fronts : i < j /\ fronts[j] \cap P # {} => fronts[i] \subseteq P

LEMMA FilledIsExact ==
    ASSUME NEW n \in Nat, NEW S \in SUBSET Trial(n), IsFiniteSet(S),
           \A s \in S, t \in S : s.id = t.id => s = t,
           NEW fronts, Fronts(S, fronts), NEW room \in Nat
    PROVE  Populates(S, fronts, room, Filled(fronts, room))
<1> DEFINE N == Len(fronts)
           Loop(it) == it = [i \in 0 .. N |->
                IF i = 0 THEN {}
                ELSE LET remaining == room - Cardinality(it[i - 1])
                     IN  it[i - 1] \union
                           (CASE remaining <= 0 -> {}
                              [] remaining > 0 /\ Cardinality(fronts[i]) <= remaining -> fronts[i]
                              [] OTHER -> Truncated(fronts[i], remaining))]
           it == CHOOSE it : Loop(it)
<1>1. N \in Nat /\ DOMAIN fronts = 1 .. N
  BY UptoParts
<1>2. Filled(fronts, room) = it[N]
  BY Zenon DEF Filled
<1>3. \A f : Loop(f) <=> f = [i \in 0 .. N |-> IF i = 0 THEN {}
                                               ELSE Filling(room, f[i - 1], fronts[i])]
  BY Zenon DEF Filling
<1>4. \E f : Loop(f)
  <2> DEFINE G == [p \in (1 .. N) \X SUBSET S |-> Filling(room, p[2], fronts[p[1]])]
  <2>1. PICK f : Rounds(f, N, {}, G)
    BY <1>1, RoundsExist
  <2>2. f[0] = {} /\ \A r \in 1 .. N : f[r] = G[<<r, f[r - 1]>>]
    BY <1>1, <2>1, RoundsAre, SMTT(30)
  <2> DEFINE Good == {r \in 0 .. N : Picked(fronts, room, r, f[r])}
  <2>3. \A r \in 1 .. N : r \in Nat /\ r - 1 \in 0 .. N /\ r \in 0 .. N
    BY <1>1
  <2>4. ASSUME NEW r \in 1 .. N, r - 1 \in Good
        PROVE  f[r] = Filling(room, f[r - 1], fronts[r])
    <3>1. f[r - 1] \subseteq Upto(fronts, r - 1)
      BY <2>4 DEF Picked
    <3>2. f[r - 1] \in SUBSET S
      BY <2>3, <3>1, UptoParts
    <3> QED
      BY <2>2, <3>2
  <2>5. 0 \in Good
    <3>1. Upto(fronts, 0) = {} /\ 0 \in 0 .. N
      BY <1>1, UptoParts
    <3>2. Cardinality({}) = 0 /\ 0 <= room
      BY FS_EmptySet
    <3>3. Picked(fronts, room, 0, {})
      BY <3>1, <3>2, Zenon DEF Picked
    <3> QED
      BY <2>2, <3>1, <3>3
  <2>6. ASSUME NEW r \in 1 .. N, r - 1 \in Good PROVE r \in Good
    <3>1. f[r] = Filling(room, f[r - 1], fronts[r])
      BY <2>4, <2>6
    <3>2. Picked(fronts, room, r - 1, f[r - 1])
      BY <2>6
    <3>3. Picked(fronts, room, r, Filling(room, f[r - 1], fronts[r]))
      BY <3>2, FillingPicks
    <3> QED
      BY <2>3, <3>1, <3>3
  <2> HIDE DEF Good, G, N
  <2>7. \A r \in 0 .. N : r \in Good
    BY <1>1, <2>5, <2>6, RoundsKeep
  <2>8. f = [r \in 0 .. N |-> f[r]]
    BY <2>1 DEF Rounds
  <2>9. ASSUME NEW r \in 0 .. N
        PROVE  f[r] = IF r = 0 THEN {} ELSE Filling(room, f[r - 1], fronts[r])
    <3>1. CASE r = 0
      BY <2>2, <3>1
    <3>2. CASE r # 0
      <4>1. r \in 1 .. N
        BY <1>1, <3>2
      <4> QED
        BY <2>3, <2>4, <2>7, <3>2, <4>1
    <3> QED
      BY <3>1, <3>2
  <2>10. f = [i \in 0 .. N |-> IF i = 0 THEN {} ELSE Filling(room, f[i - 1], fronts[i])]
    <3> DEFINE X == [r \in 0 .. N |-> f[r]]
               Y == [i \in 0 .. N |-> IF i = 0 THEN {} ELSE Filling(room, f[i - 1], fronts[i])]
    <3>1. X = Y
      BY <2>9, Zenon
    <3> QED
      BY <2>8, <3>1, Zenon
  <2> QED
    BY <1>3, <2>10, ZenonT(60)
<1> HIDE DEF Loop
<1>5. Loop(it)
  BY <1>4, Zenon
<1> HIDE DEF it
<1>6. it = [i \in 0 .. N |-> IF i = 0 THEN {} ELSE Filling(room, it[i - 1], fronts[i])]
  BY <1>3, <1>5, Zenon
<1>7. \A r \in 0 .. N : it[r] = IF r = 0 THEN {} ELSE Filling(room, it[r - 1], fronts[r])
  BY <1>6, Zenon
<1>8. \A r \in 1 .. N : r \in 0 .. N /\ r # 0
  BY <1>1
<1>9. it[0] = {} /\ \A r \in 1 .. N : it[r] = Filling(room, it[r - 1], fronts[r])
  <2>1. 0 \in 0 .. N
    BY <1>1
  <2> QED
    BY <1>7, <1>8, <2>1, Zenon
<1> DEFINE Good == {r \in 0 .. N : Picked(fronts, room, r, it[r])}
<1>10. 0 \in Good
  <2>1. Upto(fronts, 0) = {} /\ 0 \in 0 .. N
    BY <1>1, UptoParts
  <2>2. Cardinality({}) = 0 /\ 0 <= room
    BY FS_EmptySet
  <2>3. Picked(fronts, room, 0, {})
    BY <2>1, <2>2, Zenon DEF Picked
  <2> QED
    BY <1>9, <2>1, <2>3
<1>11. ASSUME NEW r \in 1 .. N, r - 1 \in Good PROVE r \in Good
  <2>1. Picked(fronts, room, r - 1, it[r - 1])
    BY <1>11
  <2>2. Picked(fronts, room, r, Filling(room, it[r - 1], fronts[r]))
    BY <2>1, FillingPicks
  <2> QED
    BY <1>8, <1>9, <2>2
<1>12. Picked(fronts, room, N, it[N])
  <2> HIDE DEF Good, N
  <2>1. \A r \in 0 .. N : r \in Good
    BY <1>1, <1>10, <1>11, RoundsKeep
  <2>2. N \in Good
    BY <1>1, <2>1
  <2> QED
    BY <2>2 DEF Good
<1> DEFINE P == it[N]
<1> HIDE DEF P
<1>13. Upto(fronts, N) = S
  BY DEF Fronts
<1>14. /\ P \subseteq S
       /\ \/ P = S /\ Cardinality(S) <= room
          \/ /\ Cardinality(P) = room
             /\ \E k \in 1 .. N : Upto(fronts, k - 1) \subseteq P /\ P \subseteq Upto(fronts, k)
  <2> HIDE DEF N
  <2> QED
    BY <1>12, <1>13 DEF Picked, P
<1>15. ASSUME NEW i \in DOMAIN fronts, NEW j \in DOMAIN fronts, i < j, fronts[j] \cap P # {}
       PROVE  fronts[i] \subseteq P
  <2>1. CASE P = S
    BY <1>1, <2>1, UptoParts
  <2>2. CASE \E k \in 1 .. N : Upto(fronts, k - 1) \subseteq P /\ P \subseteq Upto(fronts, k)
    <3>1. PICK k \in 1 .. N : Upto(fronts, k - 1) \subseteq P /\ P \subseteq Upto(fronts, k)
      BY <2>2
    <3>2. i \in 1 .. N /\ j \in 1 .. N /\ j - 1 \in 0 .. N /\ k \in 0 .. N
      BY <1>1
    <3>3. fronts[j] \cap Upto(fronts, j - 1) = {}
      BY <3>2, UptoParts
    <3>4. ~(k <= j - 1)
      <4>1. k <= j - 1 => Upto(fronts, k) \subseteq Upto(fronts, j - 1)
        BY <3>2, UptoParts
      <4> QED
        BY <1>15, <3>1, <3>3, <4>1
    <3>5. k - 1 \in 1 .. N /\ i <= k - 1
      BY <1>1, <1>15, <3>2, <3>4
    <3>6. fronts[i] \subseteq Upto(fronts, k - 1)
      BY <3>2, <3>5, UptoParts
    <3> QED
      BY <3>1, <3>6
  <2> QED
    BY <1>14, <2>1, <2>2
<1>16. Populates(S, fronts, room, P)
  BY <1>14, <1>15 DEF Populates
<1> QED
  BY <1>2, <1>16, Zenon DEF P


\* So select_population() fills a population from the exact fronts.
LEMMA PopulationIsExact ==
    ASSUME NEW n \in Nat, NEW S \in SUBSET Trial(n), IsFiniteSet(S),
           \A s \in S, t \in S : s.id = t.id => s = t,
           NEW size \in Nat
    PROVE  Populates(S, NonDominatedSort(S), size, SelectPopulation(S, size))
<1>1. Fronts(S, NonDominatedSort(S))
  BY SortIsExact
<1>2. Populates(S, NonDominatedSort(S), size, Filled(NonDominatedSort(S), size))
  BY <1>1, FilledIsExact
<1> QED
  BY <1>2, Zenon DEF SelectPopulation
=============================================================================
