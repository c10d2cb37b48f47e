------------------------- MODULE SearchSpace_proofs -------------------------
(***************************************************************************)
(* Proofs about the walk over a finite domain, for every document, every   *)
(* limit and every draw: no choice or integer is taken for another one by  *)
(* its coordinate, and a walk that has ended has been everywhere.          *)
(***************************************************************************)
EXTENDS SearchSpace, FiniteSetTheorems, FunctionTheorems, WellFoundedInduction, TLAPS

-----------------------------------------------------------------------------
(* Induction on the naturals, from a least counterexample.                 *)

LEMMA LeastNumber ==
    ASSUME NEW S \in SUBSET Nat, S # {}
    PROVE  \E x \in S : \A y \in S : x <= y
<1>1. PICK x \in S : \A y \in S : ~(<<y, x>> \in OpToRel(<, Nat))
  BY NatLessThanWellFounded, WFMin, Zenon
<1>2. \A y \in S : <<y, x>> \in Nat \X Nat /\ <<y, x>>[1] = y /\ <<y, x>>[2] = x
  OBVIOUS
<1>3. \A y \in S : ~(y < x)
  BY <1>1, <1>2, Zenon DEF OpToRel
<1> QED
  BY <1>3

\* What holds of 0 and is passed on from each number to the next holds up to n.
LEMMA UpTo ==
    ASSUME NEW n \in Nat, NEW S, 0 \in S, \A k \in 1 .. n : k - 1 \in S => k \in S
    PROVE  \A k \in 0 .. n : k \in S
<1> DEFINE bad == {k \in 0 .. n : k \notin S}
<1> SUFFICES ASSUME bad # {} PROVE FALSE
  OBVIOUS
<1>1. bad \in SUBSET Nat
  OBVIOUS
<1>2. PICK k \in bad : \A l \in bad : k <= l
  <2> HIDE DEF bad
  <2> QED
    BY <1>1, LeastNumber
<1>3. k \in 1 .. n /\ k - 1 \in 0 .. n /\ ~(k <= k - 1)
  BY <1>2
<1>4. k - 1 \in S
  BY <1>2, <1>3
<1> QED
  BY <1>2, <1>3, <1>4
-----------------------------------------------------------------------------
(* Recursive functions.                                                    *)

\* The values up to n of a recursion with the step G.
Recurs(it, n, base, G) ==
    it = [k \in 0 .. n |-> IF k = 0 THEN base ELSE G[<<k, it[k - 1]>>]]

LEMMA RecursionIs ==
    ASSUME NEW n \in Nat, NEW base, NEW G, NEW it, Recurs(it, n, base, G)
    PROVE  it[0] = base /\ \A k \in 1 .. n : it[k] = G[<<k, it[k - 1]>>]
<1>1. \A k \in 0 .. n : it[k] = IF k = 0 THEN base ELSE G[<<k, it[k - 1]>>]
  BY Zenon DEF Recurs
<1>2. 0 \in 0 .. n /\ \A k \in 1 .. n : k \in 0 .. n /\ k # 0
  OBVIOUS
<1> QED
  BY <1>1, <1>2, Zenon

LEMMA RecursionExists ==
    ASSUME NEW n \in Nat, NEW X, NEW base \in X, NEW G \in [(1 .. n) \X X -> X]
    PROVE  \E it \in [0 .. n -> X] : Recurs(it, n, base, G)
<1> DEFINE Good(m) == \E it \in [0 .. m -> X] : Recurs(it, m, base, G)
           good == {m \in 0 .. n : Good(m)}
<1>1. Good(0)
  <2> DEFINE it == [k \in 0 .. 0 |-> base]
  <2>1. \A k \in 0 .. 0 : k = 0
    OBVIOUS
  <2>2. it = [k \in 0 .. 0 |-> IF k = 0 THEN base ELSE G[<<k, it[k - 1]>>]]
    BY <2>1, Zenon
  <2>3. it \in [0 .. 0 -> X]
    OBVIOUS
  <2> QED
    BY <2>2, <2>3, Zenon DEF Recurs
<1>2. ASSUME NEW m \in 1 .. n, Good(m - 1) PROVE Good(m)
  <2>1. PICK it \in [0 .. m - 1 -> X] : Recurs(it, m - 1, base, G)
    BY <1>2
  <2>2. m - 1 \in Nat /\ m \in Nat
    OBVIOUS
  <2>3. it[0] = base /\ \A k \in 1 .. m - 1 : it[k] = G[<<k, it[k - 1]>>]
    BY <2>1, <2>2, RecursionIs
  <2> DEFINE more == [k \in 0 .. m |-> IF k = m THEN G[<<m, it[m - 1]>>] ELSE it[k]]
  <2>4. ASSUME NEW k \in 0 .. m
        PROVE  more[k] = IF k = 0 THEN base ELSE G[<<k, more[k - 1]>>]
    <3>1. CASE k = 0
      BY <2>3, <3>1
    <3>2. CASE k \in 1 .. m
      <4>1. k - 1 \in 0 .. m /\ k - 1 # m /\ k # 0 /\ (k # m => k \in 1 .. m - 1)
        BY <3>2
      <4>2. /\ more[k - 1] = it[k - 1]
            /\ more[k] = IF k = m THEN G[<<m, it[m - 1]>>] ELSE it[k]
        BY <4>1, Zenon
      <4> HIDE DEF more
      <4> QED
        BY <2>3, <4>1, <4>2, Zenon
    <3> QED
      BY <3>1, <3>2
  <2>5. more \in [0 .. m -> X]
    <3>1. <<m, it[m - 1]>> \in (1 .. n) \X X /\ \A k \in 0 .. m : k # m => k \in 0 .. m - 1
      OBVIOUS
    <3> QED
      BY <3>1
  <2> HIDE DEF more
  <2> DEFINE result == [k \in 0 .. m |-> IF k = 0 THEN base ELSE G[<<k, more[k - 1]>>]]
  <2>6. [k \in 0 .. m |-> more[k]] = result
    BY <2>4, Zenon
  <2>7. more = [k \in 0 .. m |-> more[k]]
    BY <2>5
  <2>8. more = result
    BY <2>6, <2>7, Zenon
  <2> QED
    BY <2>5, <2>8, Zenon DEF Recurs
<1> HIDE DEF Good
<1>3. 0 \in good /\ \A m \in 1 .. n : m - 1 \in good => m \in good
  BY <1>1, <1>2
<1> HIDE DEF good
<1>4. n \in good
  <2>1. n \in 0 .. n
    OBVIOUS
  <2> QED
    BY <1>3, <2>1, UpTo
<1> QED
  BY <1>4 DEF Good, good

\* A fold from the left over n elements, as FoldLeft() defines it.
Folds(it, n, base, G) ==
    it = [s \in SUBSET (1 .. n) |-> IF s = {} THEN base ELSE G[<<Max(s), it[s \ {Max(s)}]>>]]

\* The greatest number of a set up to n.
LEMMA GreatestUpTo ==
    ASSUME NEW n \in Nat, NEW s \in SUBSET (1 .. n), n \in s
    PROVE  Max(s) = n
<1>1. n \in s /\ \A y \in s : n >= y
  OBVIOUS
<1>2. PICK x : x = Max(s)
  OBVIOUS
<1>3. x \in s /\ \A y \in s : x >= y
  BY <1>1, <1>2, Zenon DEF Max
<1>4. x \in 1 .. n /\ x >= n
  BY <1>1, <1>3
<1> QED
  BY <1>2, <1>4

LEMMA GreatestIn ==
    ASSUME NEW n \in Nat, NEW s \in SUBSET (1 .. n), s # {}
    PROVE  Max(s) \in s
<1> DEFINE good == {m \in 0 .. n : \A t \in SUBSET (1 .. m) : t # {} => Max(t) \in t}
<1>1. 0 \in good
  <2>1. \A t \in SUBSET (1 .. 0) : t = {}
    OBVIOUS
  <2>2. 0 \in 0 .. n
    OBVIOUS
  <2> QED
    BY <2>1, <2>2, Zenon
<1>2. ASSUME NEW m \in 1 .. n, m - 1 \in good PROVE m \in good
  <2>1. ASSUME NEW t \in SUBSET (1 .. m), t # {} PROVE Max(t) \in t
    <3>1. CASE m \in t
      BY <3>1, GreatestUpTo
    <3>2. CASE m \notin t
      <4>1. t \in SUBSET (1 .. m - 1)
        BY <3>2
      <4> QED
        BY <1>2, <2>1, <4>1
    <3> QED
      BY <3>1, <3>2
  <2> QED
    BY <2>1
<1>3. \A m \in 0 .. n : m \in good
  <2> HIDE DEF good
  <2> QED
    BY <1>1, <1>2, UpTo
<1> QED
  BY <1>3

LEMMA FoldExists ==
    ASSUME NEW n \in Nat, NEW X, NEW base \in X, NEW G \in [(1 .. n) \X X -> X]
    PROVE  \E it \in [SUBSET (1 .. n) -> X] : Folds(it, n, base, G)
<1> DEFINE Good(m) == \E it \in [SUBSET (1 .. m) -> X] : Folds(it, m, base, G)
           good == {m \in 0 .. n : Good(m)}
<1>1. Good(0)
  <2> DEFINE it == [s \in SUBSET (1 .. 0) |-> base]
  <2>1. \A s \in SUBSET (1 .. 0) : s = {}
    OBVIOUS
  <2>2. it = [s \in SUBSET (1 .. 0) |-> IF s = {} THEN base ELSE G[<<Max(s), it[s \ {Max(s)}]>>]]
    BY <2>1, Zenon
  <2>3. it \in [SUBSET (1 .. 0) -> X]
    OBVIOUS
  <2> QED
    BY <2>2, <2>3, Zenon DEF Folds
<1>2. ASSUME NEW m \in 1 .. n, Good(m - 1) PROVE Good(m)
  <2>1. PICK it \in [SUBSET (1 .. m - 1) -> X] : Folds(it, m - 1, base, G)
    BY <1>2
  <2>2. \A s \in SUBSET (1 .. m - 1) :
           it[s] = IF s = {} THEN base ELSE G[<<Max(s), it[s \ {Max(s)}]>>]
    BY <2>1, Zenon DEF Folds
  <2> DEFINE more == [s \in SUBSET (1 .. m) |->
                        IF m \in s THEN G[<<m, it[s \ {m}]>>] ELSE it[s]]
  <2>3. ASSUME NEW s \in SUBSET (1 .. m)
        PROVE  more[s] = IF s = {} THEN base ELSE G[<<Max(s), more[s \ {Max(s)}]>>]
    <3>1. CASE m \in s
      <4>1. Max(s) = m /\ s # {}
        BY <3>1, GreatestUpTo
      <4>2. s \ {m} \in SUBSET (1 .. m) /\ m \notin s \ {m}
        OBVIOUS
      <4>3. more[s] = G[<<m, it[s \ {m}]>>] /\ more[s \ {m}] = it[s \ {m}]
        BY <3>1, <4>2, Zenon
      <4> HIDE DEF more
      <4> QED
        BY <4>1, <4>3, Zenon
    <3>2. CASE m \notin s
      <4>1. s \in SUBSET (1 .. m - 1)
        BY <3>2
      <4>2. more[s] = it[s]
        BY <3>2, Zenon
      <4>3. s \ {Max(s)} \in SUBSET (1 .. m) /\ m \notin s \ {Max(s)}
        BY <3>2
      <4>4. more[s \ {Max(s)}] = it[s \ {Max(s)}]
        BY <4>3, Zenon
      <4> HIDE DEF more
      <4> QED
        BY <2>2, <4>1, <4>2, <4>4, Zenon
    <3> QED
      BY <3>1, <3>2
  <2>4. more \in [SUBSET (1 .. m) -> X]
    <3>1. ASSUME NEW s \in SUBSET (1 .. m) PROVE more[s] \in X
      <4>1. CASE m \in s
        <5>1. s \ {m} \in SUBSET (1 .. m - 1)
          OBVIOUS
        <5>2. <<m, it[s \ {m}]>> \in (1 .. n) \X X
          BY <5>1
        <5> QED
          BY <4>1, <5>2
      <4>2. CASE m \notin s
        <5>1. s \in SUBSET (1 .. m - 1)
          BY <4>2
        <5> QED
          BY <4>2, <5>1
      <4> QED
        BY <4>1, <4>2
    <3> QED
      BY <3>1
  <2> HIDE DEF more
  <2> DEFINE result == [s \in SUBSET (1 .. m) |->
                          IF s = {} THEN base ELSE G[<<Max(s), more[s \ {Max(s)}]>>]]
  <2>5. [s \in SUBSET (1 .. m) |-> more[s]] = result
    BY <2>3, Zenon
  <2>6. more = [s \in SUBSET (1 .. m) |-> more[s]]
    BY <2>4
  <2>7. more = result
    BY <2>5, <2>6, Zenon
  <2> QED
    BY <2>4, <2>7, Zenon DEF Folds
<1> HIDE DEF Good
<1>3. 0 \in good /\ \A m \in 1 .. n : m - 1 \in good => m \in good
  BY <1>1, <1>2
<1> HIDE DEF good
<1>4. n \in good
  <2>1. n \in 0 .. n
    OBVIOUS
  <2> QED
    BY <1>3, <2>1, UpTo
<1> QED
  BY <1>4 DEF Good, good

\* What a fold makes of its first k elements.
LEMMA FoldIs ==
    ASSUME NEW n \in Nat, NEW base, NEW G, NEW it, Folds(it, n, base, G)
    PROVE  /\ it[1 .. 0] = base
           /\ \A k \in 1 .. n : it[1 .. k] = G[<<k, it[1 .. k - 1]>>]
<1>1. \A s \in SUBSET (1 .. n) : it[s] = IF s = {} THEN base ELSE G[<<Max(s), it[s \ {Max(s)}]>>]
  BY Zenon DEF Folds
<1>2. 1 .. 0 \in SUBSET (1 .. n) /\ 1 .. 0 = {}
  OBVIOUS
<1>3. ASSUME NEW k \in 1 .. n PROVE it[1 .. k] = G[<<k, it[1 .. k - 1]>>]
  <2>1. k \in Nat /\ 1 .. k \in SUBSET (1 .. k) /\ k \in 1 .. k
    OBVIOUS
  <2>2. Max(1 .. k) = k
    BY <2>1, GreatestUpTo
  <2>3. 1 .. k \in SUBSET (1 .. n) /\ 1 .. k # {} /\ (1 .. k) \ {k} = 1 .. k - 1
    OBVIOUS
  <2> QED
    BY <1>1, <2>2, <2>3, Zenon
<1> QED
  BY <1>1, <1>2, <1>3, Zenon


\* The parts of 1 .. n that a fold from the left goes through.
LEMMA InitialParts ==
    ASSUME NEW n \in Nat
    PROVE  /\ 1 .. 0 \in SUBSET (1 .. n) /\ 1 .. 0 = {}
           /\ \A k \in 1 .. n : /\ 1 .. k \in SUBSET (1 .. n) /\ 1 .. k # {}
                                /\ Max(1 .. k) = k /\ (1 .. k) \ {k} = 1 .. k - 1
<1>1. ASSUME NEW k \in 1 .. n
      PROVE  /\ 1 .. k \in SUBSET (1 .. n) /\ 1 .. k # {}
             /\ Max(1 .. k) = k /\ (1 .. k) \ {k} = 1 .. k - 1
  <2>1. k \in Nat /\ 1 .. k \in SUBSET (1 .. k) /\ k \in 1 .. k
    OBVIOUS
  <2>2. Max(1 .. k) = k
    BY <2>1, GreatestUpTo
  <2> QED
    BY <2>2
<1> QED
  BY <1>1

(***************************************************************************)
(* The free variables are collected one by one (model.py, Problem).        *)
(***************************************************************************)
Frees(a, vs) ==
    /\ a[0] = <<>>
    /\ \A k \in 1 .. Len(vs) :
          a[k] = IF vs[k].kind = "linked" THEN a[k - 1] ELSE Append(a[k - 1], vs[k])

LEMMA FreesCollect ==
    ASSUME NEW V, NEW vs \in Seq(V)
    PROVE  \E a \in [0 .. Len(vs) -> Seq(V)] : Frees(a, vs) /\ FreeVariables(vs) = a[Len(vs)]
<1> DEFINE n == Len(vs)
           G == [p \in (1 .. n) \X Seq(V) |->
                    IF vs[p[1]].kind = "linked" THEN p[2] ELSE Append(p[2], vs[p[1]])]
           Looped(it) == it = [s \in SUBSET DOMAIN vs |->
                                 IF s = {} THEN <<>>
                                 ELSE IF vs[Max(s)].kind = "linked" THEN it[s \ {Max(s)}]
                                 ELSE Append(it[s \ {Max(s)}], vs[Max(s)])]
           chosen == CHOOSE it : Looped(it)
<1>n. n \in Nat
  OBVIOUS
<1>e. <<>> \in Seq(V)
  OBVIOUS
<1>1. n \in Nat /\ DOMAIN vs = 1 .. n /\ \A k \in 1 .. n : vs[k] \in V
  OBVIOUS
<1>2. FreeVariables(vs) = chosen[DOMAIN vs]
  BY Zenon DEF FreeVariables, FoldLeft, MapThenFoldSet
<1>3. G \in [(1 .. n) \X Seq(V) -> Seq(V)]
  <2>1. \A p \in (1 .. n) \X Seq(V) : vs[p[1]] \in V /\ p[2] \in Seq(V)
    OBVIOUS
  <2>2. \A p \in (1 .. n) \X Seq(V) : Append(p[2], vs[p[1]]) \in Seq(V)
    BY <2>1
  <2> QED
    BY <2>1, <2>2
<1>4. PICK it \in [SUBSET (1 .. n) -> Seq(V)] : Folds(it, n, <<>>, G)
  <2> HIDE DEF n, G
  <2> QED
    BY <1>n, <1>e, <1>3, FoldExists
<1>5. Looped(it)
  <2>1. it = [s \in SUBSET (1 .. n) |-> IF s = {} THEN <<>> ELSE G[<<Max(s), it[s \ {Max(s)}]>>]]
    BY <1>4, Zenon DEF Folds
  <2>2. ASSUME NEW s \in SUBSET (1 .. n), s # {}
        PROVE  G[<<Max(s), it[s \ {Max(s)}]>>] =
                 IF vs[Max(s)].kind = "linked" THEN it[s \ {Max(s)}]
                 ELSE Append(it[s \ {Max(s)}], vs[Max(s)])
    <3>1. Max(s) \in s
      BY <1>1, <2>2, GreatestIn
    <3> DEFINE m == Max(s)
               p == <<m, it[s \ {m}]>>
    <3>2. s \ {m} \in SUBSET (1 .. n) /\ m \in 1 .. n
      BY <3>1
    <3> HIDE DEF m
    <3>3. p \in (1 .. n) \X Seq(V) /\ p[1] = m /\ p[2] = it[s \ {m}]
      BY <3>2
    <3> HIDE DEF p
    <3>4. G[p] = IF vs[p[1]].kind = "linked" THEN p[2] ELSE Append(p[2], vs[p[1]])
      BY <3>3
    <3> HIDE DEF G
    <3> QED
      BY <3>3, <3>4, Zenon DEF p, m
  <2> HIDE DEF G
  <2> DEFINE right == [s \in SUBSET (1 .. n) |->
                         IF s = {} THEN <<>>
                         ELSE IF vs[Max(s)].kind = "linked" THEN it[s \ {Max(s)}]
                         ELSE Append(it[s \ {Max(s)}], vs[Max(s)])]
             left == [s \in SUBSET (1 .. n) |->
                         IF s = {} THEN <<>> ELSE G[<<Max(s), it[s \ {Max(s)}]>>]]
  <2>3. left = right
    BY <2>2, Zenon
  <2> QED
    BY <1>1, <2>1, <2>3, Zenon
<1>6. Looped(chosen)
  BY <1>5, Zenon
<1>7. \A s \in SUBSET (1 .. n) :
         chosen[s] = IF s = {} THEN <<>>
                     ELSE IF vs[Max(s)].kind = "linked" THEN chosen[s \ {Max(s)}]
                     ELSE Append(chosen[s \ {Max(s)}], vs[Max(s)])
  BY <1>1, <1>6, Zenon
<1> DEFINE a == [k \in 0 .. n |-> chosen[1 .. k]]
<1> HIDE DEF chosen, n, G
<1>p. /\ 1 .. 0 \in SUBSET (1 .. n) /\ 1 .. 0 = {}
      /\ \A k \in 1 .. n : /\ 1 .. k \in SUBSET (1 .. n) /\ 1 .. k # {}
                           /\ Max(1 .. k) = k /\ (1 .. k) \ {k} = 1 .. k - 1
  BY <1>n, InitialParts, Zenon
<1>8. a[0] = <<>>
  <2>1. a[0] = chosen[1 .. 0]
    BY <1>1
  <2> HIDE DEF a
  <2> QED
    BY <1>7, <1>p, <2>1, Zenon
<1>9. ASSUME NEW k \in 1 .. n
      PROVE  a[k] = IF vs[k].kind = "linked" THEN a[k - 1] ELSE Append(a[k - 1], vs[k])
  <2>1. a[k] = chosen[1 .. k] /\ a[k - 1] = chosen[1 .. k - 1]
    BY <1>1
  <2>2. /\ 1 .. k \in SUBSET (1 .. n) /\ 1 .. k # {}
        /\ Max(1 .. k) = k /\ (1 .. k) \ {k} = 1 .. k - 1
    BY <1>p
  <2> HIDE DEF a
  <2> QED
    BY <1>7, <2>1, <2>2, Zenon
<1>10. a \in [0 .. n -> Seq(V)]
  <2> DEFINE good == {k \in 0 .. n : a[k] \in Seq(V)}
  <2>d. a = [k \in 0 .. n |-> a[k]]
    OBVIOUS
  <2> HIDE DEF a
  <2>1. 0 \in good
    <3>1. a[0] \in Seq(V)
      BY <1>e, <1>8, Zenon
    <3>2. 0 \in 0 .. n
      BY <1>n
    <3> QED
      BY <3>1, <3>2
  <2>2. ASSUME NEW k \in 1 .. n, k - 1 \in good PROVE k \in good
    <3>1. a[k - 1] \in Seq(V) /\ vs[k] \in V
      BY <1>1, <2>2
    <3>2. Append(a[k - 1], vs[k]) \in Seq(V)
      BY <3>1
    <3>3. a[k] \in Seq(V)
      BY <1>9, <3>1, <3>2
    <3> QED
      BY <3>3
  <2>3. \A k \in 0 .. n : k \in good
    <3> HIDE DEF good
    <3> QED
      BY <1>1, <2>1, <2>2, UpTo
  <2> QED
    BY <2>3, <2>d
<1>11. FreeVariables(vs) = a[n]
  BY <1>1, <1>2
<1> HIDE DEF a
<1> QED
  BY <1>8, <1>9, <1>10, <1>11 DEF Frees, n


\* The free ones among the first k variables, each once.
FreeAmong(f, k, vs) ==
    /\ \A i \in 1 .. Len(f) : \E j \in 1 .. k : f[i] = vs[j] /\ vs[j].kind # "linked"
    /\ \A j \in 1 .. k : vs[j].kind # "linked" => \E i \in 1 .. Len(f) : f[i] = vs[j]
    /\ \A i, j \in 1 .. Len(f) : f[i].name = f[j].name => i = j

DistinctNames(vs) == \A i, j \in 1 .. Len(vs) : vs[i].name = vs[j].name => i = j

LEMMA FreesAre ==
    ASSUME NEW V, NEW vs \in Seq(V), DistinctNames(vs)
    PROVE  FreeVariables(vs) \in Seq(V) /\ FreeAmong(FreeVariables(vs), Len(vs), vs)
<1> DEFINE n == Len(vs)
<1>1. n \in Nat /\ \A k \in 1 .. n : vs[k] \in V
  OBVIOUS
<1>2. PICK a \in [0 .. n -> Seq(V)] : Frees(a, vs) /\ FreeVariables(vs) = a[n]
  BY FreesCollect
<1> DEFINE good == {k \in 0 .. n : FreeAmong(a[k], k, vs)}
<1>3. 0 \in good
  <2>1. a[0] = <<>> /\ 0 \in 0 .. n
    BY <1>1, <1>2 DEF Frees
  <2>2. Len(a[0]) = 0
    BY <2>1
  <2>3. FreeAmong(a[0], 0, vs)
    BY <2>2 DEF FreeAmong
  <2> QED
    BY <2>1, <2>3
<1>4. ASSUME NEW k \in 1 .. n, k - 1 \in good PROVE k \in good
  <2> DEFINE f == a[k - 1]
             g == a[k]
  <2>0. k - 1 \in 0 .. n /\ k \in 0 .. n
    BY <1>1
  <2>1. f \in Seq(V) /\ g \in Seq(V) /\ vs[k] \in V /\ k \in 0 .. n
    BY <1>1, <2>0
  <2>2. FreeAmong(f, k - 1, vs)
    BY <1>4
  <2>3. g = IF vs[k].kind = "linked" THEN f ELSE Append(f, vs[k])
    BY <1>2 DEF Frees
  <2>5. \A j \in 1 .. k : j \in 1 .. k - 1 \/ j = k
    OBVIOUS
  <2>6. \A j \in 1 .. k - 1 : j \in 1 .. k /\ vs[j].name # vs[k].name
    BY DEF DistinctNames
  <2> HIDE DEF f, g, n
  <2>4. CASE vs[k].kind = "linked"
    <3>1. g = f
      BY <2>3, <2>4
    <3>2. \A i \in 1 .. Len(f) : \E j \in 1 .. k : f[i] = vs[j] /\ vs[j].kind # "linked"
      BY <2>2, <2>6 DEF FreeAmong
    <3>3. \A j \in 1 .. k : vs[j].kind # "linked" => \E i \in 1 .. Len(f) : f[i] = vs[j]
      BY <2>2, <2>4, <2>5 DEF FreeAmong
    <3>4. FreeAmong(f, k, vs)
      BY <2>2, <3>2, <3>3 DEF FreeAmong
    <3> QED
      BY <2>1, <3>1, <3>4 DEF g
  <2>7. CASE vs[k].kind # "linked"
    <3>1. /\ Len(g) = Len(f) + 1 /\ g[Len(f) + 1] = vs[k]
          /\ \A i \in 1 .. Len(f) : g[i] = f[i]
      BY <2>1, <2>3, <2>7
    <3>2. \A i \in 1 .. Len(g) : i \in 1 .. Len(f) \/ i = Len(f) + 1
      BY <2>1, <3>1
    <3>3. Len(f) + 1 \in 1 .. Len(g) /\ \A i \in 1 .. Len(f) : i \in 1 .. Len(g)
      BY <2>1, <3>1
    <3>4. \A i \in 1 .. Len(g) : \E j \in 1 .. k : g[i] = vs[j] /\ vs[j].kind # "linked"
      <4>1. ASSUME NEW i \in 1 .. Len(f)
            PROVE  \E j \in 1 .. k : g[i] = vs[j] /\ vs[j].kind # "linked"
        <5>1. PICK j \in 1 .. k - 1 : f[i] = vs[j] /\ vs[j].kind # "linked"
          BY <2>2 DEF FreeAmong
        <5> QED
          BY <2>6, <3>1, <5>1
      <4>2. k \in 1 .. k
        OBVIOUS
      <4> QED
        BY <2>7, <3>1, <3>2, <4>1, <4>2
    <3>5. \A j \in 1 .. k : vs[j].kind # "linked" => \E i \in 1 .. Len(g) : g[i] = vs[j]
      <4>1. ASSUME NEW j \in 1 .. k - 1, vs[j].kind # "linked"
            PROVE  \E i \in 1 .. Len(g) : g[i] = vs[j]
        <5>1. PICK i \in 1 .. Len(f) : f[i] = vs[j]
          BY <2>2, <4>1 DEF FreeAmong
        <5> QED
          BY <3>1, <3>3, <5>1
      <4> QED
        BY <2>5, <3>1, <3>3, <4>1
    <3>6. \A i \in 1 .. Len(f) : g[i].name # g[Len(f) + 1].name
      BY <2>2, <2>6, <3>1 DEF FreeAmong
    <3>7. ASSUME NEW i \in 1 .. Len(g), NEW j \in 1 .. Len(g), g[i].name = g[j].name
          PROVE  i = j
      <4>1. CASE i \in 1 .. Len(f) /\ j \in 1 .. Len(f)
        BY <2>2, <3>1, <3>7, <4>1 DEF FreeAmong
      <4>2. CASE i = Len(f) + 1 \/ j = Len(f) + 1
        BY <3>2, <3>6, <3>7, <4>2
      <4> QED
        BY <3>2, <4>1, <4>2
    <3>8. FreeAmong(g, k, vs)
      BY <3>4, <3>5, <3>7 DEF FreeAmong
    <3> QED
      BY <2>1, <3>8 DEF g
  <2> QED
    BY <2>4, <2>7
<1>5. n \in good
  <2> HIDE DEF good
  <2>1. \A k \in 0 .. n : k \in good
    BY <1>1, <1>3, <1>4, UpTo
  <2> QED
    BY <1>1, <2>1
<1> QED
  BY <1>1, <1>2, <1>5
-----------------------------------------------------------------------------
(* Rounding (Python's round() and math.ceil(), on fractions).              *)

Fraction == Int \X (Nat \ {0})

LEMMA QuotientAndRest ==
    ASSUME NEW a \in Int, NEW b \in Nat \ {0}
    PROVE  a \div b \in Int /\ a % b \in 0 .. b - 1 /\ a = b * (a \div b) + (a % b)
  OBVIOUS

LEMMA QuotientIs ==
    ASSUME NEW a \in Int, NEW b \in Nat \ {0}, NEW k \in Int, NEW r \in Nat,
           a = k * b + r, r < b
    PROVE  a \div b = k /\ a % b = r
<1> DEFINE q == a \div b
           s == a % b
<1>1. q \in Int /\ s \in 0 .. b - 1 /\ a = b * q + s
  BY QuotientAndRest
<1> HIDE DEF q, s
<1>2. (q - k) * b = r - s
  BY <1>1
<1>3. ~(q - k >= 1)
  <2> SUFFICES ASSUME q - k >= 1 PROVE FALSE
    OBVIOUS
  <2>1. (q - k) * b >= b
    BY <1>1
  <2> QED
    BY <1>1, <1>2, <2>1
<1>4. ~(q - k <= -1)
  <2> SUFFICES ASSUME q - k <= -1 PROVE FALSE
    OBVIOUS
  <2>1. (q - k) * b <= -b
    BY <1>1
  <2> QED
    BY <1>1, <1>2, <2>1
<1>5. q = k
  BY <1>1, <1>3, <1>4
<1>6. s = r
  BY <1>1, <1>2, <1>5
<1> QED
  BY <1>5, <1>6 DEF q, s

LEMMA RoundedIs ==
    ASSUME NEW a \in Int, NEW b \in Nat \ {0}, NEW m \in Int,
           (2 * m - 1) * b < 2 * a, 2 * a < (2 * m + 1) * b
    PROVE  Rounded(a, b) = m
  BY DEF Rounded

LEMMA RoundedNear ==
    ASSUME NEW a \in Int, NEW b \in Nat \ {0}
    PROVE  /\ Rounded(a, b) \in Int
           /\ (2 * Rounded(a, b) - 1) * b <= 2 * a
           /\ 2 * a <= (2 * Rounded(a, b) + 1) * b
<1> DEFINE q == a \div b
           r == a % b
           R == Rounded(a, b)
<1>1. q \in Int /\ r \in 0 .. b - 1 /\ a = b * q + r
  BY QuotientAndRest
<1>2. R = IF 2 * r > b \/ (2 * r = b /\ q % 2 = 1) THEN q + 1 ELSE q
  BY DEF Rounded
<1> HIDE DEF q, r, R
<1>3. CASE R = q
  <2>1. 2 * r <= b
    BY <1>1, <1>2, <1>3
  <2> QED
    BY <1>1, <1>3, <2>1 DEF R
<1>4. CASE R = q + 1
  <2>1. 2 * r >= b
    BY <1>1, <1>2, <1>4
  <2> QED
    BY <1>1, <1>4, <2>1 DEF R
<1> QED
  BY <1>2, <1>3, <1>4

\* A whole number stays what it is.
LEMMA RoundedExact ==
    ASSUME NEW k \in Int, NEW b \in Nat \ {0}
    PROVE  Rounded(k * b, b) = k
<1> DEFINE a == k * b
<1>1. a \in Int /\ (2 * k - 1) * b = 2 * a - b /\ (2 * k + 1) * b = 2 * a + b
  OBVIOUS
<1> HIDE DEF a
<1>2. Rounded(a, b) = k
  BY <1>1, RoundedIs
<1> QED
  BY <1>2 DEF a

\* What is between 0 and s is rounded to a number between 0 and s.
LEMMA RoundedWithin ==
    ASSUME NEW a \in Nat, NEW b \in Nat \ {0}, NEW s \in Nat, a <= s * b
    PROVE  Rounded(a, b) \in 0 .. s
<1> DEFINE R == Rounded(a, b)
<1>1. R \in Int /\ (2 * R - 1) * b <= 2 * a /\ 2 * a <= (2 * R + 1) * b
  BY RoundedNear
<1> HIDE DEF R
<1>2. R >= 0
  <2> SUFFICES ASSUME R <= -1 PROVE FALSE
    BY <1>1
  <2> DEFINE k == 2 * R + 1
  <2>1. k \in Int /\ k <= -1 /\ 2 * a <= k * b
    BY <1>1
  <2> HIDE DEF k
  <2>2. k * b <= (-1) * b
    BY <2>1
  <2> QED
    BY <2>1, <2>2
<1>3. R <= s
  <2> SUFFICES ASSUME R >= s + 1 PROVE FALSE
    BY <1>1
  <2>1. (2 * R - 1) * b >= (2 * s + 1) * b
    BY <1>1
  <2>2. (2 * s + 1) * b = 2 * (s * b) + b /\ s * b \in Nat
    OBVIOUS
  <2> QED
    BY <1>1, <2>1, <2>2
<1> QED
  BY <1>1, <1>2, <1>3 DEF R

LEMMA CeilingIs ==
    ASSUME NEW a \in Int, NEW b \in Nat \ {0}
    PROVE  /\ Ceiling(a, b) \in Int
           /\ a <= Ceiling(a, b) * b /\ (Ceiling(a, b) - 1) * b < a
<1> DEFINE q == (-a) \div b
           r == (-a) % b
<1>1. -a \in Int
  OBVIOUS
<1>2. q \in Int /\ r \in 0 .. b - 1 /\ -a = b * q + r
  BY <1>1
<1>3. Ceiling(a, b) = -q
  BY DEF Ceiling
<1> HIDE DEF q, r
<1>4. (-q) * b = -(b * q) /\ (-q - 1) * b = -(b * q) - b /\ b * q \in Int
  BY <1>2
<1> QED
  BY <1>2, <1>3, <1>4
-----------------------------------------------------------------------------
(* The encoding of a single variable.                                      *)

\* What the parser leaves of a free variable's table.
FreeTyped(v) ==
    \/ /\ v.kind = "real"
       /\ v.low \in Int /\ v.high \in Int /\ v.quantum \in Nat /\ v.low < v.high
       /\ v.default \in v.low .. v.high
    \/ /\ v.kind = "integer"
       /\ v.low \in Int /\ v.high \in Int /\ v.low <= v.high
       /\ v.default \in v.low .. v.high
    \/ /\ v.kind = "choice"
       /\ v.values \in Seq(Int) /\ v.values # <<>> /\ IsInjective(v.values)
       /\ v.default \in ToSet(v.values)

WithinBounds(v, value) ==
    IF v.kind = "choice" THEN value \in ToSet(v.values) ELSE value \in v.low .. v.high

LEMMA MaxOfTwo ==
    ASSUME NEW x \in Int, NEW y \in Int
    PROVE  Max({x, y}) = IF x >= y THEN x ELSE y
<1>1. PICK z : z = Max({x, y})
  OBVIOUS
<1>2. \E w \in {x, y} : \A u \in {x, y} : w >= u
  OBVIOUS
<1>3. z \in {x, y} /\ \A u \in {x, y} : z >= u
  BY <1>1, <1>2, Zenon DEF Max
<1> QED
  BY <1>1, <1>3

LEMMA MinOfTwo ==
    ASSUME NEW x \in Int, NEW y \in Int
    PROVE  Min({x, y}) = IF x <= y THEN x ELSE y
<1>1. PICK z : z = Min({x, y})
  OBVIOUS
<1>2. \E w \in {x, y} : \A u \in {x, y} : w <= u
  OBVIOUS
<1>3. z \in {x, y} /\ \A u \in {x, y} : z <= u
  BY <1>1, <1>2, Zenon DEF Min
<1> QED
  BY <1>1, <1>3

LEMMA Clamped ==
    ASSUME NEW c \in Fraction
    PROVE  /\ Clamp(c) \in Fraction
           /\ 0 <= Clamp(c)[1] /\ Clamp(c)[1] <= Clamp(c)[2]
           /\ 0 <= c[1] /\ c[1] <= c[2] => Clamp(c) = c
  BY DEF Clamp, Fraction

\* The float for a / b, 0 <= a / b <= 1, is no further from it than half a spacing.
LEMMA FloatIs ==
    ASSUME NEW a \in Nat, NEW b \in Nat \ {0}, a <= b
    PROVE  LET c == Float(a, b)
           IN  /\ c \in Fraction /\ c[2] = Precision
               /\ c[1] \in Nat /\ c[1] <= Precision
               /\ (2 * c[1] - 1) * b <= 2 * (a * Precision)
               /\ 2 * (a * Precision) <= (2 * c[1] + 1) * b
<1> DEFINE x == a * Precision
           m == Rounded(x, b)
<1>1. Precision \in Nat \ {0}
  BY PrecisionAssumption
<1>2. x \in Nat /\ x <= Precision * b
  <2>1. (b - a) * Precision \in Nat /\ (b - a) * Precision = Precision * b - x
    BY <1>1
  <2>2. x \in Nat /\ Precision * b \in Nat
    BY <1>1
  <2> HIDE DEF x
  <2> QED
    BY <2>1, <2>2
<1>3. Float(a, b) = <<m, Precision>>
  BY Zenon DEF Float
<1> HIDE DEF x
<1>4. m \in 0 .. Precision
  BY <1>1, <1>2, RoundedWithin
<1>5. (2 * m - 1) * b <= 2 * x /\ 2 * x <= (2 * m + 1) * b
  BY <1>2, RoundedNear
<1> HIDE DEF m
<1>6. Float(a, b)[1] = m /\ Float(a, b)[2] = Precision /\ Float(a, b) \in Fraction
  BY <1>1, <1>3, <1>4 DEF Fraction
<1> QED
  BY <1>1, <1>4, <1>5, <1>6 DEF x

(* A real variable. *)

LEMMA QuantizedReal ==
    ASSUME NEW v, FreeTyped(v), v.kind = "real", NEW a \in Int, NEW b \in Nat \ {0}
    PROVE  LET level == v.low + Rounded(a, b * Step(v)) * Step(v)
           IN  /\ level \in Int /\ Step(v) \in Nat \ {0}
               /\ QuantizeReal(v, a, b) = IF level <= v.low THEN v.low
                                          ELSE IF level >= v.high THEN v.high ELSE level
<1>1. v.low \in Int /\ v.high \in Int /\ v.quantum \in Nat /\ v.low < v.high
  BY DEF FreeTyped
<1>2. Step(v) \in Nat \ {0}
  BY <1>1 DEF Step
<1> DEFINE s == Step(v)
           m == Rounded(a, b * s)
           level == v.low + m * s
           upper == Min({v.high, level})
<1>3. b * s \in Nat \ {0}
  BY <1>2
<1>4. m \in Int
  BY <1>3, RoundedNear
<1>5. level \in Int
  BY <1>1, <1>2, <1>4
<1>6. QuantizeReal(v, a, b) = Max({v.low, upper})
  BY Zenon DEF QuantizeReal
<1> HIDE DEF level, s, m
<1>7. upper = IF v.high <= level THEN v.high ELSE level
  BY <1>1, <1>5, MinOfTwo
<1>8. upper \in Int
  BY <1>1, <1>5, <1>7
<1> HIDE DEF upper
<1>9. Max({v.low, upper}) = IF v.low >= upper THEN v.low ELSE upper
  BY <1>1, <1>8, MaxOfTwo
<1>10. QuantizeReal(v, a, b) = IF level <= v.low THEN v.low
                               ELSE IF level >= v.high THEN v.high ELSE level
  BY <1>1, <1>5, <1>6, <1>7, <1>9
<1> QED
  BY <1>2, <1>5, <1>10 DEF level, m, s

DecodedReal(v, c) ==
    IF c[1] = 0 THEN v.low ELSE IF c[1] = c[2] THEN v.high
    ELSE QuantizeReal(v, c[1] * (v.high - v.low), c[2])

LEMMA DecodeReal ==
    ASSUME NEW v, v.kind = "real", NEW c
    PROVE  DecodeVariable(v, c) = DecodedReal(v, Clamp(c))
  BY Zenon DEF DecodeVariable, DecodedReal

\* A real value is an end of the interval or a level of the quantum.
LEMMA RealValues ==
    ASSUME NEW v, FreeTyped(v), v.kind = "real", NEW c \in Fraction
    PROVE  \/ DecodeVariable(v, c) \in {v.low, v.high}
           \/ \E m \in Int : /\ DecodeVariable(v, c) = v.low + m * Step(v)
                             /\ v.low < v.low + m * Step(v) /\ v.low + m * Step(v) < v.high
<1>1. v.low \in Int /\ v.high \in Int /\ v.low < v.high
  BY DEF FreeTyped
<1> DEFINE d == Clamp(c)
           a == d[1] * (v.high - v.low)
           b == d[2]
           m == Rounded(a, b * Step(v))
           level == v.low + m * Step(v)
<1>2. a \in Int /\ b \in Nat \ {0}
  BY <1>1, Clamped DEF Fraction
<1>3. DecodeVariable(v, c) = IF d[1] = 0 THEN v.low ELSE IF d[1] = d[2] THEN v.high
                             ELSE QuantizeReal(v, a, b)
  BY DecodeReal DEF DecodedReal
<1> HIDE DEF a, b, d
<1>4. /\ level \in Int /\ Step(v) \in Nat \ {0}
      /\ QuantizeReal(v, a, b) = IF level <= v.low THEN v.low
                                 ELSE IF level >= v.high THEN v.high ELSE level
  BY <1>2, QuantizedReal
<1>5. m \in Int
  <2>1. b * Step(v) \in Nat \ {0}
    BY <1>2, <1>4
  <2> QED
    BY <1>2, <2>1, RoundedNear
<1> HIDE DEF m
<1>6. CASE DecodeVariable(v, c) = level /\ v.low < level /\ level < v.high
  BY <1>5, <1>6
<1> QED
  BY <1>1, <1>3, <1>4, <1>6

LEMMA RealWithin ==
    ASSUME NEW v, FreeTyped(v), v.kind = "real", NEW c \in Fraction
    PROVE  DecodeVariable(v, c) \in v.low .. v.high
<1> DEFINE value == DecodeVariable(v, c)
<1>1. v.low \in Int /\ v.high \in Int /\ v.low < v.high
  BY DEF FreeTyped
<1>2. \/ value \in {v.low, v.high}
      \/ \E m \in Int : /\ value = v.low + m * Step(v)
                        /\ v.low < value /\ value < v.high
  BY RealValues
<1> HIDE DEF value
<1>3. Step(v) \in Nat
  BY DEF Step, FreeTyped
<1>4. value \in v.low .. v.high
  BY <1>1, <1>2, <1>3
<1> QED
  BY <1>4 DEF value

(* An integer variable. *)

DecodedInteger(v, c) == Min({v.high, v.low + Rounded(c[1] * (v.high - v.low), c[2])})

LEMMA DecodeInteger ==
    ASSUME NEW v, v.kind = "integer", NEW c
    PROVE  DecodeVariable(v, c) = DecodedInteger(v, Clamp(c))
<1>1. v.kind # "real"
  OBVIOUS
<1> QED
  BY <1>1, Zenon DEF DecodeVariable, DecodedInteger

LEMMA IntegerDecoded ==
    ASSUME NEW v, FreeTyped(v), v.kind = "integer",
           NEW d \in Fraction, 0 <= d[1], d[1] <= d[2]
    PROVE  /\ Rounded(d[1] * (v.high - v.low), d[2]) \in 0 .. v.high - v.low
           /\ DecodeVariable(v, d) = v.low + Rounded(d[1] * (v.high - v.low), d[2])
<1> DEFINE span == v.high - v.low
           a == d[1] * span
           b == d[2]
           m == Rounded(a, b)
<1>1. v.low \in Int /\ v.high \in Int /\ v.low <= v.high /\ span \in Nat
  BY DEF FreeTyped
<1>2. a \in Nat /\ b \in Nat \ {0} /\ a <= span * b
  <2>1. d[1] \in Nat /\ d[2] \in Nat \ {0} /\ d[2] - d[1] \in Nat
    BY DEF Fraction
  <2> HIDE DEF span
  <2>2. (d[2] - d[1]) * span \in Nat
    BY <1>1, <2>1
  <2>3. d[1] * span \in Nat
    BY <1>1, <2>1
  <2>4. (d[2] - d[1]) * span = span * d[2] - d[1] * span
    BY <1>1, <2>1
  <2>5. span * d[2] \in Int
    BY <1>1, <2>1
  <2> QED
    BY <2>1, <2>2, <2>3, <2>4, <2>5
<1>3. DecodeVariable(v, d) = DecodedInteger(v, d)
  BY Clamped, DecodeInteger
<1>4. DecodedInteger(v, d) = Min({v.high, v.low + m})
  BY Zenon DEF DecodedInteger
<1> HIDE DEF a, b
<1>5. m \in 0 .. span
  BY <1>1, <1>2, RoundedWithin
<1> HIDE DEF m
<1>6. v.low + m \in Int /\ v.low + m <= v.high
  BY <1>1, <1>5
<1>7. Min({v.high, v.low + m}) = v.low + m
  BY <1>1, <1>6, MinOfTwo
<1>8. DecodeVariable(v, d) = v.low + m
  BY <1>3, <1>4, <1>7
<1> QED
  BY <1>5, <1>8 DEF m, a, b, span

LEMMA IntegerWithin ==
    ASSUME NEW v, FreeTyped(v), v.kind = "integer", NEW c \in Fraction
    PROVE  DecodeVariable(v, c) \in v.low .. v.high
<1> DEFINE d == Clamp(c)
           m == Rounded(d[1] * (v.high - v.low), d[2])
<1>1. v.low \in Int /\ v.high \in Int
  BY DEF FreeTyped
<1>2. d \in Fraction /\ 0 <= d[1] /\ d[1] <= d[2]
  BY Clamped
<1>3. Clamp(d) = d
  <2> HIDE DEF d
  <2> QED
    BY <1>2, Clamped
<1>4. DecodeVariable(v, c) = DecodeVariable(v, d)
  BY <1>3, DecodeInteger
<1> HIDE DEF d
<1>5. m \in 0 .. v.high - v.low /\ DecodeVariable(v, d) = v.low + m
  BY <1>2, IntegerDecoded
<1> HIDE DEF m
<1> QED
  BY <1>1, <1>4, <1>5

\* An integer comes back from its coordinate when there are no more of them than floats.
LEMMA IntegerBack ==
    ASSUME NEW v, FreeTyped(v), v.kind = "integer", NEW value \in v.low .. v.high,
           v.high - v.low <= Precision
    PROVE  DecodeVariable(v, IntegerCoordinate(v, value)) = value
<1> DEFINE span == v.high - v.low
           k == value - v.low
           code == IntegerCoordinate(v, value)
           P == Precision
<1>1. v.low \in Int /\ v.high \in Int /\ value \in Int /\ span \in Nat /\ k \in 0 .. span
      /\ P \in Nat \ {0} /\ span <= P
  BY PrecisionAssumption DEF FreeTyped
<1>2. CASE span = 0
  <2>1. code = <<1, 2>>
    <3>1. v.high = v.low
      BY <1>1, <1>2
    <3> QED
      BY <3>1, Zenon DEF IntegerCoordinate
  <2>2. code \in Fraction
    BY <2>1 DEF Fraction
  <2> HIDE DEF code
  <2>3. DecodeVariable(v, code) \in v.low .. v.high
    BY <2>2, IntegerWithin
  <2>4. DecodeVariable(v, code) = value
    BY <1>1, <1>2, <2>3
  <2> QED
    BY <2>4 DEF code
<1>3. CASE span # 0
  <2>1. code = Float(k, span)
    <3>1. v.high # v.low
      BY <1>1, <1>3
    <3> QED
      BY <3>1, Zenon DEF IntegerCoordinate
  <2> DEFINE m == code[1]
             a == m * span
             x == k * P
             y == span
  <2>2. /\ code \in Fraction /\ code[2] = P /\ m \in Nat /\ m <= P
        /\ (2 * m - 1) * y <= 2 * x /\ 2 * x <= (2 * m + 1) * y
    <3>1. k \in Nat /\ span \in Nat \ {0} /\ k <= span
      BY <1>1, <1>3
    <3> HIDE DEF k, span, code
    <3> QED
      BY <2>1, <3>1, FloatIs
  <2> HIDE DEF code
  <2>3. Rounded(a, P) \in 0 .. span /\ DecodeVariable(v, code) = v.low + Rounded(a, P)
    <3>1. 0 <= code[1] /\ code[1] <= code[2]
      BY <1>1, <2>2
    <3> QED
      BY <2>2, <3>1, IntegerDecoded
  <2> HIDE DEF m, k, span
  <2>4. (2 * m - 1) * y = 2 * a - y /\ (2 * m + 1) * y = 2 * a + y /\ a \in Int /\ x \in Int
    BY <1>1, <2>2
  <2>5. (2 * k - 1) * P = 2 * x - P /\ (2 * k + 1) * P = 2 * x + P
    BY <1>1
  <2>6. Rounded(a, P) = k
    <3>1. CASE span < P
      <4>1. a \in Int /\ P \in Nat \ {0} /\ k \in Int /\ x \in Int /\ y \in Int /\ y < P
        BY <1>1, <2>4, <3>1
      <4>2. 2 * a - y <= 2 * x /\ 2 * x <= 2 * a + y
        BY <2>2, <2>4
      <4> HIDE DEF a, x, y, P
      <4>3. 2 * x - P < 2 * a /\ 2 * a < 2 * x + P
        BY <4>1, <4>2
      <4>4. (2 * k - 1) * P < 2 * a /\ 2 * a < (2 * k + 1) * P
        BY <2>5, <4>3
      <4> QED
        BY <4>1, <4>4, RoundedIs
    <3>2. CASE span = P
      <4>1. m = k
        <5>1. (2 * m - 1) * P <= 2 * (k * P) /\ 2 * (k * P) <= (2 * m + 1) * P
          BY <2>2, <3>2
        <5> DEFINE e == m - k
        <5>2. e \in Int /\ m = k + e
          BY <1>1, <2>2
        <5> HIDE DEF e, P
        <5>3. (2 * e - 1) * P <= 0 /\ 0 <= (2 * e + 1) * P
          BY <1>1, <5>1, <5>2
        <5>4. ~(e >= 1)
          <6> SUFFICES ASSUME e >= 1 PROVE FALSE
            OBVIOUS
          <6>1. (2 * e - 1) * P >= P
            BY <1>1, <5>2
          <6> QED
            BY <1>1, <5>2, <5>3, <6>1
        <5>5. ~(e <= -1)
          <6> SUFFICES ASSUME e <= -1 PROVE FALSE
            OBVIOUS
          <6>1. (2 * e + 1) * P <= -P
            BY <1>1, <5>2
          <6> QED
            BY <1>1, <5>2, <5>3, <6>1
        <5>6. e = 0
          BY <5>2, <5>4, <5>5
        <5> QED
          BY <1>1, <2>2, <5>2, <5>6
      <4>2. a = k * P
        BY <3>2, <4>1
      <4>3. Rounded(k * P, P) = k
        BY <1>1, RoundedExact
      <4> QED
        BY <4>2, <4>3
    <3> QED
      BY <1>1, <3>1, <3>2
  <2>7. DecodeVariable(v, code) = value
    BY <1>1, <2>3, <2>6 DEF k
  <2> QED
    BY <2>7 DEF code
<1> QED
  BY <1>2, <1>3

\* The coordinate of an integer is a fraction, whether or not it stands for it.
LEMMA IntegerCoordinated ==
    ASSUME NEW v, FreeTyped(v), v.kind = "integer", NEW value \in v.low .. v.high
    PROVE  IntegerCoordinate(v, value) \in Fraction
<1>1. v.low \in Int /\ v.high \in Int /\ value \in Int
  BY DEF FreeTyped
<1>2. CASE v.high = v.low
  <2>1. IntegerCoordinate(v, value) = <<1, 2>>
    BY <1>2, Zenon DEF IntegerCoordinate
  <2> QED
    BY <2>1 DEF Fraction
<1>3. CASE v.high # v.low
  <2> DEFINE k == value - v.low
             span == v.high - v.low
  <2>1. IntegerCoordinate(v, value) = Float(k, span)
    BY <1>3, Zenon DEF IntegerCoordinate
  <2>2. k \in Nat /\ span \in Nat \ {0} /\ k <= span
    BY <1>1, <1>3
  <2> HIDE DEF k, span
  <2> QED
    BY <2>1, <2>2, FloatIs
<1> QED
  BY <1>2, <1>3

\* Only an integer of a variable with more values than floats tell apart is refused.
LEMMA IntegerEncoded ==
    ASSUME NEW v, FreeTyped(v), v.kind = "integer", NEW value \in v.low .. v.high
    PROVE  \/ /\ EncodeVariable(v, value) = Refused
              /\ v.high - v.low > Precision
           \/ /\ EncodeVariable(v, value) \in Fraction
              /\ DecodeVariable(v, EncodeVariable(v, value)) = value
<1> DEFINE code == IntegerCoordinate(v, value)
<1>1. EncodeVariable(v, value) = IF DecodeVariable(v, code) = value THEN code ELSE Refused
  <2>1. v.kind # "choice"
    OBVIOUS
  <2> QED
    BY <2>1, Zenon DEF EncodeVariable
<1>2. code \in Fraction
  BY IntegerCoordinated
<1>3. CASE DecodeVariable(v, code) = value
  BY <1>1, <1>2, <1>3
<1>4. CASE DecodeVariable(v, code) # value
  <2>1. ~(v.high - v.low <= Precision)
    BY <1>4, IntegerBack
  <2>2. v.low \in Int /\ v.high \in Int /\ Precision \in Int
    BY PrecisionAssumption DEF FreeTyped
  <2>3. v.high - v.low > Precision
    BY <2>1, <2>2
  <2> QED
    BY <1>1, <1>4, <2>3
<1> QED
  BY <1>3, <1>4

LEMMA RefusedIsNone == Refused \notin Fraction
  BY DEF Refused, Fraction

(* A choice. *)

ChosenIndex(c, n) == Min({n, (c[1] * n) \div c[2] + 1})

LEMMA DecodeChoice ==
    ASSUME NEW v, v.kind = "choice", NEW c
    PROVE  DecodeVariable(v, c) =
             v.values[ChosenIndex(Clamp(c), Len(v.values))]
<1>1. v.kind # "real" /\ v.kind # "integer"
  OBVIOUS
<1> QED
  BY <1>1, Zenon DEF DecodeVariable, ChosenIndex

LEMMA ChosenIndexIs ==
    ASSUME NEW c \in Fraction, 0 <= c[1], c[1] <= c[2], NEW n \in Nat \ {0}
    PROVE  ChosenIndex(c, n) \in 1 .. n
<1> DEFINE a == c[1] * n
           b == c[2]
           q == a \div b
<1>1. c[1] \in Nat /\ b \in Nat \ {0}
  BY DEF Fraction
<1>2. a \in Nat
  BY <1>1
<1>3. ChosenIndex(c, n) = Min({n, q + 1})
  BY Zenon DEF ChosenIndex
<1> HIDE DEF a, b
<1>4. q \in Nat
  BY <1>1, <1>2
<1> HIDE DEF q
<1>5. Min({n, q + 1}) = IF n <= q + 1 THEN n ELSE q + 1
  BY <1>4, MinOfTwo
<1> QED
  BY <1>3, <1>4, <1>5

\* The middle of the i-th of n intervals.
LEMMA MiddleChosen ==
    ASSUME NEW n \in Nat \ {0}, NEW i \in 1 .. n
    PROVE  /\ <<2 * i - 1, 2 * n>> \in Fraction
           /\ Clamp(<<2 * i - 1, 2 * n>>) = <<2 * i - 1, 2 * n>>
           /\ ChosenIndex(<<2 * i - 1, 2 * n>>, n) = i
<1> DEFINE c == <<2 * i - 1, 2 * n>>
           a == (2 * i - 1) * n
           b == 2 * n
           q == a \div b
<1>1. c \in Fraction /\ c[1] = 2 * i - 1 /\ c[2] = 2 * n /\ 0 <= c[1] /\ c[1] <= c[2]
  BY DEF Fraction
<1>2. Clamp(c) = c
  BY <1>1, Clamped
<1>3. a \in Nat /\ b \in Nat \ {0}
  OBVIOUS
<1>4. a = (i - 1) * b + n /\ n < b
  OBVIOUS
<1>5. ChosenIndex(c, n) = Min({n, q + 1})
  BY <1>1, Zenon DEF ChosenIndex
<1> HIDE DEF a, b, c
<1>6. q = i - 1
  <2>1. i - 1 \in Int
    OBVIOUS
  <2> QED
    BY <1>3, <1>4, <2>1, QuotientIs
<1> HIDE DEF q
<1>7. Min({n, q + 1}) = i
  BY <1>6, MinOfTwo
<1> QED
  BY <1>1, <1>2, <1>5, <1>7 DEF c

\* The float nearest to the middle, if the intervals are more than a spacing wide.
LEMMA FloatChosen ==
    ASSUME NEW n \in Nat \ {0}, NEW i \in 1 .. n, n < Precision
    PROVE  LET c == Float(2 * i - 1, 2 * n)
           IN  c \in Fraction /\ Clamp(c) = c /\ ChosenIndex(c, n) = i
<1> DEFINE c == Float(2 * i - 1, 2 * n)
           P == Precision
           m == c[1]
           a == m * n
           x == i * P
           q == a \div P
<1>1. P \in Nat \ {0} /\ n < P
  BY PrecisionAssumption
<1>2. /\ c \in Fraction /\ c[2] = P /\ m \in Nat /\ m <= P
      /\ (2 * m - 1) * (2 * n) <= 2 * ((2 * i - 1) * P)
      /\ 2 * ((2 * i - 1) * P) <= (2 * m + 1) * (2 * n)
  <2>1. 2 * i - 1 \in Nat /\ 2 * n \in Nat \ {0} /\ 2 * i - 1 <= 2 * n
    OBVIOUS
  <2> QED
    BY <2>1, FloatIs
<1> HIDE DEF c
<1>3. Clamp(c) = c
  <2>1. 0 <= c[1] /\ c[1] <= c[2]
    BY <1>1, <1>2
  <2> QED
    BY <1>2, <2>1, Clamped
<1>4. ChosenIndex(c, n) = Min({n, q + 1})
  BY <1>2, Zenon DEF ChosenIndex
<1> HIDE DEF m, P
<1>5. a \in Nat /\ x \in Int
  BY <1>1, <1>2
<1>6. /\ (2 * m - 1) * (2 * n) = 4 * a - 2 * n
      /\ (2 * m + 1) * (2 * n) = 4 * a + 2 * n
      /\ 2 * ((2 * i - 1) * P) = 4 * x - 2 * P
  BY <1>1, <1>2
<1>7. (i - 1) * P = x - P
  BY <1>1
<1> HIDE DEF a, x
<1>8. 2 * a < 2 * x /\ 2 * x - 2 * P < 2 * a
  <2>1. 4 * a - 2 * n <= 4 * x - 2 * P /\ 4 * x - 2 * P <= 4 * a + 2 * n
    BY <1>2, <1>6
  <2> QED
    BY <1>1, <1>5, <2>1
<1>9. q = i - 1
  <2> DEFINE r == a - (x - P)
  <2>1. r \in Nat /\ r < P /\ a = (i - 1) * P + r
    BY <1>1, <1>5, <1>7, <1>8
  <2> HIDE DEF r
  <2>2. i - 1 \in Int /\ a \in Int
    BY <1>5
  <2> QED
    BY <1>1, <2>1, <2>2, QuotientIs
<1> HIDE DEF q
<1>10. Min({n, q + 1}) = i
  BY <1>9, MinOfTwo
<1> QED
  BY <1>2, <1>3, <1>4, <1>10 DEF c

LEMMA ChoiceWithin ==
    ASSUME NEW v, FreeTyped(v), v.kind = "choice", NEW c \in Fraction
    PROVE  DecodeVariable(v, c) \in ToSet(v.values)
<1> DEFINE n == Len(v.values)
           k == ChosenIndex(Clamp(c), n)
<1>1. v.values \in Seq(Int) /\ v.values # <<>>
  BY DEF FreeTyped
<1>2. n \in Nat \ {0} /\ DOMAIN v.values = 1 .. n
  BY <1>1
<1>3. DecodeVariable(v, c) = v.values[k]
  BY DecodeChoice
<1>4. k \in 1 .. n
  <2> HIDE DEF n
  <2> QED
    BY <1>2, Clamped, ChosenIndexIs
<1> HIDE DEF k
<1> QED
  BY <1>2, <1>3, <1>4, Zenon DEF ToSet

\* A choice comes back from its coordinate when there are fewer of them than floats.
LEMMA ChoiceEncoded ==
    ASSUME NEW v, FreeTyped(v), v.kind = "choice", NEW value \in ToSet(v.values)
    PROVE  /\ EncodeVariable(v, value) \in Fraction
           /\ Len(v.values) < Precision => DecodeVariable(v, EncodeVariable(v, value)) = value
<1> DEFINE n == Len(v.values)
           j == CHOOSE i \in DOMAIN v.values : v.values[i] = value
           code == Float(2 * j - 1, 2 * n)
<1>1. v.values \in Seq(Int) /\ v.values # <<>>
  BY DEF FreeTyped
<1>2. n \in Nat \ {0} /\ DOMAIN v.values = 1 .. n
  BY <1>1
<1>3. EncodeVariable(v, value) = code
  BY Zenon DEF EncodeVariable, EncodeChoice
<1>4. j \in 1 .. n /\ v.values[j] = value
  <2>1. \E i \in DOMAIN v.values : v.values[i] = value
    BY Zenon DEF ToSet
  <2>2. j \in DOMAIN v.values /\ v.values[j] = value
    BY <2>1, Zenon
  <2> QED
    BY <1>2, <2>2, Zenon
<1> HIDE DEF n, j
<1>5. code \in Fraction
  <2>1. 2 * j - 1 \in Nat /\ 2 * n \in Nat \ {0} /\ 2 * j - 1 <= 2 * n
    BY <1>2, <1>4
  <2> QED
    BY <2>1, FloatIs
<1>6. ASSUME n < Precision PROVE DecodeVariable(v, code) = value
  <2>1. Clamp(code) = code /\ ChosenIndex(code, n) = j
    BY <1>2, <1>4, <1>6, FloatChosen
  <2> HIDE DEF code
  <2>2. DecodeVariable(v, code) = v.values[ChosenIndex(Clamp(code), n)]
    BY DecodeChoice DEF n
  <2> QED
    BY <1>4, <2>1, <2>2, Zenon
<1> QED
  BY <1>3, <1>5, <1>6 DEF n

\* What a coordinate decodes to is within bounds.
LEMMA Within ==
    ASSUME NEW v, FreeTyped(v), NEW c \in Fraction
    PROVE  WithinBounds(v, DecodeVariable(v, c))
<1>1. CASE v.kind = "real"
  BY <1>1, RealWithin, Zenon DEF WithinBounds
<1>2. CASE v.kind = "integer"
  BY <1>2, IntegerWithin, Zenon DEF WithinBounds
<1>3. CASE v.kind = "choice"
  BY <1>3, ChoiceWithin, Zenon DEF WithinBounds
<1> QED
  BY <1>1, <1>2, <1>3 DEF FreeTyped

LEMMA EncodedFraction ==
    ASSUME NEW v, FreeTyped(v), NEW value, WithinBounds(v, value)
    PROVE  EncodeVariable(v, value) \in Fraction \/ EncodeVariable(v, value) = Refused
<1>1. CASE v.kind = "real"
  <2> DEFINE k == value - v.low
             span == v.high - v.low
  <2>1. v.kind # "choice" /\ v.kind # "integer"
    BY <1>1
  <2>2. v.low \in Int /\ v.high \in Int /\ v.low < v.high
    BY <1>1 DEF FreeTyped
  <2>3. value \in v.low .. v.high
    BY <2>1, Zenon DEF WithinBounds
  <2>4. k \in Nat /\ span \in Nat \ {0} /\ k <= span
    BY <2>2, <2>3
  <2>5. EncodeVariable(v, value) = Float(k, span)
    BY <1>1, <2>1, Zenon DEF EncodeVariable
  <2> HIDE DEF k, span
  <2> QED
    BY <2>4, <2>5, FloatIs
<1>2. CASE v.kind = "integer"
  <2>1. v.kind # "choice"
    BY <1>2
  <2>2. value \in v.low .. v.high
    BY <2>1, Zenon DEF WithinBounds
  <2> QED
    BY <1>2, <2>2, IntegerEncoded
<1>3. CASE v.kind = "choice"
  <2>1. value \in ToSet(v.values)
    BY <1>3, Zenon DEF WithinBounds
  <2> QED
    BY <1>3, <2>1, ChoiceEncoded
<1> QED
  BY <1>1, <1>2, <1>3 DEF FreeTyped
-----------------------------------------------------------------------------
(* The variables of an accepted document.                                  *)

LinkedTyped(v) ==
    v.kind = "linked" /\ v.source \in STRING /\ v.factor \in Int /\ v.offset \in Int

\* The names that a walk along the links comes to, one round after the other.
Walk(w, vs, name) ==
    /\ w[0] = name
    /\ \A k \in 1 .. Len(vs) : w[k] = Source(vs, w[k - 1])

\* The walk from every linked variable ends at a free one.
Resolved(vs) ==
    \A j \in 1 .. Len(vs) : vs[j].kind = "linked" =>
        \E w \in [0 .. Len(vs) -> STRING] :
            /\ Walk(w, vs, vs[j].name)
            /\ w[Len(vs)] \in Names(vs) /\ Named(vs, w[Len(vs)]).kind # "linked"

Parsed(vs) ==
    /\ vs \in Seq({Variable(table) : table \in Tables})
    /\ DistinctNames(vs)
    /\ \A j \in 1 .. Len(vs) : /\ vs[j].name \in STRING
                               /\ FreeTyped(vs[j]) \/ LinkedTyped(vs[j])
    /\ Resolved(vs)

\* Every kind of table, taken apart.
LEMMA TableKinds ==
    ASSUME NEW t \in Tables
    PROVE  /\ t.name \in STRING
           /\ \/ /\ t.kind = "real" /\ t.low \in Int /\ t.high \in Int /\ t.quantum \in Int
                 /\ t.default \in Seq(Int)
              \/ /\ t.kind = "integer" /\ t.low \in Int /\ t.high \in Int
                 /\ t.default \in Seq(Int)
              \/ /\ t.kind = "choice" /\ t.values \in Seq(Int) /\ t.default \in Seq(Int)
              \/ LinkedTyped(t)
<1>1. CASE t \in [kind : {"real"}, name : STRING, low : Int, high : Int, quantum : Int, default : Seq(Int)]
  BY <1>1
<1>2. CASE t \in [kind : {"integer"}, name : STRING, low : Int, high : Int, default : Seq(Int)]
  BY <1>2
<1>3. CASE t \in [kind : {"choice"}, name : STRING, values : Seq(Int), numeric : BOOLEAN, default : Seq(Int)]
  BY <1>3
<1>4. CASE t \in [kind : {"linked"}, name : STRING, source : STRING, factor : Int, offset : Int]
  BY <1>4 DEF LinkedTyped
<1> QED
  BY <1>1, <1>2, <1>3, <1>4 DEF Tables

\* Only the default of a free variable's table is replaced.
LEMMA VariableFields ==
    ASSUME NEW t \in Tables
    PROVE  /\ Variable(t).kind = t.kind /\ Variable(t).name = t.name
           /\ t.kind = "linked" => Variable(t) = t
           /\ t.kind # "linked" =>
                Variable(t).default = IF t.default = <<>> THEN ImplicitDefault(t) ELSE t.default[1]
           /\ t.kind \in {"real", "integer"} => Variable(t).low = t.low /\ Variable(t).high = t.high
           /\ t.kind = "real" => Variable(t).quantum = t.quantum
           /\ t.kind = "choice" => Variable(t).values = t.values
<1> DEFINE d == IF t.default = <<>> THEN ImplicitDefault(t) ELSE t.default[1]
           u == [t EXCEPT !.default = d]
<1>1. Variable(t) = IF t.kind = "linked" THEN t ELSE u
  BY Zenon DEF Variable
<1>2. CASE t.kind = "linked"
  BY <1>1, <1>2
<1>3. CASE t \in [kind : {"real"}, name : STRING, low : Int, high : Int, quantum : Int, default : Seq(Int)]
  <2> HIDE DEF d
  <2>1. u.kind = t.kind /\ u.name = t.name /\ u.default = d /\ u.low = t.low /\ u.high = t.high
        /\ u.quantum = t.quantum /\ t.kind = "real"
    BY <1>3
  <2> HIDE DEF u
  <2> QED
    BY <1>1, <2>1 DEF d
<1>4. CASE t \in [kind : {"integer"}, name : STRING, low : Int, high : Int, default : Seq(Int)]
  <2> HIDE DEF d
  <2>1. u.kind = t.kind /\ u.name = t.name /\ u.default = d /\ u.low = t.low /\ u.high = t.high
        /\ t.kind = "integer"
    BY <1>4
  <2> HIDE DEF u
  <2> QED
    BY <1>1, <2>1 DEF d
<1>5. CASE t \in [kind : {"choice"}, name : STRING, values : Seq(Int), numeric : BOOLEAN, default : Seq(Int)]
  <2> HIDE DEF d
  <2>1. u.kind = t.kind /\ u.name = t.name /\ u.default = d /\ u.values = t.values
        /\ t.kind = "choice"
    BY <1>5
  <2> HIDE DEF u
  <2> QED
    BY <1>1, <2>1 DEF d
<1>6. CASE t \in [kind : {"linked"}, name : STRING, source : STRING, factor : Int, offset : Int]
  BY <1>2, <1>6
<1> QED
  BY <1>3, <1>4, <1>5, <1>6 DEF Tables

LEMMA FreeVariableTyped ==
    ASSUME NEW t \in Tables, WellFormed(t), t.kind # "linked"
    PROVE  FreeTyped(Variable(t))
<1> DEFINE v == Variable(t)
<1> SUFFICES FreeTyped(v)
  OBVIOUS
<1>1. CASE t.kind = "real"
  <2>1. t.low \in Int /\ t.high \in Int /\ t.quantum \in Int /\ t.default \in Seq(Int)
    BY <1>1, TableKinds DEF LinkedTyped
  <2>2. /\ t.low < t.high /\ t.quantum >= 0
        /\ \A i \in DOMAIN t.default : t.default[i] \in t.low .. t.high
    BY <1>1, Zenon DEF WellFormed
  <2>3. /\ v.kind = "real" /\ v.low = t.low /\ v.high = t.high /\ v.quantum = t.quantum
        /\ v.default = IF t.default = <<>> THEN ImplicitDefault(t) ELSE t.default[1]
    BY <1>1, VariableFields
  <2> HIDE DEF v
  <2>4. CASE t.default = <<>>
    <3> DEFINE m == Rounded(t.low + t.high, 2)
    <3>1. t.low + t.high \in Int /\ 2 \in Nat \ {0}
      BY <2>1
    <3>2. m \in Int /\ (2 * m - 1) * 2 <= 2 * (t.low + t.high)
          /\ 2 * (t.low + t.high) <= (2 * m + 1) * 2
      <4> DEFINE a == t.low + t.high
      <4> HIDE DEF a
      <4>1. Rounded(a, 2) \in Int /\ (2 * Rounded(a, 2) - 1) * 2 <= 2 * a
            /\ 2 * a <= (2 * Rounded(a, 2) + 1) * 2
        BY <3>1, RoundedNear DEF a
      <4> QED
        BY <4>1 DEF a
    <3>3. v.default = m
      BY <1>1, <2>3, <2>4, Zenon DEF ImplicitDefault
    <3> HIDE DEF m
    <3> QED
      BY <2>1, <2>2, <2>3, <3>2, <3>3 DEF FreeTyped
  <2>5. CASE t.default # <<>>
    <3>1. 1 \in DOMAIN t.default
      BY <2>1, <2>5
    <3>2. v.default \in t.low .. t.high
      BY <2>2, <2>3, <2>5, <3>1
    <3> QED
      BY <2>1, <2>2, <2>3, <3>2 DEF FreeTyped
  <2> QED
    BY <2>4, <2>5
<1>2. CASE t.kind = "integer"
  <2>1. t.low \in Int /\ t.high \in Int /\ t.default \in Seq(Int)
    BY <1>2, TableKinds DEF LinkedTyped
  <2>0. t.kind # "real"
    BY <1>2
  <2>2. /\ t.low <= t.high
        /\ \A i \in DOMAIN t.default : t.default[i] \in t.low .. t.high
    BY <1>2, <2>0, Zenon DEF WellFormed
  <2>3. /\ v.kind = "integer" /\ v.low = t.low /\ v.high = t.high
        /\ v.default = IF t.default = <<>> THEN ImplicitDefault(t) ELSE t.default[1]
    BY <1>2, VariableFields
  <2> HIDE DEF v
  <2>4. CASE t.default = <<>>
    <3>1. v.default = (t.low + t.high) \div 2
      BY <1>2, <2>0, <2>3, <2>4, Zenon DEF ImplicitDefault
    <3>2. (t.low + t.high) \div 2 \in t.low .. t.high
      BY <2>1, <2>2
    <3> QED
      BY <2>1, <2>2, <2>3, <3>1, <3>2 DEF FreeTyped
  <2>5. CASE t.default # <<>>
    <3>1. 1 \in DOMAIN t.default
      BY <2>1, <2>5
    <3>2. v.default \in t.low .. t.high
      BY <2>2, <2>3, <2>5, <3>1
    <3> QED
      BY <2>1, <2>2, <2>3, <3>2 DEF FreeTyped
  <2> QED
    BY <2>4, <2>5
<1>3. CASE t.kind = "choice"
  <2>1. t.values \in Seq(Int) /\ t.default \in Seq(Int)
    BY <1>3, TableKinds DEF LinkedTyped
  <2>0. t.kind # "real" /\ t.kind # "integer"
    BY <1>3
  <2>2. /\ t.values # <<>> /\ IsInjective(t.values)
        /\ ToSet(t.default) \subseteq ToSet(t.values)
    BY <1>3, <2>0, Zenon DEF WellFormed
  <2>3. /\ v.kind = "choice" /\ v.values = t.values
        /\ v.default = IF t.default = <<>> THEN ImplicitDefault(t) ELSE t.default[1]
    BY <1>3, VariableFields
  <2> HIDE DEF v
  <2>4. v.default \in ToSet(v.values)
    <3>1. CASE t.default = <<>>
      <4>1. v.default = t.values[1]
        BY <1>3, <2>0, <2>3, <3>1, Zenon DEF ImplicitDefault
      <4>2. 1 \in DOMAIN t.values
        BY <2>1, <2>2
      <4> QED
        BY <2>3, <4>1, <4>2, Zenon DEF ToSet
    <3>2. CASE t.default # <<>>
      <4>1. 1 \in DOMAIN t.default
        BY <2>1, <3>2
      <4>2. t.default[1] \in ToSet(t.default)
        BY <4>1, Zenon DEF ToSet
      <4> QED
        BY <2>2, <2>3, <3>2, <4>2
    <3> QED
      BY <3>1, <3>2
  <2> QED
    BY <2>1, <2>2, <2>3, <2>4 DEF FreeTyped
<1> QED
  BY <1>1, <1>2, <1>3, TableKinds DEF LinkedTyped


LEMMA NamedIs ==
    ASSUME NEW vs, DistinctNames(vs), DOMAIN vs = 1 .. Len(vs), NEW j \in 1 .. Len(vs)
    PROVE  Named(vs, vs[j].name) = vs[j] /\ vs[j].name \in Names(vs)
<1> DEFINE i == CHOOSE i \in DOMAIN vs : vs[i].name = vs[j].name
<1>1. i \in DOMAIN vs /\ vs[i].name = vs[j].name
  <2>1. \E k \in DOMAIN vs : vs[k].name = vs[j].name
    OBVIOUS
  <2> QED
    BY <2>1, Zenon
<1>2. Named(vs, vs[j].name) = vs[i]
  BY Zenon DEF Named
<1>3. i = j
  <2> HIDE DEF i
  <2> QED
    BY <1>1 DEF DistinctNames
<1>4. vs[j].name \in Names(vs)
  BY Zenon DEF Names
<1> QED
  BY <1>2, <1>3, <1>4

\* _check_links() walks the links round by round.
LEMMA LeadsIs ==
    ASSUME NEW vs, Len(vs) \in Nat, \A x \in STRING : Source(vs, x) \in STRING, NEW name \in STRING
    PROVE  \E w \in [0 .. Len(vs) -> STRING] : Walk(w, vs, name) /\ Leads(vs, name) = w[Len(vs)]
<1> DEFINE n == Len(vs)
           G == [p \in (1 .. n) \X STRING |-> Source(vs, p[2])]
           Looped(it) == it = [k \in 0 .. n |-> IF k = 0 THEN name ELSE Source(vs, it[k - 1])]
           chosen == CHOOSE it : Looped(it)
<1>1. Leads(vs, name) = chosen[n]
  BY Zenon DEF Leads
<1>2. G \in [(1 .. n) \X STRING -> STRING]
  OBVIOUS
<1>3. PICK it \in [0 .. n -> STRING] : Recurs(it, n, name, G)
  <2> HIDE DEF G
  <2> QED
    BY <1>2, RecursionExists
<1>4. Looped(it)
  <2>1. ASSUME NEW k \in 0 .. n, k # 0 PROVE G[<<k, it[k - 1]>>] = Source(vs, it[k - 1])
    <3> DEFINE p == <<k, it[k - 1]>>
    <3>1. k - 1 \in 0 .. n /\ k \in 1 .. n
      BY <2>1
    <3>2. p \in (1 .. n) \X STRING /\ p[2] = it[k - 1]
      BY <3>1
    <3> HIDE DEF p
    <3>3. G[p] = Source(vs, p[2])
      BY <3>2
    <3> HIDE DEF G
    <3> QED
      BY <3>2, <3>3, Zenon DEF p
  <2> HIDE DEF G
  <2> DEFINE left == [k \in 0 .. n |-> IF k = 0 THEN name ELSE G[<<k, it[k - 1]>>]]
             right == [k \in 0 .. n |-> IF k = 0 THEN name ELSE Source(vs, it[k - 1])]
  <2>2. left = right
    BY <2>1, Zenon
  <2>3. it = left
    BY <1>3, Zenon DEF Recurs
  <2> QED
    BY <2>2, <2>3, Zenon
<1>5. Looped(chosen)
  BY <1>4, Zenon
<1> HIDE DEF chosen, G
<1>6. \A k \in 0 .. n : chosen[k] = IF k = 0 THEN name ELSE Source(vs, chosen[k - 1])
  BY <1>5, Zenon
<1>7. 0 \in 0 .. n /\ \A k \in 1 .. n : k \in 0 .. n /\ k # 0 /\ k - 1 \in 0 .. n
  OBVIOUS
<1>8. Walk(chosen, vs, name)
  BY <1>6, <1>7, Zenon DEF Walk
<1>9. chosen \in [0 .. n -> STRING]
  <2> DEFINE good == {k \in 0 .. n : chosen[k] \in STRING}
  <2>1. 0 \in good
    BY <1>6, <1>7
  <2>2. ASSUME NEW k \in 1 .. n, k - 1 \in good PROVE k \in good
    BY <1>6, <1>7, <2>2
  <2>3. \A k \in 0 .. n : k \in good
    <3> HIDE DEF good
    <3> QED
      BY <2>1, <2>2, UpTo
  <2>4. chosen = [k \in 0 .. n |-> chosen[k]]
    BY <1>5
  <2> QED
    BY <2>3, <2>4
<1> QED
  BY <1>1, <1>8, <1>9

\* The links of the variables are those of their tables.
LEMMA SameLinks ==
    ASSUME NEW ts \in Seq(Tables), NEW vs, vs = [i \in DOMAIN ts |-> Variable(ts[i])]
    PROVE  /\ Len(vs) = Len(ts) /\ DOMAIN vs = 1 .. Len(vs) /\ Names(vs) = Names(ts)
           /\ Names(ts) \subseteq STRING
           /\ \A x \in Names(ts) : /\ Named(ts, x) \in Tables
                                   /\ Named(vs, x) = Variable(Named(ts, x))
           /\ \A x \in STRING : Source(vs, x) = Source(ts, x) /\ Source(ts, x) \in STRING
<1>0. DOMAIN vs = DOMAIN ts /\ Len(vs) = Len(ts) /\ DOMAIN vs = 1 .. Len(vs)
  OBVIOUS
<1>1. \A i \in DOMAIN ts : ts[i] \in Tables /\ vs[i] = Variable(ts[i])
  OBVIOUS
<1>2. \A i \in DOMAIN ts : vs[i].name = ts[i].name /\ ts[i].name \in STRING
  BY <1>1, VariableFields, TableKinds
<1>3. Names(vs) = Names(ts)
  BY <1>0, <1>2, Zenon DEF Names
<1>4. Names(ts) \subseteq STRING
  BY <1>2, Zenon DEF Names
<1>5. ASSUME NEW x \in Names(ts)
      PROVE  Named(ts, x) \in Tables /\ Named(vs, x) = Variable(Named(ts, x))
  <2> DEFINE i == CHOOSE i \in DOMAIN ts : ts[i].name = x
             j == CHOOSE l \in DOMAIN vs : vs[l].name = x
  <2>1. \E k \in DOMAIN ts : ts[k].name = x
    BY Zenon DEF Names
  <2>2. i \in DOMAIN ts
    BY <2>1, Zenon
  <2>3. i = j
    BY <1>0, <1>2, Zenon
  <2>4. Named(ts, x) = ts[i] /\ Named(vs, x) = vs[j]
    BY Zenon DEF Named
  <2> HIDE DEF i, j
  <2> QED
    BY <1>1, <2>2, <2>3, <2>4, Zenon
<1>6. ASSUME NEW x \in STRING PROVE Source(vs, x) = Source(ts, x) /\ Source(ts, x) \in STRING
  <2>1. CASE x \in Names(ts) /\ Named(ts, x).kind = "linked"
    <3>1. Named(vs, x) = Named(ts, x) /\ LinkedTyped(Named(ts, x))
      BY <1>5, <2>1, VariableFields, TableKinds
    <3> QED
      BY <1>3, <2>1, <3>1, Zenon DEF Source, LinkedTyped
  <2>2. CASE x \in Names(ts) /\ Named(ts, x).kind # "linked"
    <3>1. Named(vs, x).kind # "linked"
      BY <1>5, <2>2, VariableFields
    <3> QED
      BY <1>3, <2>2, <3>1, Zenon DEF Source
  <2>3. CASE x \notin Names(ts)
    BY <1>3, <2>3, Zenon DEF Source
  <2> QED
    BY <2>1, <2>2, <2>3
<1> QED
  BY <1>0, <1>3, <1>4, <1>5, <1>6

LEMMA DocumentParsed ==
    ASSUME NEW ts \in Seq(Tables), Accepted(ts),
           NEW vs, vs = [i \in DOMAIN ts |-> Variable(ts[i])]
    PROVE  Parsed(vs)
<1> DEFINE V == {Variable(table) : table \in Tables}
           n == Len(vs)
<1>0. /\ Len(vs) = Len(ts) /\ DOMAIN vs = 1 .. Len(vs) /\ Names(vs) = Names(ts)
      /\ Names(ts) \subseteq STRING
      /\ \A x \in Names(ts) : /\ Named(ts, x) \in Tables
                              /\ Named(vs, x) = Variable(Named(ts, x))
      /\ \A x \in STRING : Source(vs, x) = Source(ts, x) /\ Source(ts, x) \in STRING
  BY SameLinks
<1>1. n \in Nat /\ DOMAIN ts = 1 .. n
  BY <1>0
<1>2. \A i \in 1 .. n : ts[i] \in Tables /\ vs[i] = Variable(ts[i])
  BY <1>1
<1>3. vs \in Seq(V)
  <2>1. \A i \in 1 .. n : Variable(ts[i]) \in V
    BY <1>2
  <2> HIDE DEF V
  <2>2. vs = [i \in 1 .. n |-> Variable(ts[i])]
    BY <1>1
  <2> HIDE DEF n
  <2> QED
    BY <1>1, <2>1, <2>2
<1>4. DistinctNames(vs)
  <2>1. \A i, j \in DOMAIN ts : ts[i].name = ts[j].name => i = j
    BY DEF Accepted
  <2>2. \A i \in 1 .. n : vs[i].name = ts[i].name
    BY <1>2, VariableFields
  <2> QED
    <3>1. ASSUME NEW i \in 1 .. n, NEW j \in 1 .. n, vs[i].name = vs[j].name PROVE i = j
      <4>1. i \in DOMAIN ts /\ j \in DOMAIN ts
        BY <1>1
      <4>2. ts[i].name = ts[j].name
        BY <2>2, <3>1
      <4> QED
        BY <2>1, <4>1, <4>2
    <3> QED
      BY <3>1 DEF DistinctNames
<1>5. ASSUME NEW j \in 1 .. n
      PROVE  vs[j].name \in STRING /\ (FreeTyped(vs[j]) \/ LinkedTyped(vs[j]))
  <2>1. WellFormed(ts[j])
    BY <1>1 DEF Accepted
  <2>2. vs[j].name = ts[j].name /\ ts[j].name \in STRING
    BY <1>2, VariableFields, TableKinds
  <2>3. CASE ts[j].kind = "linked"
    <3>1. vs[j] = ts[j]
      BY <1>2, <2>3, VariableFields
    <3>2. LinkedTyped(ts[j])
      BY <1>2, <2>3, TableKinds
    <3> QED
      BY <2>2, <3>1, <3>2
  <2>4. CASE ts[j].kind # "linked"
    BY <1>2, <2>1, <2>2, <2>4, FreeVariableTyped
  <2> QED
    BY <2>3, <2>4
<1>6. ASSUME NEW j \in 1 .. n, vs[j].kind = "linked"
      PROVE  \E w \in [0 .. n -> STRING] :
                /\ Walk(w, vs, vs[j].name)
                /\ w[n] \in Names(vs) /\ Named(vs, w[n]).kind # "linked"
  <2>1. ts[j].kind = "linked" /\ ts[j].name = vs[j].name /\ ts[j].name \in STRING
    BY <1>2, <1>6, VariableFields, TableKinds
  <2>2. Len(ts) \in Nat /\ \A x \in STRING : Source(ts, x) \in STRING
    BY <1>0, <1>1
  <2> DEFINE name == ts[j].name
  <2> HIDE DEF name
  <2>3. name \in STRING
    BY <2>1 DEF name
  <2>4. PICK w \in [0 .. Len(ts) -> STRING] :
           Walk(w, ts, name) /\ Leads(ts, name) = w[Len(ts)]
    BY <2>2, <2>3, LeadsIs
  <2>5. w \in [0 .. n -> STRING] /\ Leads(ts, name) = w[n]
    BY <1>0, <2>4
  <2>6. Leads(ts, name) \in Names(ts) /\ Named(ts, Leads(ts, name)).kind # "linked"
    <3>1. j \in DOMAIN ts
      BY <1>1
    <3> QED
      BY <2>1, <3>1, Zenon DEF Accepted, CheckLinks, name
  <2>7. Named(vs, w[n]).kind # "linked"
    BY <1>0, <2>5, <2>6, VariableFields
  <2>8. Walk(w, vs, name)
    <3>1. w[0] = name /\ \A k \in 1 .. n : w[k] = Source(ts, w[k - 1])
      BY <1>0, <2>4 DEF Walk
    <3>2. \A k \in 1 .. n : k - 1 \in 0 .. n
      BY <1>1
    <3>3. \A k \in 1 .. n : w[k - 1] \in STRING
      BY <2>5, <3>2
    <3>4. \A k \in 1 .. n : w[k] = Source(vs, w[k - 1])
      BY <1>0, <3>1, <3>3
    <3> QED
      BY <3>1, <3>4 DEF Walk
  <2>9. name = vs[j].name
    BY <2>1 DEF name
  <2> QED
    BY <1>0, <2>5, <2>6, <2>7, <2>8, <2>9
<1>7. Resolved(vs)
  BY <1>6 DEF Resolved
<1> QED
  BY <1>3, <1>4, <1>5, <1>7 DEF Parsed
-----------------------------------------------------------------------------
(* The values of linked variables.                                         *)

\* One round of resolving: each link takes the value that its source had.
Round(vs, free, f) ==
    [name \in Names(vs) |->
        LET v == Named(vs, name)
        IN  IF v.kind = "linked" THEN f[v.source] * v.factor + v.offset ELSE free[name]]

\* Where a link of the document leads is a variable of the document.
LEMMA SourceNamed ==
    ASSUME NEW vs, Parsed(vs), NEW name \in Names(vs)
    PROVE  /\ FreeTyped(Named(vs, name)) \/ LinkedTyped(Named(vs, name))
           /\ Named(vs, name).kind = "linked" =>
                /\ LinkedTyped(Named(vs, name)) /\ Named(vs, name).source \in Names(vs)
                /\ \E w \in [0 .. Len(vs) -> STRING] :
                      /\ Walk(w, vs, name)
                      /\ w[Len(vs)] \in Names(vs) /\ Named(vs, w[Len(vs)]).kind # "linked"
<1> DEFINE n == Len(vs)
<1>1. n \in Nat /\ DOMAIN vs = 1 .. n /\ DistinctNames(vs)
  BY DEF Parsed
<1>2. PICK j \in 1 .. n : vs[j].name = name
  BY <1>1, Zenon DEF Names
<1>3. Named(vs, name) = vs[j]
  BY <1>1, <1>2, NamedIs
<1>4. FreeTyped(vs[j]) \/ LinkedTyped(vs[j])
  BY DEF Parsed
<1>5. FreeTyped(vs[j]) => vs[j].kind # "linked"
  BY DEF FreeTyped
<1>6. ASSUME vs[j].kind = "linked"
      PROVE  /\ vs[j].source \in Names(vs)
             /\ \E w \in [0 .. n -> STRING] :
                   /\ Walk(w, vs, name)
                   /\ w[n] \in Names(vs) /\ Named(vs, w[n]).kind # "linked"
  <2>1. PICK w \in [0 .. n -> STRING] :
           /\ Walk(w, vs, name)
           /\ w[n] \in Names(vs) /\ Named(vs, w[n]).kind # "linked"
    BY <1>2, <1>6 DEF Parsed, Resolved
  <2>2. w[0] = name /\ \A k \in 1 .. n : w[k] = Source(vs, w[k - 1])
    BY <2>1 DEF Walk
  <2> DEFINE source == vs[j].source
  <2>3. Source(vs, name) = source
    BY <1>3, <1>6, Zenon DEF Source
  <2>4. source \in Names(vs)
    <3> SUFFICES ASSUME source \notin Names(vs) PROVE FALSE
      OBVIOUS
    <3> HIDE DEF source
    <3>1. Source(vs, source) = source
      BY Zenon DEF Source
    <3> DEFINE stays == {k \in 0 .. n : k = 0 \/ w[k] = source}
    <3>2. 0 \in stays
      BY <1>1
    <3>3. ASSUME NEW k \in 1 .. n, k - 1 \in stays PROVE k \in stays
      <4>1. w[k] = Source(vs, w[k - 1]) /\ k \in 0 .. n
        BY <2>2
      <4>2. w[k - 1] = source \/ w[k - 1] = name
        BY <2>2, <3>3
      <4> QED
        BY <2>3, <3>1, <4>1, <4>2
    <3>4. \A k \in 0 .. n : k \in stays
      <4> HIDE DEF stays
      <4> QED
        BY <1>1, <3>2, <3>3, UpTo
    <3>5. n \in 0 .. n /\ n # 0
      BY <1>1, <1>2
    <3>6. w[n] = source
      BY <3>4, <3>5
    <3> QED
      BY <2>1, <3>6
  <2> QED
    BY <2>1, <2>4
<1> QED
  BY <1>3, <1>4, <1>5, <1>6

\* After as many rounds as there are variables nothing changes any more.
LEMMA LinkedExists ==
    ASSUME NEW vs, Parsed(vs), NEW free,
           \A name \in Names(vs) : Named(vs, name).kind # "linked" => free[name] \in Int
    PROVE  \E f \in [Names(vs) -> Int] : f = Round(vs, free, f)
<1> DEFINE n == Len(vs)
           m == n + 1
           N == Names(vs)
           X == [N -> Int]
           base == [name \in N |-> IF Named(vs, name).kind = "linked" THEN 0 ELSE free[name]]
           G == [p \in (1 .. m) \X X |-> Round(vs, free, p[2])]
<1>1. n \in Nat /\ m \in Nat
  BY DEF Parsed
<1>2. base \in X
  OBVIOUS
<1>3. ASSUME NEW f \in X PROVE Round(vs, free, f) \in X
  <2>1. ASSUME NEW name \in N, Named(vs, name).kind = "linked"
        PROVE  f[Named(vs, name).source] * Named(vs, name).factor + Named(vs, name).offset \in Int
    <3>1. LinkedTyped(Named(vs, name)) /\ Named(vs, name).source \in N
      BY <2>1, SourceNamed
    <3>2. f[Named(vs, name).source] \in Int
      BY <3>1
    <3> QED
      BY <3>1, <3>2 DEF LinkedTyped
  <2> HIDE DEF N
  <2>2. \A name \in N : (IF Named(vs, name).kind = "linked"
                         THEN f[Named(vs, name).source] * Named(vs, name).factor + Named(vs, name).offset
                         ELSE free[name]) \in Int
    BY <2>1, Zenon DEF N
  <2> QED
    BY <2>2, Zenon DEF Round, N
<1>4. G \in [(1 .. m) \X X -> X]
  <2> HIDE DEF X
  <2>1. \A p \in (1 .. m) \X X : Round(vs, free, p[2]) \in X
    BY <1>3
  <2> QED
    BY <2>1
<1>5. PICK F \in [0 .. m -> X] : Recurs(F, m, base, G)
  <2> HIDE DEF G, X, base, m
  <2> QED
    BY <1>1, <1>2, <1>4, RecursionExists
<1>6. F[0] = base /\ \A k \in 1 .. m : F[k] = G[<<k, F[k - 1]>>]
  <2> HIDE DEF G, base, X, m
  <2> QED
    BY <1>1, <1>5, RecursionIs
<1>7. \A k \in 1 .. m : F[k] = Round(vs, free, F[k - 1])
  <2> SUFFICES ASSUME NEW k \in 1 .. m PROVE F[k] = Round(vs, free, F[k - 1])
    OBVIOUS
  <2> DEFINE p == <<k, F[k - 1]>>
  <2> HIDE DEF X
  <2>1. k - 1 \in 0 .. m
    BY <1>1
  <2>2. p \in (1 .. m) \X X /\ p[2] = F[k - 1]
    BY <2>1
  <2> HIDE DEF p
  <2>3. G[p] = Round(vs, free, p[2])
    BY <2>2
  <2> HIDE DEF G
  <2> QED
    BY <1>6, <2>2, <2>3, Zenon DEF p
<1> HIDE DEF G
\* The value of a free variable, and the one of a link, after any number of rounds.
<1>8. \A k \in 1 .. m : \A name \in N :
         F[k][name] = IF Named(vs, name).kind = "linked"
                      THEN F[k - 1][Named(vs, name).source] * Named(vs, name).factor
                           + Named(vs, name).offset
                      ELSE free[name]
  BY <1>7, ZenonT(60) DEF Round
<1>9. \A name \in N : F[0][name] = IF Named(vs, name).kind = "linked" THEN 0 ELSE free[name]
  BY <1>6, Zenon
<1> HIDE DEF base, X
\* The names whose value no round after the k-th changes.
<1> DEFINE settled(k) == {x \in N : \A l \in k .. m : F[l][x] = F[k][x]}
<1>10. ASSUME NEW x \in N, Named(vs, x).kind # "linked", NEW k \in 0 .. m PROVE x \in settled(k)
  <2>1. \A l \in 0 .. m : F[l][x] = free[x]
    <3>1. \A l \in 0 .. m : l = 0 \/ l \in 1 .. m
      OBVIOUS
    <3> QED
      BY <1>8, <1>9, <1>10, <3>1, Zenon
  <2>2. \A l \in k .. m : l \in 0 .. m
    BY <1>1
  <2> QED
    BY <2>1, <2>2, Zenon
<1>11. ASSUME NEW k \in 0 .. n, NEW x \in N, Named(vs, x).kind = "linked",
              Named(vs, x).source \in settled(k)
       PROVE  x \in settled(k + 1)
  <2> DEFINE v == Named(vs, x)
             value == F[k][v.source] * v.factor + v.offset
  <2>1. ASSUME NEW l \in k + 1 .. m PROVE F[l][x] = value
    <3>1. l \in 1 .. m /\ l - 1 \in k .. m
      BY <1>1
    <3>2. F[l - 1][v.source] = F[k][v.source]
      BY <1>11, <3>1
    <3> QED
      BY <1>8, <1>11, <3>1, <3>2, Zenon
  <2>2. k + 1 \in k + 1 .. m
    BY <1>1
  <2> HIDE DEF value
  <2> QED
    BY <2>1, <2>2, Zenon
<1>12. ASSUME NEW k \in 0 .. n PROVE settled(k) \subseteq settled(k + 1)
  <2>1. k + 1 \in k .. m /\ \A l \in k + 1 .. m : l \in k .. m
    BY <1>1
  <2> QED
    BY <2>1, Zenon
<1>13. N = settled(n)
  <2> SUFFICES ASSUME NEW name \in N, Named(vs, name).kind = "linked" PROVE name \in settled(n)
    <3>1. n \in 0 .. m
      BY <1>1
    <3> QED
      BY <1>10, <3>1
  <2>1. PICK w \in [0 .. n -> STRING] :
           Walk(w, vs, name) /\ w[n] \in Names(vs) /\ Named(vs, w[n]).kind # "linked"
    BY SourceNamed
  <2>2. w[0] = name /\ \A k \in 1 .. n : w[k] = Source(vs, w[k - 1])
    BY <2>1 DEF Walk
  <2> DEFINE good == {k \in 0 .. n : w[n - k] \in settled(k)}
  <2>3. 0 \in good
    <3>1. n - 0 = n /\ 0 \in 0 .. n /\ 0 \in 0 .. m
      BY <1>1
    <3>2. w[n] \in settled(0)
      BY <1>10, <2>1, <3>1
    <3> HIDE DEF settled
    <3> QED
      BY <3>1, <3>2
  <2>4. ASSUME NEW k \in 1 .. n, k - 1 \in good PROVE k \in good
    <3> DEFINE x == w[n - k]
               l == k - 1
    <3>1. /\ n - l \in 1 .. n /\ n - l - 1 = n - k /\ k \in 0 .. n /\ l \in 0 .. n
          /\ l + 1 = k /\ n - k \in 0 .. n
      BY <1>1
    <3>2. w[n - l] \in settled(l)
      BY <2>4
    <3>3. w[n - l] = Source(vs, x)
      <4>1. w[n - l] = Source(vs, w[n - l - 1])
        BY <2>2, <3>1, Zenon
      <4> QED
        BY <3>1, <4>1
    <3> HIDE DEF l, settled
    <3>4. CASE x \in N /\ Named(vs, x).kind = "linked"
      <4>1. Source(vs, x) = Named(vs, x).source
        BY <3>4, Zenon DEF Source
      <4>2. x \in settled(l + 1)
        BY <1>11, <3>1, <3>2, <3>3, <3>4, <4>1
      <4> QED
        BY <3>1, <4>2
    <3>5. CASE ~(x \in N /\ Named(vs, x).kind = "linked")
      <4>1. Source(vs, x) = x
        BY <3>5, Zenon DEF Source
      <4>2. x \in settled(l + 1)
        BY <1>12, <3>1, <3>2, <3>3, <4>1
      <4> QED
        BY <3>1, <4>2
    <3> QED
      BY <3>4, <3>5
  <2>5. n \in good
    <3>1. n \in 0 .. n
      BY <1>1
    <3> HIDE DEF good
    <3> QED
      BY <1>1, <2>3, <2>4, <3>1, UpTo
  <2>6. n - n = 0
    BY <1>1
  <2> HIDE DEF settled
  <2> QED
    BY <2>2, <2>5, <2>6
<1>14. F[n] \in [N -> Int]
  <2>1. n \in 0 .. m
    BY <1>1
  <2> QED
    BY <2>1 DEF X
<1>15. F[n] = Round(vs, free, F[n])
  <2>1. m \in n .. m /\ m \in 1 .. m /\ m - 1 = n /\ m \in 0 .. m
    BY <1>1
  <2>2. \A x \in N : F[m][x] = F[n][x]
    BY <1>13, <2>1
  <2>3. F[m] \in [N -> Int]
    BY <2>1 DEF X
  <2> HIDE DEF N, m
  <2>4. F[m] = F[n]
    BY <1>14, <2>2, <2>3
  <2>5. F[m] = Round(vs, free, F[m - 1])
    BY <1>7, <2>1, Zenon
  <2> QED
    BY <2>1, <2>4, <2>5
<1> QED
  BY <1>14, <1>15
-----------------------------------------------------------------------------
(* Points and coordinates.                                                 *)

\* Coordinates of the free variables, one fraction each.
Coordinated(vs, c) == \A i \in 1 .. Len(FreeVariables(vs)) : c[i] \in Fraction

FreeValue(vs, c) ==
    [name \in Names(FreeVariables(vs)) |->
        LET frees == FreeVariables(vs)
            i == CHOOSE i \in DOMAIN frees : frees[i].name = name
        IN  DecodeVariable(frees[i], c[i])]

LEMMA FreesOfParsed ==
    ASSUME NEW vs, Parsed(vs), NEW f, f = FreeVariables(vs)
    PROVE  /\ Len(f) \in Nat /\ DOMAIN f = 1 .. Len(f) /\ DistinctNames(f)
           /\ \A i \in 1 .. Len(f) :
                 /\ FreeTyped(f[i]) /\ f[i].name \in Names(vs) /\ Named(vs, f[i].name) = f[i]
                 /\ f[i].kind # "linked" /\ \E j \in 1 .. Len(vs) : f[i] = vs[j]
           /\ \A j \in 1 .. Len(vs) :
                 vs[j].kind # "linked" => \E i \in 1 .. Len(f) : f[i] = vs[j]
<1> DEFINE V == {Variable(table) : table \in Tables}
<1>1. vs \in Seq(V) /\ DistinctNames(vs)
  BY DEF Parsed
<1> HIDE DEF V
<1>2. f \in Seq(V) /\ FreeAmong(f, Len(vs), vs)
  BY <1>1, FreesAre
<1>3. Len(f) \in Nat /\ DOMAIN f = 1 .. Len(f) /\ DOMAIN vs = 1 .. Len(vs)
  BY <1>1, <1>2
<1>4. DistinctNames(f)
  BY <1>2, Zenon DEF FreeAmong, DistinctNames
<1>5. ASSUME NEW i \in 1 .. Len(f)
      PROVE  /\ FreeTyped(f[i]) /\ f[i].name \in Names(vs) /\ Named(vs, f[i].name) = f[i]
             /\ f[i].kind # "linked" /\ \E j \in 1 .. Len(vs) : f[i] = vs[j]
  <2>1. PICK j \in 1 .. Len(vs) : f[i] = vs[j] /\ vs[j].kind # "linked"
    BY <1>2 DEF FreeAmong
  <2>2. FreeTyped(vs[j])
    BY <2>1 DEF Parsed, LinkedTyped
  <2>3. Named(vs, vs[j].name) = vs[j] /\ vs[j].name \in Names(vs)
    BY <1>1, <1>3, NamedIs
  <2> QED
    BY <2>1, <2>2, <2>3, Zenon
<1>6. \A j \in 1 .. Len(vs) : vs[j].kind # "linked" => \E i \in 1 .. Len(f) : f[i] = vs[j]
  BY <1>2 DEF FreeAmong
<1> QED
  BY <1>3, <1>4, <1>5, <1>6

LEMMA FreeValueIs ==
    ASSUME NEW vs, Parsed(vs), NEW c, NEW i \in 1 .. Len(FreeVariables(vs))
    PROVE  FreeValue(vs, c)[FreeVariables(vs)[i].name] = DecodeVariable(FreeVariables(vs)[i], c[i])
<1> DEFINE f == FreeVariables(vs)
           name == f[i].name
           k == CHOOSE k \in DOMAIN f : f[k].name = name
<1>1. DOMAIN f = 1 .. Len(f) /\ DistinctNames(f)
  BY FreesOfParsed
<1>2. name \in Names(f)
  BY <1>1, Zenon DEF Names
<1>3. FreeValue(vs, c)[name] = DecodeVariable(f[k], c[k])
  BY <1>2, Zenon DEF FreeValue
<1>4. k = i
  <2>1. k \in DOMAIN f /\ f[k].name = name
    <3>1. \E l \in DOMAIN f : f[l].name = name
      BY <1>1
    <3> QED
      BY <3>1, Zenon
  <2> HIDE DEF k
  <2> QED
    BY <1>1, <2>1 DEF DistinctNames
<1> QED
  BY <1>3, <1>4

\* A bound value of a free variable is a number.
LEMMA BoundNumber ==
    ASSUME NEW v, FreeTyped(v), NEW value, WithinBounds(v, value)
    PROVE  value \in Int
<1>1. CASE v.kind = "choice"
  <2>1. v.values \in Seq(Int) /\ value \in ToSet(v.values)
    BY <1>1 DEF FreeTyped, WithinBounds
  <2>2. PICK i \in DOMAIN v.values : v.values[i] = value
    BY <2>1 DEF ToSet
  <2> QED
    BY <2>1, <2>2
<1>2. CASE v.kind # "choice"
  BY <1>2 DEF FreeTyped, WithinBounds
<1> QED
  BY <1>1, <1>2

\* decode() resolves every link, and gives the free variables their values.
LEMMA DecodeIs ==
    ASSUME NEW vs, Parsed(vs), NEW c, Coordinated(vs, c), NEW f, f = FreeVariables(vs)
    PROVE  /\ \A i \in 1 .. Len(f) : Decode(vs, c)[f[i].name] = DecodeVariable(f[i], c[i])
           /\ \A j \in 1 .. Len(vs) : vs[j].kind = "linked" =>
                 Decode(vs, c)[vs[j].name] =
                     Decode(vs, c)[vs[j].source] * vs[j].factor + vs[j].offset
<1> DEFINE free == FreeValue(vs, c)
           point == Decode(vs, c)
<1>1. point = LinkedValue(vs, free)
  BY Zenon DEF Decode, FreeValue
<1>2. LinkedValue(vs, free) = CHOOSE value : value = Round(vs, free, value)
  BY Zenon DEF LinkedValue, Round
<1>3. DOMAIN vs = 1 .. Len(vs) /\ DistinctNames(vs)
  BY DEF Parsed
<1>4. \A i \in 1 .. Len(f) : free[f[i].name] = DecodeVariable(f[i], c[i])
  BY FreeValueIs
<1>5. ASSUME NEW name \in Names(vs), Named(vs, name).kind # "linked" PROVE free[name] \in Int
  <2>1. PICK j \in 1 .. Len(vs) : vs[j].name = name
    BY <1>3, Zenon DEF Names
  <2>2. vs[j].kind # "linked"
    BY <1>3, <1>5, <2>1, NamedIs
  <2>3. PICK i \in 1 .. Len(f) : f[i] = vs[j]
    BY <2>2, FreesOfParsed
  <2>4. FreeTyped(f[i])
    BY FreesOfParsed
  <2>5. WithinBounds(f[i], DecodeVariable(f[i], c[i]))
    BY <2>4, Within DEF Coordinated
  <2> QED
    BY <1>4, <2>1, <2>3, <2>4, <2>5, BoundNumber
<1> HIDE DEF free
<1>6. \E value \in [Names(vs) -> Int] : value = Round(vs, free, value)
  BY <1>5, LinkedExists
<1>7. point = Round(vs, free, point)
  BY <1>1, <1>2, <1>6, Zenon
<1> HIDE DEF point
<1>8. \A name \in Names(vs) :
         point[name] = IF Named(vs, name).kind = "linked"
                       THEN point[Named(vs, name).source] * Named(vs, name).factor
                            + Named(vs, name).offset
                       ELSE free[name]
  BY <1>7, Zenon DEF Round
<1>9. ASSUME NEW i \in 1 .. Len(f) PROVE point[f[i].name] = DecodeVariable(f[i], c[i])
  <2>1. f[i].name \in Names(vs) /\ Named(vs, f[i].name) = f[i] /\ f[i].kind # "linked"
    BY FreesOfParsed
  <2> QED
    BY <1>4, <1>8, <2>1, Zenon
<1>10. ASSUME NEW j \in 1 .. Len(vs), vs[j].kind = "linked"
       PROVE  point[vs[j].name] = point[vs[j].source] * vs[j].factor + vs[j].offset
  <2>1. Named(vs, vs[j].name) = vs[j] /\ vs[j].name \in Names(vs)
    BY <1>3, NamedIs
  <2> QED
    BY <1>8, <1>10, <2>1, Zenon
<1> QED
  BY <1>9, <1>10 DEF point

\* Coordinates that decode to the same values of the free variables decode to one point.
LEMMA DecodeSame ==
    ASSUME NEW vs, Parsed(vs), NEW c, NEW d,
           \A i \in 1 .. Len(FreeVariables(vs)) :
              DecodeVariable(FreeVariables(vs)[i], c[i]) = DecodeVariable(FreeVariables(vs)[i], d[i])
    PROVE  Decode(vs, c) = Decode(vs, d)
<1> DEFINE f == FreeVariables(vs)
<1>1. ASSUME NEW name \in Names(f)
      PROVE  LET i == CHOOSE i \in DOMAIN f : f[i].name = name
             IN  DecodeVariable(f[i], c[i]) = DecodeVariable(f[i], d[i])
  <2> DEFINE i == CHOOSE i \in DOMAIN f : f[i].name = name
  <2>1. \E k \in DOMAIN f : f[k].name = name
    BY Zenon DEF Names
  <2>2. i \in DOMAIN f
    BY <2>1, Zenon
  <2>3. DOMAIN f = 1 .. Len(f)
    BY FreesOfParsed
  <2> HIDE DEF i
  <2>4. DecodeVariable(f[i], c[i]) = DecodeVariable(f[i], d[i])
    BY <2>2, <2>3
  <2> QED
    BY <2>4 DEF i
<1>2. FreeValue(vs, c) = FreeValue(vs, d)
  BY <1>1, Zenon DEF FreeValue
<1>3. Decode(vs, c) = LinkedValue(vs, FreeValue(vs, c)) /\ Decode(vs, d) = LinkedValue(vs, FreeValue(vs, d))
  BY Zenon DEF Decode, FreeValue
<1> QED
  BY <1>2, <1>3, Zenon

-----------------------------------------------------------------------------
(* Products, and numbers in a mixed radix.                                 *)

\* The products of the first elements.
Multiplied(a, s) ==
    a[0] = 1 /\ \A k \in 1 .. Len(s) : a[k] = a[k - 1] * s[k]

LEMMA ProductIs ==
    ASSUME NEW s \in Seq(Nat)
    PROVE  \E a \in [0 .. Len(s) -> Nat] : Multiplied(a, s) /\ Product(s) = a[Len(s)]
<1> DEFINE n == Len(s)
           G == [p \in (1 .. n) \X Nat |-> p[2] * s[p[1]]]
           Looped(it) == it = [t \in SUBSET DOMAIN s |->
                                 IF t = {} THEN 1 ELSE it[t \ {Max(t)}] * s[Max(t)]]
           chosen == CHOOSE it : Looped(it)
<1>n. n \in Nat
  OBVIOUS
<1>1. n \in Nat /\ DOMAIN s = 1 .. n /\ \A k \in 1 .. n : s[k] \in Nat
  OBVIOUS
<1>2. Product(s) = chosen[DOMAIN s]
  BY Zenon DEF Product, FoldLeft, MapThenFoldSet
<1>3. G \in [(1 .. n) \X Nat -> Nat]
  <2>1. \A p \in (1 .. n) \X Nat : s[p[1]] \in Nat /\ p[2] \in Nat
    OBVIOUS
  <2>2. \A p \in (1 .. n) \X Nat : p[2] * s[p[1]] \in Nat
    BY <2>1
  <2> QED
    BY <2>2
<1>4. PICK it \in [SUBSET (1 .. n) -> Nat] : Folds(it, n, 1, G)
  <2> HIDE DEF n, G
  <2> QED
    BY <1>n, <1>3, FoldExists
<1>5. Looped(it)
  <2>1. it = [t \in SUBSET (1 .. n) |-> IF t = {} THEN 1 ELSE G[<<Max(t), it[t \ {Max(t)}]>>]]
    BY <1>4, Zenon DEF Folds
  <2>2. ASSUME NEW t \in SUBSET (1 .. n), t # {}
        PROVE  G[<<Max(t), it[t \ {Max(t)}]>>] = it[t \ {Max(t)}] * s[Max(t)]
    <3>1. Max(t) \in t
      BY <1>1, <2>2, GreatestIn
    <3> DEFINE m == Max(t)
               p == <<m, it[t \ {m}]>>
    <3>2. t \ {m} \in SUBSET (1 .. n) /\ m \in 1 .. n
      BY <3>1
    <3> HIDE DEF m
    <3>3. p \in (1 .. n) \X Nat /\ p[1] = m /\ p[2] = it[t \ {m}]
      BY <3>2
    <3> HIDE DEF p
    <3>4. G[p] = p[2] * s[p[1]]
      BY <3>3
    <3> HIDE DEF G
    <3> QED
      BY <3>3, <3>4, Zenon DEF p, m
  <2> HIDE DEF G
  <2> DEFINE right == [t \in SUBSET (1 .. n) |->
                         IF t = {} THEN 1 ELSE it[t \ {Max(t)}] * s[Max(t)]]
             left == [t \in SUBSET (1 .. n) |->
                         IF t = {} THEN 1 ELSE G[<<Max(t), it[t \ {Max(t)}]>>]]
  <2>3. left = right
    BY <2>2, Zenon
  <2> QED
    BY <1>1, <2>1, <2>3, Zenon
<1>6. Looped(chosen)
  BY <1>5, Zenon
<1>7. \A t \in SUBSET (1 .. n) :
         chosen[t] = IF t = {} THEN 1 ELSE chosen[t \ {Max(t)}] * s[Max(t)]
  BY <1>1, <1>6, Zenon
<1> DEFINE a == [k \in 0 .. n |-> chosen[1 .. k]]
<1> HIDE DEF chosen, n, G
<1>p. /\ 1 .. 0 \in SUBSET (1 .. n) /\ 1 .. 0 = {}
      /\ \A k \in 1 .. n : /\ 1 .. k \in SUBSET (1 .. n) /\ 1 .. k # {}
                           /\ Max(1 .. k) = k /\ (1 .. k) \ {k} = 1 .. k - 1
  BY <1>n, InitialParts, Zenon
<1>8. a[0] = 1
  <2>1. a[0] = chosen[1 .. 0]
    BY <1>1
  <2> HIDE DEF a
  <2> QED
    BY <1>7, <1>p, <2>1, Zenon
<1>9. ASSUME NEW k \in 1 .. n PROVE a[k] = a[k - 1] * s[k]
  <2>1. a[k] = chosen[1 .. k] /\ a[k - 1] = chosen[1 .. k - 1]
    BY <1>1
  <2>2. /\ 1 .. k \in SUBSET (1 .. n) /\ 1 .. k # {}
        /\ Max(1 .. k) = k /\ (1 .. k) \ {k} = 1 .. k - 1
    BY <1>p
  <2> HIDE DEF a
  <2> QED
    BY <1>7, <2>1, <2>2, Zenon
<1>10. a \in [0 .. n -> Nat]
  <2> DEFINE good == {k \in 0 .. n : a[k] \in Nat}
  <2>d. a = [k \in 0 .. n |-> a[k]]
    OBVIOUS
  <2> HIDE DEF a
  <2>1. 0 \in good
    BY <1>n, <1>8
  <2>2. ASSUME NEW k \in 1 .. n, k - 1 \in good PROVE k \in good
    <3>1. a[k - 1] \in Nat /\ s[k] \in Nat
      BY <1>1, <2>2
    <3>2. a[k] \in Nat
      BY <1>9, <3>1
    <3> QED
      BY <3>2
  <2>3. \A k \in 0 .. n : k \in good
    <3> HIDE DEF good
    <3> QED
      BY <1>1, <2>1, <2>2, UpTo
  <2> QED
    BY <2>3, <2>d
<1>11. Product(s) = a[n]
  BY <1>1, <1>2
<1> HIDE DEF a
<1> QED
  BY <1>8, <1>9, <1>10, <1>11 DEF Multiplied, n

LEMMA ProductPositive ==
    ASSUME NEW s \in Seq(Nat), \A i \in 1 .. Len(s) : s[i] # 0
    PROVE  Product(s) \in Nat \ {0}
<1> DEFINE n == Len(s)
<1>1. PICK a \in [0 .. n -> Nat] : Multiplied(a, s) /\ Product(s) = a[n]
  BY ProductIs
<1>2. n \in Nat /\ a[0] = 1 /\ \A k \in 1 .. n : a[k] = a[k - 1] * s[k]
  BY <1>1 DEF Multiplied
<1> DEFINE good == {k \in 0 .. n : a[k] # 0}
<1>3. 0 \in good
  BY <1>2
<1>4. ASSUME NEW k \in 1 .. n, k - 1 \in good PROVE k \in good
  <2>1. k - 1 \in 0 .. n /\ k \in 0 .. n
    BY <1>2
  <2>2. a[k - 1] \in Nat \ {0} /\ s[k] \in Nat \ {0}
    BY <1>4, <2>1
  <2>3. a[k - 1] * s[k] # 0
    BY <2>2
  <2> QED
    BY <1>2, <2>1, <2>3
<1>5. n \in good
  <2>1. n \in 0 .. n
    BY <1>2
  <2> HIDE DEF good
  <2> QED
    BY <1>2, <1>3, <1>4, <2>1, UpTo
<1>6. a[n] \in Nat
  <2>1. n \in 0 .. n
    BY <1>2
  <2> QED
    BY <2>1
<1> QED
  BY <1>1, <1>5, <1>6

\* A product is the first factor times the product of the others.
LEMMA ProductOfRest ==
    ASSUME NEW s \in Seq(Nat), s # <<>>, NEW rest \in Seq(Nat), Len(rest) = Len(s) - 1,
           \A j \in 1 .. Len(s) - 1 : rest[j] = s[1 + j]
    PROVE  Product(s) = s[1] * Product(rest)
<1> DEFINE n == Len(s)
           m == Len(rest)
<1>1. PICK a \in [0 .. n -> Nat] : Multiplied(a, s) /\ Product(s) = a[n]
  BY ProductIs
<1>2. PICK b \in [0 .. m -> Nat] : Multiplied(b, rest) /\ Product(rest) = b[m]
  BY ProductIs
<1>3. n \in Nat \ {0} /\ m = n - 1 /\ m \in Nat
  OBVIOUS
<1>4. /\ a[0] = 1 /\ \A k \in 1 .. n : a[k] = a[k - 1] * s[k]
      /\ b[0] = 1 /\ \A k \in 1 .. m : b[k] = b[k - 1] * rest[k]
  BY <1>1, <1>2 DEF Multiplied
<1>5. \A k \in 1 .. n : s[k] \in Nat
  OBVIOUS
<1>6. \A k \in 1 .. m : rest[k] = s[1 + k]
  BY <1>3
<1> HIDE DEF n, m
<1> DEFINE good == {k \in 0 .. m : a[k + 1] = s[1] * b[k]}
<1>7. 0 \in good
  <2>1. 1 \in 1 .. n /\ 0 \in 0 .. m
    BY <1>3
  <2>2. a[1] = 1 * s[1] /\ s[1] \in Nat
    BY <1>4, <1>5, <2>1
  <2> QED
    BY <1>4, <2>1, <2>2
<1>8. ASSUME NEW k \in 1 .. m, k - 1 \in good PROVE k \in good
  <2>1. k \in 1 .. n /\ k + 1 \in 1 .. n /\ k - 1 + 1 = k /\ k + 1 - 1 = k /\ 1 + k = k + 1
        /\ k \in 0 .. m /\ k - 1 \in 0 .. m /\ 1 \in 1 .. n
    BY <1>3
  <2>2. a[k] = s[1] * b[k - 1]
    BY <1>8, <2>1
  <2>3. a[k + 1] = a[k] * s[k + 1]
    BY <1>4, <2>1
  <2>4. b[k] = b[k - 1] * s[k + 1]
    BY <1>4, <1>6, <2>1
  <2>5. s[1] \in Nat /\ s[k + 1] \in Nat /\ b[k - 1] \in Nat
    BY <1>5, <2>1
  <2> DEFINE x == s[1]
             y == b[k - 1]
             z == s[k + 1]
  <2>6. (x * y) * z = x * (y * z)
    <3> HIDE DEF x, y, z
    <3>1. x \in Nat /\ y \in Nat /\ z \in Nat
      BY <2>5 DEF x, y, z
    <3> QED
      BY <3>1
  <2>7. a[k + 1] = s[1] * b[k]
    BY <2>2, <2>3, <2>4, <2>6, Zenon
  <2> QED
    BY <2>1, <2>7
<1>9. m \in good
  <2>1. m \in 0 .. m
    BY <1>3
  <2> HIDE DEF good
  <2> QED
    BY <1>3, <1>7, <1>8, <2>1, UpTo
<1>10. m + 1 = n
  BY <1>3
<1> QED
  BY <1>1, <1>2, <1>9, <1>10

\* A product of greater factors is no less.
LEMMA ProductMonotone ==
    ASSUME NEW s \in Seq(Nat), NEW t \in Seq(Nat), Len(s) = Len(t),
           \A i \in 1 .. Len(s) : s[i] <= t[i]
    PROVE  Product(s) <= Product(t)
<1> DEFINE n == Len(s)
<1>1. PICK a \in [0 .. n -> Nat] : Multiplied(a, s) /\ Product(s) = a[n]
  BY ProductIs
<1>2. PICK b \in [0 .. n -> Nat] : Multiplied(b, t) /\ Product(t) = b[n]
  BY ProductIs
<1>3. n \in Nat
  OBVIOUS
<1>4. /\ a[0] = 1 /\ \A k \in 1 .. n : a[k] = a[k - 1] * s[k]
      /\ b[0] = 1 /\ \A k \in 1 .. n : b[k] = b[k - 1] * t[k]
  BY <1>1, <1>2 DEF Multiplied
<1>5. \A k \in 1 .. n : s[k] \in Nat /\ t[k] \in Nat /\ s[k] <= t[k]
  OBVIOUS
<1> HIDE DEF n
<1> DEFINE good == {k \in 0 .. n : a[k] <= b[k]}
<1>6. 0 \in good
  BY <1>3, <1>4
<1>7. ASSUME NEW k \in 1 .. n, k - 1 \in good PROVE k \in good
  <2>1. k \in 0 .. n /\ k - 1 \in 0 .. n
    BY <1>3
  <2> DEFINE x == a[k - 1]
             y == b[k - 1]
             p == s[k]
             q == t[k]
  <2>2. x \in Nat /\ y \in Nat /\ x <= y /\ p \in Nat /\ q \in Nat /\ p <= q
    BY <1>5, <1>7, <2>1
  <2>3. a[k] = x * p /\ b[k] = y * q
    BY <1>4
  <2> HIDE DEF x, y, p, q
  <2>4. x * p <= y * p /\ y * p <= y * q /\ x * p \in Nat /\ y * p \in Nat /\ y * q \in Nat
    BY <2>2
  <2> QED
    BY <2>1, <2>3, <2>4
<1>8. n \in good
  <2>1. n \in 0 .. n
    BY <1>3
  <2> HIDE DEF good
  <2> QED
    BY <1>3, <1>6, <1>7, <2>1, UpTo
<1> QED
  BY <1>1, <1>2, <1>8


\* The bases L of a number's digits, and the weights P of the digits.
Radix(L, P, n) ==
    /\ L \in [1 .. n -> Nat \ {0}] /\ P \in [0 .. n -> Nat \ {0}]
    /\ P[n] = 1 /\ \A i \in 1 .. n : P[i - 1] = L[i] * P[i]

LEMMA NestedQuotient ==
    ASSUME NEW x \in Nat, NEW p \in Nat \ {0}, NEW l \in Nat \ {0}
    PROVE  (x \div p) \div l = x \div (l * p)
<1> DEFINE q == x \div p
           r == x % p
           k == q \div l
           s == q % l
           w == l * p
           rest == s * p + r
<1>1. q \in Int /\ r \in 0 .. p - 1 /\ x = p * q + r
  BY QuotientAndRest
<1> HIDE DEF q, r
<1>2. k \in Int /\ s \in 0 .. l - 1 /\ q = l * k + s
  BY <1>1, QuotientAndRest
<1> HIDE DEF k, s
<1>3. w \in Nat \ {0}
  OBVIOUS
<1>4. p * q = k * w + s * p
  BY <1>2
<1>5. x = k * w + rest
  <2>1. k * w \in Int /\ s * p \in Int
    BY <1>2, <1>3
  <2> QED
    BY <1>1, <1>4, <2>1
<1>6. rest \in Nat
  <2>1. s * p \in Nat
    BY <1>2
  <2> QED
    BY <1>1, <2>1
<1>7. rest < w
  <2>1. (s + 1) * p <= l * p /\ (s + 1) * p = s * p + p /\ s * p \in Nat /\ l * p \in Nat
    BY <1>2
  <2> QED
    BY <1>1, <2>1
<1> HIDE DEF rest, w
<1>8. x \div w = k
  BY <1>2, <1>3, <1>5, <1>6, <1>7, QuotientIs
<1> QED
  BY <1>8 DEF w, k, q

\* Numbers with the same digits are the same.
LEMMA DigitsDetermine ==
    ASSUME NEW n \in Nat, NEW L, NEW P, Radix(L, P, n),
           NEW x \in 0 .. P[0] - 1, NEW y \in 0 .. P[0] - 1,
           \A i \in 1 .. n : (x \div P[i]) % L[i] = (y \div P[i]) % L[i]
    PROVE  x = y
<1>1. /\ \A i \in 0 .. n : P[i] \in Nat \ {0}
      /\ \A i \in 1 .. n : L[i] \in Nat \ {0}
      /\ P[n] = 1 /\ \A i \in 1 .. n : P[i - 1] = L[i] * P[i]
  BY DEF Radix
<1>2. P[0] \in Nat \ {0} /\ x \in Nat /\ y \in Nat /\ x < P[0] /\ y < P[0]
  BY <1>1
<1> DEFINE good == {i \in 0 .. n : x \div P[i] = y \div P[i]}
<1>3. 0 \in good
  <2> DEFINE p == P[0]
  <2>1. p \in Nat \ {0} /\ x < p /\ y < p
    BY <1>2
  <2> HIDE DEF p
  <2>2. ASSUME NEW z \in Nat, z < p PROVE z \div p = 0
    BY <2>1, <2>2
  <2>3. x \div p = 0 /\ y \div p = 0
    BY <1>2, <2>1, <2>2
  <2> QED
    BY <2>3 DEF p
<1>4. ASSUME NEW i \in 1 .. n, i - 1 \in good PROVE i \in good
  <2> DEFINE p == P[i]
             l == L[i]
             xq == x \div p
             yq == y \div p
  <2>1. i \in 0 .. n /\ i - 1 \in 0 .. n
    BY <1>4
  <2>2. p \in Nat \ {0} /\ l \in Nat \ {0} /\ P[i - 1] = l * p
    BY <1>1, <2>1
  <2>3. xq % l = yq % l
    OBVIOUS
  <2>4. x \div (l * p) = y \div (l * p)
    BY <1>4, <2>2
  <2> HIDE DEF p, l
  <2>5. xq \div l = yq \div l
    BY <1>2, <2>2, <2>4, NestedQuotient
  <2>6. xq \in Int /\ yq \in Int
    BY <1>2, <2>2
  <2> HIDE DEF xq, yq
  <2>7. xq = l * (xq \div l) + (xq % l) /\ yq = l * (yq \div l) + (yq % l)
    BY <2>2, <2>6, QuotientAndRest
  <2>8. xq = yq
    BY <2>3, <2>5, <2>7, Zenon
  <2> QED
    BY <2>1, <2>8 DEF xq, yq, p
<1>5. x \div P[n] = y \div P[n]
  <2>1. n \in 0 .. n
    OBVIOUS
  <2>2. n \in good
    <3> HIDE DEF good
    <3> QED
      BY <1>3, <1>4, <2>1, UpTo
  <2> QED
    BY <2>2
<1>6. x = x * 1 + 0 /\ y = y * 1 + 0
  BY <1>2
<1>7. x \div 1 = x /\ y \div 1 = y
  BY <1>2, <1>6, QuotientIs
<1> QED
  BY <1>1, <1>5, <1>7

\* All digits below their bases are those of a number.
LEMMA DigitsExist ==
    ASSUME NEW n \in Nat, NEW L, NEW P, Radix(L, P, n),
           NEW d \in [1 .. n -> Nat], \A i \in 1 .. n : d[i] < L[i]
    PROVE  \E x \in 0 .. P[0] - 1 : \A i \in 1 .. n : (x \div P[i]) % L[i] = d[i]
<1>1. /\ \A i \in 0 .. n : P[i] \in Nat \ {0}
      /\ \A i \in 1 .. n : L[i] \in Nat \ {0}
      /\ P[n] = 1 /\ \A i \in 1 .. n : P[i - 1] = L[i] * P[i]
  BY DEF Radix
\* The numbers that the first digits are.
<1> DEFINE G == [p \in (1 .. n) \X Nat |-> p[2] * L[p[1]] + d[p[1]]]
<1>2. G \in [(1 .. n) \X Nat -> Nat]
  <2>1. \A p \in (1 .. n) \X Nat : p[2] \in Nat /\ L[p[1]] \in Nat /\ d[p[1]] \in Nat
    BY <1>1
  <2>2. ASSUME NEW p \in (1 .. n) \X Nat PROVE p[2] * L[p[1]] + d[p[1]] \in Nat
    <3> DEFINE b == p[2]
               l == L[p[1]]
               e == d[p[1]]
    <3>1. b \in Nat /\ l \in Nat /\ e \in Nat
      BY <2>1
    <3> HIDE DEF b, l, e
    <3>2. b * l + e \in Nat
      BY <3>1
    <3> QED
      BY <3>2 DEF b, l, e
  <2> QED
    BY <2>2
<1>3. PICK u \in [0 .. n -> Nat] : Recurs(u, n, 0, G)
  <2> HIDE DEF G
  <2> QED
    BY <1>2, RecursionExists
<1>4. u[0] = 0 /\ \A k \in 1 .. n : u[k] = G[<<k, u[k - 1]>>]
  <2> HIDE DEF G
  <2>1. \A k \in 0 .. n : u[k] = IF k = 0 THEN 0 ELSE G[<<k, u[k - 1]>>]
    BY <1>3, Zenon DEF Recurs
  <2>2. 0 \in 0 .. n /\ \A k \in 1 .. n : k \in 0 .. n /\ k # 0
    OBVIOUS
  <2> QED
    BY <2>1, <2>2, Zenon
<1>5. \A k \in 1 .. n : u[k] = u[k - 1] * L[k] + d[k]
  <2> SUFFICES ASSUME NEW k \in 1 .. n PROVE u[k] = u[k - 1] * L[k] + d[k]
    OBVIOUS
  <2> DEFINE p == <<k, u[k - 1]>>
  <2>1. k - 1 \in 0 .. n
    OBVIOUS
  <2>2. p \in (1 .. n) \X Nat /\ p[1] = k /\ p[2] = u[k - 1]
    BY <2>1
  <2> HIDE DEF p
  <2>3. G[p] = p[2] * L[p[1]] + d[p[1]]
    BY <2>2
  <2> HIDE DEF G
  <2> QED
    BY <1>4, <2>2, <2>3, Zenon DEF p
<1> HIDE DEF G
<1> DEFINE x == u[n]
           good == {k \in 0 .. n : \E r \in 0 .. P[n - k] - 1 : x = u[n - k] * P[n - k] + r}
<1>6. x \in Nat
  OBVIOUS
<1> HIDE DEF x
<1>7. 0 \in good
  <2>1. n - 0 = n /\ 0 \in 0 .. n /\ 0 \in 0 .. 1 - 1
    OBVIOUS
  <2>2. x = u[n] * 1 + 0
    BY <1>6 DEF x
  <2> QED
    BY <1>1, <2>1, <2>2
<1>8. ASSUME NEW k \in 1 .. n, k - 1 \in good PROVE k \in good
  <2> DEFINE i == n - (k - 1)
             p == P[i]
             l == L[i]
             e == d[i]
             v == u[i - 1]
  <2>1. i \in 1 .. n /\ i \in 0 .. n /\ i - 1 = n - k /\ i - 1 \in 0 .. n /\ k \in 0 .. n
    OBVIOUS
  <2>2. PICK r \in 0 .. p - 1 : x = u[i] * p + r
    BY <1>8
  <2> HIDE DEF i
  <2>3. /\ p \in Nat \ {0} /\ l \in Nat \ {0} /\ e \in Nat /\ e < l /\ v \in Nat
        /\ P[i - 1] = l * p /\ u[i] = v * l + e
    BY <1>1, <1>5, <2>1
  <2> DEFINE rest == e * p + r
             ui == u[i]
  <2>4. x = ui * p + r /\ r \in 0 .. p - 1 /\ ui = v * l + e
    BY <2>2, <2>3
  <2> HIDE DEF p, l, e, v, ui
  <2>5. x = v * (l * p) + rest
    <3>1. ui * p = v * (l * p) + e * p
      BY <2>3, <2>4
    <3>2. v * (l * p) \in Nat /\ e * p \in Nat
      BY <2>3
    <3> QED
      BY <2>3, <2>4, <3>1, <3>2
  <2>6. rest \in 0 .. l * p - 1
    <3> DEFINE ep == e * p
               lp == l * p
    <3>1. ep \in Nat /\ lp \in Nat
      BY <2>3
    <3>2. (e + 1) * p <= lp
      BY <2>3
    <3>3. (e + 1) * p = ep + p
      BY <2>3
    <3>4. rest = ep + r
      OBVIOUS
    <3> HIDE DEF ep, lp, rest
    <3>5. rest \in 0 .. lp - 1
      BY <2>3, <2>4, <3>1, <3>2, <3>3, <3>4
    <3> QED
      BY <3>5 DEF lp
  <2> HIDE DEF rest
  <2>7. \E s \in 0 .. P[i - 1] - 1 : x = u[i - 1] * P[i - 1] + s
    BY <2>3, <2>5, <2>6 DEF v
  <2> QED
    BY <2>1, <2>7
<1>9. \A k \in 0 .. n : k \in good
  <2> HIDE DEF good
  <2> QED
    BY <1>7, <1>8, UpTo
<1>10. ASSUME NEW i \in 0 .. n PROVE \E r \in 0 .. P[i] - 1 : x = u[i] * P[i] + r
  <2>1. n - i \in 0 .. n /\ n - (n - i) = i
    OBVIOUS
  <2>2. n - i \in good
    BY <1>9, <2>1
  <2> QED
    BY <2>1, <2>2
<1>11. ASSUME NEW i \in 0 .. n PROVE x \div P[i] = u[i]
  <2>1. PICK r \in 0 .. P[i] - 1 : x = u[i] * P[i] + r
    BY <1>10
  <2> DEFINE p == P[i]
             q == u[i]
  <2>2. p \in Nat \ {0} /\ q \in Int /\ x = q * p + r /\ r \in Nat /\ r < p
    BY <1>1, <2>1
  <2> HIDE DEF p, q
  <2>3. x \div p = q
    <3>1. x \in Int
      BY <1>6
    <3> QED
      BY <2>2, <3>1, QuotientIs
  <2> QED
    BY <2>3 DEF p, q
<1>12. x \in 0 .. P[0] - 1
  <2>1. 0 \in 0 .. n
    OBVIOUS
  <2>2. PICK r \in 0 .. P[0] - 1 : x = u[0] * P[0] + r
    BY <1>10, <2>1
  <2>3. u[0] * P[0] = 0
    BY <1>1, <1>4, <2>1
  <2> QED
    BY <1>1, <2>1, <2>2, <2>3
<1>13. ASSUME NEW i \in 1 .. n PROVE (x \div P[i]) % L[i] = d[i]
  <2> DEFINE l == L[i]
             e == d[i]
             v == u[i - 1]
             q == u[i]
  <2>1. i \in 0 .. n /\ i - 1 \in 0 .. n
    OBVIOUS
  <2>2. l \in Nat \ {0} /\ e \in Nat /\ e < l /\ v \in Int /\ q = v * l + e /\ q \in Int
    BY <1>1, <1>5, <2>1
  <2>3. x \div P[i] = q
    BY <1>11, <2>1
  <2> HIDE DEF l, e, v, q
  <2>4. q % l = e
    BY <2>2, QuotientIs
  <2> QED
    BY <2>3, <2>4 DEF l, e
<1> QED
  BY <1>12, <1>13
-----------------------------------------------------------------------------
(* The candidates of an axis.                                              *)

\* A real variable with finitely many values.
Quantized(v) == FreeTyped(v) /\ v.kind = "real" /\ v.quantum > 0

LowerEnd(v, level) == Max({0, (2 * level - 1) * v.quantum})

UpperEnd(v, level) == Min({2 * (v.high - v.low), (2 * level + 1) * v.quantum})

MiddleOf(v, level) == <<LowerEnd(v, level) + UpperEnd(v, level), 4 * (v.high - v.low)>>

LEMMA EndsAre ==
    ASSUME NEW v, Quantized(v), NEW level \in Nat
    PROVE  /\ LowerEnd(v, level) = IF level = 0 THEN 0 ELSE (2 * level - 1) * v.quantum
           /\ UpperEnd(v, level) = IF 2 * (v.high - v.low) <= (2 * level + 1) * v.quantum
                                   THEN 2 * (v.high - v.low) ELSE (2 * level + 1) * v.quantum
           /\ LowerEnd(v, level) \in Nat /\ UpperEnd(v, level) \in Nat \ {0}
           /\ MiddleOf(v, level) \in Fraction
<1> DEFINE q == v.quantum
           s == v.high - v.low
           x == (2 * level - 1) * q
           y == (2 * level + 1) * q
<1>1. q \in Nat \ {0} /\ s \in Nat \ {0}
  BY DEF Quantized, FreeTyped
<1>2. LowerEnd(v, level) = Max({0, x}) /\ UpperEnd(v, level) = Min({2 * s, y})
  BY Zenon DEF LowerEnd, UpperEnd
<1>3. MiddleOf(v, level) = <<LowerEnd(v, level) + UpperEnd(v, level), 4 * s>>
  BY Zenon DEF MiddleOf
<1> HIDE DEF q, s
<1>4. x \in Int /\ y \in Nat \ {0} /\ (level = 0 => x < 0) /\ (level # 0 => x >= 0)
  <2>1. y \in Nat \ {0}
    BY <1>1
  <2>2. CASE level = 0
    <3>1. x = -q
      BY <1>1, <2>2
    <3> QED
      BY <1>1, <2>1, <2>2, <3>1
  <2>3. CASE level # 0
    <3>1. 2 * level - 1 \in Nat
      BY <2>3
    <3>2. x \in Nat
      BY <1>1, <3>1
    <3> QED
      BY <2>1, <2>3, <3>2
  <2> QED
    BY <2>2, <2>3
<1> HIDE DEF x, y
<1>5. Max({0, x}) = IF 0 >= x THEN 0 ELSE x
  BY <1>4, MaxOfTwo
<1>6. Min({2 * s, y}) = IF 2 * s <= y THEN 2 * s ELSE y
  BY <1>1, <1>4, MinOfTwo
<1>7. LowerEnd(v, level) = (IF level = 0 THEN 0 ELSE x) /\ LowerEnd(v, level) \in Nat
  BY <1>2, <1>4, <1>5
<1>8. UpperEnd(v, level) = (IF 2 * s <= y THEN 2 * s ELSE y) /\ UpperEnd(v, level) \in Nat \ {0}
  BY <1>1, <1>2, <1>4, <1>6
<1>9. MiddleOf(v, level) \in Fraction
  BY <1>1, <1>3, <1>7, <1>8 DEF Fraction
<1> QED
  BY <1>7, <1>8, <1>9 DEF x, y, s, q

LEMMA MaximumLevelIs ==
    ASSUME NEW v, Quantized(v)
    PROVE  /\ MaximumLevel(v) \in Nat
           /\ MaximumLevel(v) <= Ceiling(v.high - v.low, v.quantum)
           /\ Ceiling(v.high - v.low, v.quantum) \in Nat
           /\ \A m \in Nat : m * v.quantum < v.high - v.low => m <= MaximumLevel(v)
<1> DEFINE q == v.quantum
           s == v.high - v.low
           K == Ceiling(2 * s + q, 2 * q)
           C == Ceiling(s, q)
<1>1. q \in Nat \ {0} /\ s \in Nat \ {0}
  BY DEF Quantized, FreeTyped
<1>2. MaximumLevel(v) = Max({0, K - 1})
  BY Zenon DEF MaximumLevel
<1> HIDE DEF q, s
<1>3. K \in Int /\ 2 * s + q <= K * (2 * q) /\ (K - 1) * (2 * q) < 2 * s + q
  <2> DEFINE a == 2 * s + q
             b == 2 * q
  <2>1. a \in Int /\ b \in Nat \ {0}
    BY <1>1
  <2> HIDE DEF a, b
  <2>2. Ceiling(a, b) \in Int /\ a <= Ceiling(a, b) * b /\ (Ceiling(a, b) - 1) * b < a
    BY <2>1, CeilingIs
  <2> QED
    BY <2>2 DEF a, b
<1>4. C \in Int /\ s <= C * q /\ (C - 1) * q < s
  BY <1>1, CeilingIs
<1> HIDE DEF K, C
<1>5. Max({0, K - 1}) = IF 0 >= K - 1 THEN 0 ELSE K - 1
  BY <1>3, MaxOfTwo
<1>6. C >= 1
  <2> SUFFICES ASSUME C <= 0 PROVE FALSE
    BY <1>4
  <2>1. C * q <= 0
    BY <1>1, <1>4
  <2> QED
    BY <1>1, <1>4, <2>1
<1>7. K - 1 <= C
  <2> SUFFICES ASSUME K - 1 >= C + 1 PROVE FALSE
    BY <1>3, <1>4
  <2>1. (K - 1) * (2 * q) >= (C + 1) * (2 * q)
    BY <1>1, <1>3, <1>4
  <2>2. (C + 1) * (2 * q) = 2 * (C * q) + 2 * q /\ C * q \in Int /\ (K - 1) * (2 * q) \in Int
    BY <1>1, <1>3, <1>4
  <2> QED
    BY <1>1, <1>3, <1>4, <2>1, <2>2
<1>8. ASSUME NEW m \in Nat, m * q < s PROVE m <= K - 1
  <2> SUFFICES ASSUME K <= m PROVE FALSE
    BY <1>3
  <2>1. K * (2 * q) <= m * (2 * q)
    BY <1>1, <1>3
  <2>2. m * (2 * q) = 2 * (m * q) /\ m * q \in Int /\ K * (2 * q) \in Int
    BY <1>1, <1>3
  <2> QED
    BY <1>1, <1>3, <1>8, <2>1, <2>2
<1>9. MaximumLevel(v) \in Nat /\ MaximumLevel(v) <= C /\ C \in Nat
      /\ \A m \in Nat : m * q < s => m <= MaximumLevel(v)
  BY <1>2, <1>3, <1>4, <1>5, <1>6, <1>7, <1>8
<1> QED
  BY <1>9 DEF C, q, s

\* _level_middles(): one level after the other.
Collected(a, v, n) ==
    /\ a[0] = <<>>
    /\ \A k \in 1 .. n :
          a[k] = IF UpperEnd(v, k - 1) > LowerEnd(v, k - 1)
                 THEN Append(a[k - 1], MiddleOf(v, k - 1)) ELSE a[k - 1]

LEMMA MiddlesCollect ==
    ASSUME NEW v, Quantized(v), NEW n, n = MaximumLevel(v) + 1
    PROVE  \E a \in [0 .. n -> Seq(Fraction)] : Collected(a, v, n) /\ Middles(v) = a[n]
<1> DEFINE s == [i \in 1 .. MaximumLevel(v) + 1 |-> i - 1]
           Longer(level, middles) ==
               IF UpperEnd(v, level) > LowerEnd(v, level)
               THEN Append(middles, MiddleOf(v, level)) ELSE middles
           G == [p \in (1 .. n) \X Seq(Fraction) |-> Longer(p[1] - 1, p[2])]
           Looped(it) == it = [t \in SUBSET DOMAIN s |->
                                 IF t = {} THEN <<>> ELSE Longer(s[Max(t)], it[t \ {Max(t)}])]
           chosen == CHOOSE it : Looped(it)
<1>n. n \in Nat
  BY MaximumLevelIs
<1>e. <<>> \in Seq(Fraction)
  OBVIOUS
<1>1. DOMAIN s = 1 .. n /\ \A k \in 1 .. n : s[k] = k - 1 /\ k - 1 \in Nat
  BY <1>n
<1>2. Middles(v) = chosen[DOMAIN s]
  BY Zenon DEF Middles, FoldLeft, MapThenFoldSet, LowerEnd, UpperEnd, MiddleOf
<1>l. \A level \in Nat : \A middles \in Seq(Fraction) : Longer(level, middles) \in Seq(Fraction)
  BY EndsAre
<1> HIDE DEF s
<1>3. G \in [(1 .. n) \X Seq(Fraction) -> Seq(Fraction)]
  <2>1. \A p \in (1 .. n) \X Seq(Fraction) : p[1] - 1 \in Nat /\ p[2] \in Seq(Fraction)
    BY <1>1
  <2> HIDE DEF Longer
  <2>2. \A p \in (1 .. n) \X Seq(Fraction) : Longer(p[1] - 1, p[2]) \in Seq(Fraction)
    BY <1>l, <2>1
  <2> QED
    BY <2>2
<1>4. PICK it \in [SUBSET (1 .. n) -> Seq(Fraction)] : Folds(it, n, <<>>, G)
  <2> HIDE DEF G
  <2> QED
    BY <1>n, <1>e, <1>3, FoldExists
<1>5. Looped(it)
  <2> HIDE DEF Longer
  <2>1. it = [t \in SUBSET (1 .. n) |-> IF t = {} THEN <<>> ELSE G[<<Max(t), it[t \ {Max(t)}]>>]]
    BY <1>4, Zenon DEF Folds
  <2>2. ASSUME NEW t \in SUBSET (1 .. n), t # {}
        PROVE  G[<<Max(t), it[t \ {Max(t)}]>>] = Longer(s[Max(t)], it[t \ {Max(t)}])
    <3>1. Max(t) \in t
      BY <1>n, <2>2, GreatestIn
    <3> DEFINE m == Max(t)
               p == <<m, it[t \ {m}]>>
    <3>2. t \ {m} \in SUBSET (1 .. n) /\ m \in 1 .. n
      BY <3>1
    <3> HIDE DEF m
    <3>3. p \in (1 .. n) \X Seq(Fraction) /\ p[1] = m /\ p[2] = it[t \ {m}]
      BY <3>2
    <3> HIDE DEF p
    <3>4. G[p] = Longer(p[1] - 1, p[2])
      BY <3>3
    <3>5. s[m] = m - 1
      BY <1>1, <3>2
    <3> HIDE DEF G
    <3> QED
      BY <3>3, <3>4, <3>5, Zenon DEF p, m
  <2> HIDE DEF G
  <2> DEFINE right == [t \in SUBSET (1 .. n) |->
                         IF t = {} THEN <<>> ELSE Longer(s[Max(t)], it[t \ {Max(t)}])]
             left == [t \in SUBSET (1 .. n) |->
                         IF t = {} THEN <<>> ELSE G[<<Max(t), it[t \ {Max(t)}]>>]]
  <2>3. left = right
    BY <2>2, Zenon
  <2> QED
    BY <1>1, <2>1, <2>3, Zenon
<1>6. Looped(chosen)
  BY <1>5, Zenon
<1>7. \A t \in SUBSET (1 .. n) :
         chosen[t] = IF t = {} THEN <<>> ELSE Longer(s[Max(t)], chosen[t \ {Max(t)}])
  <2> HIDE DEF Longer
  <2> QED
    BY <1>1, <1>6, Zenon
<1> DEFINE a == [k \in 0 .. n |-> chosen[1 .. k]]
<1> HIDE DEF chosen, G, Longer
<1>p. /\ 1 .. 0 \in SUBSET (1 .. n) /\ 1 .. 0 = {}
      /\ \A k \in 1 .. n : /\ 1 .. k \in SUBSET (1 .. n) /\ 1 .. k # {}
                           /\ Max(1 .. k) = k /\ (1 .. k) \ {k} = 1 .. k - 1
  BY <1>n, InitialParts, Zenon
<1>8. a[0] = <<>>
  <2>1. a[0] = chosen[1 .. 0]
    BY <1>n
  <2> HIDE DEF a
  <2> QED
    BY <1>7, <1>p, <2>1, Zenon
<1>9. ASSUME NEW k \in 1 .. n PROVE a[k] = Longer(k - 1, a[k - 1])
  <2>1. a[k] = chosen[1 .. k] /\ a[k - 1] = chosen[1 .. k - 1] /\ s[k] = k - 1
    BY <1>1, <1>n
  <2>2. /\ 1 .. k \in SUBSET (1 .. n) /\ 1 .. k # {}
        /\ Max(1 .. k) = k /\ (1 .. k) \ {k} = 1 .. k - 1
    BY <1>p
  <2> HIDE DEF a
  <2> QED
    BY <1>7, <2>1, <2>2, ZenonT(60)
<1>10. a \in [0 .. n -> Seq(Fraction)]
  <2> DEFINE good == {k \in 0 .. n : a[k] \in Seq(Fraction)}
  <2>d. a = [k \in 0 .. n |-> a[k]]
    OBVIOUS
  <2> HIDE DEF a
  <2>1. 0 \in good
    <3>1. a[0] \in Seq(Fraction)
      BY <1>e, <1>8, Zenon
    <3>2. 0 \in 0 .. n
      BY <1>n
    <3> QED
      BY <3>1, <3>2
  <2>2. ASSUME NEW k \in 1 .. n, k - 1 \in good PROVE k \in good
    <3>1. a[k - 1] \in Seq(Fraction) /\ k - 1 \in Nat
      BY <1>1, <2>2
    <3>2. a[k] \in Seq(Fraction)
      BY <1>9, <1>l, <3>1
    <3> QED
      BY <3>2
  <2>3. \A k \in 0 .. n : k \in good
    <3> HIDE DEF good
    <3> QED
      BY <1>n, <2>1, <2>2, UpTo
  <2> QED
    BY <2>3, <2>d
<1>11. Middles(v) = a[n]
  BY <1>1, <1>2, <1>n
<1> HIDE DEF a
<1>12. Collected(a, v, n)
  BY <1>8, <1>9, Zenon DEF Collected, Longer
<1> QED
  BY <1>10, <1>11, <1>12

\* The first middle is that of level 0, and no level with an interval is left out.
LEMMA MiddlesAre ==
    ASSUME NEW v, Quantized(v)
    PROVE  /\ Middles(v) \in Seq(Fraction)
           /\ Len(Middles(v)) >= 1 /\ Middles(v)[1] = MiddleOf(v, 0)
           /\ Len(Middles(v)) <= MaximumLevel(v) + 1
           /\ \A m \in 0 .. MaximumLevel(v) : UpperEnd(v, m) > LowerEnd(v, m) =>
                 \E i \in 1 .. Len(Middles(v)) : Middles(v)[i] = MiddleOf(v, m)
<1> DEFINE n == MaximumLevel(v) + 1
           Has(f, m) == \E i \in 1 .. Len(f) : f[i] = MiddleOf(v, m)
<1>1. n \in Nat /\ n >= 1 /\ MaximumLevel(v) = n - 1
  BY MaximumLevelIs
<1>2. PICK a \in [0 .. n -> Seq(Fraction)] : Collected(a, v, n) /\ Middles(v) = a[n]
  BY MiddlesCollect
<1> HIDE DEF n
<1>3. /\ a[0] = <<>>
      /\ \A k \in 1 .. n :
            a[k] = IF UpperEnd(v, k - 1) > LowerEnd(v, k - 1)
                   THEN Append(a[k - 1], MiddleOf(v, k - 1)) ELSE a[k - 1]
  BY <1>2, Zenon DEF Collected
<1> DEFINE good == {k \in 0 .. n :
                      /\ Len(a[k]) <= k
                      /\ k >= 1 => Len(a[k]) >= 1 /\ a[k][1] = MiddleOf(v, 0)
                      /\ \A m \in 0 .. k - 1 : UpperEnd(v, m) > LowerEnd(v, m) => Has(a[k], m)}
<1>4. 0 \in good
  <2>1. Len(a[0]) = 0 /\ 0 \in 0 .. n /\ \A m \in 0 .. 0 - 1 : FALSE
    BY <1>1, <1>3
  <2> HIDE DEF Has
  <2> QED
    BY <2>1
<1>5. ASSUME NEW k \in 1 .. n, k - 1 \in good PROVE k \in good
  <2> DEFINE f == a[k - 1]
             g == a[k]
             x == MiddleOf(v, k - 1)
  <2>1. k - 1 \in 0 .. n /\ k \in 0 .. n /\ k - 1 \in Nat /\ \A m \in 0 .. k - 1 : m \in 0 .. k - 2 \/ m = k - 1
    BY <1>1
  <2>2. f \in Seq(Fraction) /\ x \in Fraction
    BY <2>1, EndsAre
  <2>3. /\ Len(f) <= k - 1
        /\ k - 1 >= 1 => Len(f) >= 1 /\ f[1] = MiddleOf(v, 0)
        /\ \A m \in 0 .. k - 2 : UpperEnd(v, m) > LowerEnd(v, m) => Has(f, m)
    <3> HIDE DEF Has
    <3>1. k - 1 - 1 = k - 2
      OBVIOUS
    <3> QED
      BY <1>5, <3>1
  <2>4. g = IF UpperEnd(v, k - 1) > LowerEnd(v, k - 1) THEN Append(f, x) ELSE f
    BY <1>3, Zenon
  <2>5. k = 1 => UpperEnd(v, k - 1) > LowerEnd(v, k - 1)
    <3> SUFFICES ASSUME k = 1 PROVE UpperEnd(v, 0) > LowerEnd(v, 0)
      OBVIOUS
    <3>1. 0 \in Nat
      OBVIOUS
    <3>2. LowerEnd(v, 0) = 0 /\ UpperEnd(v, 0) \in Nat \ {0}
      BY <3>1, EndsAre, Zenon
    <3> QED
      BY <3>2
  <2>6. k = 1 => x = MiddleOf(v, 0)
    OBVIOUS
  <2> HIDE DEF f, g, x
  <2>7. CASE UpperEnd(v, k - 1) > LowerEnd(v, k - 1)
    <3>1. /\ Len(g) = Len(f) + 1 /\ g[Len(f) + 1] = x
          /\ \A i \in 1 .. Len(f) : g[i] = f[i] /\ i \in 1 .. Len(g)
          /\ Len(f) \in Nat /\ Len(f) + 1 \in 1 .. Len(g)
      BY <2>2, <2>4, <2>7
    <3>2. Len(g) <= k /\ Len(g) >= 1
      BY <2>3, <3>1
    <3>3. g[1] = MiddleOf(v, 0)
      <4>1. CASE k = 1
        <5>1. Len(f) = 0
          BY <2>3, <3>1, <4>1
        <5> QED
          BY <2>6, <3>1, <4>1, <5>1
      <4>2. CASE k # 1
        BY <2>3, <3>1, <4>2
      <4> QED
        BY <4>1, <4>2
    <3>4. ASSUME NEW m \in 0 .. k - 1, UpperEnd(v, m) > LowerEnd(v, m) PROVE Has(g, m)
      <4>1. CASE m = k - 1
        BY <3>1, <4>1 DEF x
      <4>2. CASE m \in 0 .. k - 2
        <5>1. PICK i \in 1 .. Len(f) : f[i] = MiddleOf(v, m)
          BY <2>3, <3>4, <4>2
        <5> QED
          BY <3>1, <5>1
      <4> QED
        BY <2>1, <4>1, <4>2
    <3> HIDE DEF Has
    <3> QED
      BY <2>1, <3>2, <3>3, <3>4 DEF g
  <2>8. CASE ~(UpperEnd(v, k - 1) > LowerEnd(v, k - 1))
    <3>1. g = f /\ k # 1
      BY <2>4, <2>5, <2>8
    <3>2. Len(f) \in Nat
      BY <2>2
    <3>3. Len(g) <= k /\ Len(g) >= 1 /\ g[1] = MiddleOf(v, 0)
      BY <2>3, <3>1, <3>2
    <3>4. ASSUME NEW m \in 0 .. k - 1, UpperEnd(v, m) > LowerEnd(v, m) PROVE Has(g, m)
      <4> HIDE DEF Has
      <4>1. m \in 0 .. k - 2
        BY <2>1, <2>8, <3>4
      <4> QED
        BY <2>3, <3>1, <3>4, <4>1
    <3> HIDE DEF Has
    <3> QED
      BY <2>1, <3>3, <3>4 DEF g
  <2> QED
    BY <2>7, <2>8
<1>6. n \in good
  <2>1. n \in 0 .. n
    BY <1>1
  <2> HIDE DEF good
  <2> QED
    BY <1>1, <1>4, <1>5, <2>1, UpTo
<1>7. /\ Len(a[n]) <= n /\ Len(a[n]) >= 1 /\ a[n][1] = MiddleOf(v, 0)
      /\ \A m \in 0 .. n - 1 : UpperEnd(v, m) > LowerEnd(v, m) => Has(a[n], m)
  <2> HIDE DEF Has
  <2> QED
    BY <1>1, <1>6
<1>8. a[n] \in Seq(Fraction)
  BY <1>1
<1> QED
  BY <1>1, <1>2, <1>7, <1>8


\* The middle of a level's interval of coordinates is rounded to the level.
LEMMA MiddleRounds ==
    ASSUME NEW v, Quantized(v), NEW m \in Nat, m * v.quantum < v.high - v.low
    PROVE  /\ UpperEnd(v, m) > LowerEnd(v, m)
           /\ DecodeVariable(v, MiddleOf(v, m)) = v.low + m * v.quantum
<1> DEFINE q == v.quantum
           s == v.high - v.low
           L == LowerEnd(v, m)
           U == UpperEnd(v, m)
           x == (2 * m - 1) * q
           y == (2 * m + 1) * q
           c == MiddleOf(v, m)
<1>1. q \in Nat \ {0} /\ s \in Nat \ {0} /\ v.low \in Int /\ v.high = v.low + s
  BY DEF Quantized, FreeTyped
<1>2. /\ L = IF m = 0 THEN 0 ELSE x
      /\ U = IF 2 * s <= y THEN 2 * s ELSE y
      /\ L \in Nat /\ U \in Nat \ {0} /\ c \in Fraction
  BY EndsAre
<1>3. c = <<L + U, 4 * s>>
  BY Zenon DEF MiddleOf
<1>s. Step(v) = q
  BY <1>1 DEF Step
<1>4. c[1] = L + U /\ c[2] = 4 * s
  BY <1>3
<1>5. m * q < s
  OBVIOUS
<1> HIDE DEF L, U, c, q, s
<1>6. /\ x = 2 * (m * q) - q /\ y = 2 * (m * q) + q /\ m * q \in Nat
      /\ x \in Int /\ y \in Int
  BY <1>1
<1>7. U > L /\ L < y /\ U <= y /\ U > x
  <2> DEFINE p == m * q
  <2>1. p \in Nat /\ p < s /\ x = 2 * p - q /\ y = 2 * p + q
    BY <1>5, <1>6
  <2> HIDE DEF p, x, y
  <2> QED
    BY <1>1, <1>2, <2>1
<1>8. L >= x
  BY <1>1, <1>2, <1>6
<1> HIDE DEF x, y
<1>9. U <= 2 * s
  BY <1>1, <1>2, <1>6
<1>10. c[1] \in Int /\ c[2] \in Int /\ 0 < c[1] /\ c[1] < c[2]
  <2>0. L \in Nat /\ U \in Nat /\ s \in Nat /\ L < U /\ U <= 2 * s
    BY <1>1, <1>2, <1>7, <1>9
  <2>1. L + U \in Int /\ 4 * s \in Int /\ 0 < L + U /\ L + U < 4 * s
    BY <2>0
  <2> QED
    BY <1>4, <2>1
<1>11. Clamp(c) = c
  <2>1. c \in Fraction /\ 0 <= c[1] /\ c[1] <= c[2]
    BY <1>2, <1>10
  <2> QED
    BY <2>1, Clamped
<1> DEFINE a == (L + U) * s
           b == (4 * s) * q
<1>12. a \in Int /\ b \in Nat \ {0}
  BY <1>1, <1>2
<1>13. (2 * m - 1) * b < 2 * a /\ 2 * a < (2 * m + 1) * b
  <2>1. L + U > 2 * x /\ L + U < 2 * y /\ L + U \in Int /\ x \in Int /\ y \in Int
    BY <1>1, <1>2, <1>6, <1>7, <1>8
  <2> DEFINE sum == L + U
  <2> HIDE DEF sum
  <2>2. 2 * x * s < sum * s /\ sum * s < 2 * y * s
    BY <1>1, <2>1 DEF sum
  <2>3. (2 * m - 1) * b = 4 * (x * s) /\ (2 * m + 1) * b = 4 * (y * s)
    <3>1. x = (2 * m - 1) * q /\ y = (2 * m + 1) * q
      BY DEF x, y
    <3> QED
      BY <1>1, <3>1
  <2>4. 2 * x * s = 2 * (x * s) /\ 2 * y * s = 2 * (y * s) /\ x * s \in Int /\ y * s \in Int
        /\ sum * s \in Int
    BY <1>1, <2>1 DEF sum
  <2>5. a = sum * s
    BY DEF sum
  <2> HIDE DEF a, b
  <2> QED
    BY <2>2, <2>3, <2>4, <2>5
<1> HIDE DEF a, b
<1>14. Rounded(a, b) = m
  BY <1>12, <1>13, RoundedIs
<1>15. FreeTyped(v) /\ v.kind = "real"
  BY DEF Quantized
<1>16. DecodeVariable(v, c) = QuantizeReal(v, c[1] * s, c[2])
  <2>1. DecodeVariable(v, c) = DecodedReal(v, c)
    BY <1>11, <1>15, DecodeReal
  <2>2. c[1] # 0 /\ c[1] # c[2]
    BY <1>10
  <2> QED
    BY <2>1, <2>2, Zenon DEF DecodedReal, s
<1>17. QuantizeReal(v, a, 4 * s) =
         LET level == v.low + Rounded(a, (4 * s) * Step(v)) * Step(v)
         IN  IF level <= v.low THEN v.low ELSE IF level >= v.high THEN v.high ELSE level
  <2> DEFINE w == 4 * s
  <2>1. w \in Nat \ {0}
    BY <1>1
  <2> HIDE DEF w
  <2>2. QuantizeReal(v, a, w) =
         LET level == v.low + Rounded(a, w * Step(v)) * Step(v)
         IN  IF level <= v.low THEN v.low ELSE IF level >= v.high THEN v.high ELSE level
    BY <1>12, <1>15, <2>1, QuantizedReal
  <2> QED
    BY <2>2 DEF w
<1>18. c[1] * s = a
  BY <1>4 DEF a
<1>19. (4 * s) * Step(v) = b
  BY <1>s DEF b
<1>20. QuantizeReal(v, a, 4 * s) =
         IF v.low + m * q <= v.low THEN v.low
         ELSE IF v.low + m * q >= v.high THEN v.high ELSE v.low + m * q
  BY <1>14, <1>17, <1>19, <1>s
<1>21. v.low + m * q >= v.low /\ v.low + m * q < v.high
  BY <1>1, <1>5, <1>6
<1>22. DecodeVariable(v, c) = v.low + m * q
  BY <1>1, <1>4, <1>6, <1>16, <1>18, <1>20, <1>21
<1> QED
  BY <1>7, <1>22 DEF q, L, U, c

\* What the candidates of an axis must be for the walk to be a proof.
Covers(v, cs) ==
    /\ cs \in Seq(Fraction) /\ Len(cs) >= 1
    /\ \A c \in Fraction : \E k \in 1 .. Len(cs) : DecodeVariable(v, cs[k]) = DecodeVariable(v, c)

LEMMA RealCandidates ==
    ASSUME NEW v, Quantized(v)
    PROVE  /\ Covers(v, Candidates(v))
           /\ AxisSize(v) \in Nat /\ Len(Candidates(v)) <= AxisSize(v) + 1
           /\ Len(Candidates(v)) >= 3
           /\ DecodeVariable(v, Candidates(v)[1]) = DecodeVariable(v, Candidates(v)[3])
<1> DEFINE ends == <<<<0, 1>>, <<1, 1>>>>
           middles == Middles(v)
           cs == ends \o middles
           C == Ceiling(v.high - v.low, v.quantum)
<1>0. FreeTyped(v) /\ v.kind = "real" /\ v.quantum \in Nat \ {0}
      /\ v.low \in Int /\ v.high \in Int /\ v.low < v.high
  BY DEF Quantized, FreeTyped
<1>1. Candidates(v) = cs
  BY <1>0, Zenon DEF Candidates
<1>2. /\ middles \in Seq(Fraction)
      /\ Len(middles) >= 1 /\ middles[1] = MiddleOf(v, 0)
      /\ Len(middles) <= MaximumLevel(v) + 1
      /\ \A m \in 0 .. MaximumLevel(v) : UpperEnd(v, m) > LowerEnd(v, m) =>
            \E i \in 1 .. Len(middles) : middles[i] = MiddleOf(v, m)
  BY MiddlesAre
<1>3. ends \in Seq(Fraction) /\ Len(ends) = 2 /\ ends[1] = <<0, 1>> /\ ends[2] = <<1, 1>>
  BY DEF Fraction
<1> HIDE DEF middles, ends
<1>4. /\ cs \in Seq(Fraction) /\ Len(cs) = 2 + Len(middles)
      /\ cs[1] = <<0, 1>> /\ cs[2] = <<1, 1>>
      /\ \A i \in 1 .. Len(middles) : cs[2 + i] = middles[i] /\ 2 + i \in 1 .. Len(cs)
      /\ Len(middles) \in Nat
  <2>1. /\ cs \in Seq(Fraction) /\ Len(cs) = Len(ends) + Len(middles) /\ Len(middles) \in Nat
        /\ \A i \in 1 .. Len(cs) :
              cs[i] = IF i <= Len(ends) THEN ends[i] ELSE middles[i - Len(ends)]
    <3>1. ends \in Seq(Fraction) /\ middles \in Seq(Fraction)
      BY <1>2, <1>3
    <3> QED
      BY <3>1
  <2> HIDE DEF cs
  <2>2. 1 \in 1 .. Len(cs) /\ 2 \in 1 .. Len(cs)
    BY <1>3, <2>1
  <2>3. cs[1] = ends[1] /\ cs[2] = ends[2]
    BY <1>3, <2>1, <2>2
  <2>4. ASSUME NEW i \in 1 .. Len(middles) PROVE cs[2 + i] = middles[i] /\ 2 + i \in 1 .. Len(cs)
    <3>1. 2 + i \in 1 .. Len(cs) /\ ~(2 + i <= 2) /\ 2 + i - 2 = i
      BY <1>3, <2>1
    <3> QED
      BY <1>3, <2>1, <3>1
  <2> QED
    BY <1>3, <2>1, <2>3, <2>4
<1> HIDE DEF cs
<1>5. AxisSize(v) = C + 2
  BY <1>0, Zenon DEF AxisSize
<1>6. /\ MaximumLevel(v) \in Nat /\ MaximumLevel(v) <= C /\ C \in Nat
      /\ \A m \in Nat : m * v.quantum < v.high - v.low => m <= MaximumLevel(v)
  BY MaximumLevelIs
<1>7. AxisSize(v) \in Nat /\ Len(cs) <= AxisSize(v) + 1 /\ Len(cs) >= 3
  <2> HIDE DEF C
  <2> QED
    BY <1>2, <1>4, <1>5, <1>6
<1>8. DecodeVariable(v, <<0, 1>>) = v.low
  <2> DEFINE c == <<0, 1>>
  <2>1. c \in Fraction /\ Clamp(c) = c /\ c[1] = 0
    BY Clamped DEF Fraction
  <2> QED
    BY <1>0, <2>1, DecodeReal DEF DecodedReal
<1>9. DecodeVariable(v, <<1, 1>>) = v.high
  <2> DEFINE c == <<1, 1>>
  <2>1. c \in Fraction /\ Clamp(c) = c /\ c[1] = 1 /\ c[2] = 1
    BY Clamped DEF Fraction
  <2> QED
    BY <1>0, <2>1, DecodeReal DEF DecodedReal
<1>10. cs[3] = MiddleOf(v, 0)
  <2>1. 1 \in 1 .. Len(middles) /\ 2 + 1 = 3
    BY <1>2, <1>4
  <2>2. cs[2 + 1] = middles[1]
    BY <1>4, <2>1
  <2> QED
    BY <1>2, <2>1, <2>2
<1>11. DecodeVariable(v, cs[1]) = DecodeVariable(v, cs[3])
  <2>1. 0 \in Nat /\ 0 * v.quantum = 0 /\ 0 * v.quantum < v.high - v.low
    BY <1>0
  <2>2. DecodeVariable(v, MiddleOf(v, 0)) = v.low + 0 * v.quantum
    BY <2>1, MiddleRounds
  <2> QED
    BY <1>0, <1>4, <1>8, <1>10, <2>1, <2>2
<1>12. ASSUME NEW c \in Fraction
       PROVE  \E k \in 1 .. Len(cs) : DecodeVariable(v, cs[k]) = DecodeVariable(v, c)
  <2> DEFINE value == DecodeVariable(v, c)
  <2>1. \/ value \in {v.low, v.high}
        \/ \E m \in Int : /\ value = v.low + m * Step(v)
                          /\ v.low < v.low + m * Step(v) /\ v.low + m * Step(v) < v.high
    BY <1>0, RealValues
  <2>2. Step(v) = v.quantum
    BY <1>0 DEF Step
  <2> HIDE DEF value
  <2>3. 1 \in 1 .. Len(cs) /\ 2 \in 1 .. Len(cs)
    BY <1>4, <1>7
  <2>4. ASSUME value \in {v.low, v.high}
        PROVE  \E k \in 1 .. Len(cs) : DecodeVariable(v, cs[k]) = value
    BY <1>4, <1>8, <1>9, <2>3, <2>4
  <2>5. ASSUME NEW m \in Int, value = v.low + m * v.quantum,
               v.low < v.low + m * v.quantum, v.low + m * v.quantum < v.high
        PROVE  \E k \in 1 .. Len(cs) : DecodeVariable(v, cs[k]) = value
    <3> DEFINE q == v.quantum
               p == m * q
    <3>1. q \in Nat \ {0} /\ p \in Int /\ v.low < v.low + p /\ v.low + p < v.high
      BY <1>0, <2>5
    <3>2. p > 0 /\ p < v.high - v.low
      <4> HIDE DEF p
      <4> QED
        BY <1>0, <3>1
    <3>3. m \in Nat
      <4> SUFFICES ASSUME m <= -1 PROVE FALSE
        OBVIOUS
      <4> HIDE DEF q
      <4>1. m * q <= 0 /\ m * q \in Int
        BY <3>1
      <4>2. m * q > 0
        BY <3>2
      <4> QED
        BY <4>1, <4>2
    <3>4. m \in 0 .. MaximumLevel(v)
      BY <1>6, <3>2, <3>3
    <3>5. UpperEnd(v, m) > LowerEnd(v, m) /\ DecodeVariable(v, MiddleOf(v, m)) = v.low + p
      BY <3>2, <3>3, MiddleRounds
    <3>6. PICK i \in 1 .. Len(middles) : middles[i] = MiddleOf(v, m)
      BY <1>2, <3>4, <3>5
    <3>7. cs[2 + i] = middles[i] /\ 2 + i \in 1 .. Len(cs)
      BY <1>4
    <3> QED
      BY <2>5, <3>5, <3>6, <3>7
  <2>6. \E k \in 1 .. Len(cs) : DecodeVariable(v, cs[k]) = value
    BY <2>1, <2>2, <2>4, <2>5
  <2> QED
    BY <2>6 DEF value
<1>13. Covers(v, cs)
  BY <1>4, <1>7, <1>12 DEF Covers
<1> QED
  BY <1>1, <1>7, <1>11, <1>13

LEMMA IntegerCandidates ==
    ASSUME NEW v, FreeTyped(v), v.kind = "integer"
    PROVE  /\ Covers(v, Candidates(v))
           /\ AxisSize(v) \in Nat /\ Len(Candidates(v)) <= AxisSize(v)
<1> DEFINE s == v.high - v.low
           many == [i \in 1 .. v.high - v.low + 1 |-> <<i - 1, v.high - v.low>>]
           one == <<<<1, 2>>>>
<1>0. v.low \in Int /\ v.high \in Int /\ v.low <= v.high /\ s \in Nat /\ v.high = v.low + s
  BY DEF FreeTyped
<1>1. v.kind # "real"
  OBVIOUS
<1>2. AxisSize(v) = v.high - v.low + 1
  BY <1>1, Zenon DEF AxisSize
<1>3. ASSUME NEW c \in Fraction PROVE DecodeVariable(v, c) \in v.low .. v.high
  BY IntegerWithin
<1>4. CASE v.high = v.low
  <2>1. Candidates(v) = one
    BY <1>1, <1>4, Zenon DEF Candidates
  <2>2. one \in Seq(Fraction) /\ Len(one) = 1 /\ one[1] = <<1, 2>> /\ <<1, 2>> \in Fraction
    BY DEF Fraction
  <2> HIDE DEF one
  <2>3. \A c \in Fraction : DecodeVariable(v, c) = v.low
    BY <1>0, <1>3, <1>4
  <2>4. Covers(v, one)
    <3>1. 1 \in 1 .. Len(one)
      BY <2>2
    <3> QED
      BY <2>2, <2>3, <3>1 DEF Covers
  <2> QED
    BY <1>0, <1>2, <1>4, <2>1, <2>2, <2>4, SMTT(30)
<1>5. CASE v.high # v.low
  <2>1. Candidates(v) = many
    BY <1>1, <1>5, Zenon DEF Candidates
  <2>2. s \in Nat \ {0}
    BY <1>0, <1>5
  <2>3. \A i \in 1 .. s + 1 : <<i - 1, s>> \in Fraction
    BY <2>2 DEF Fraction
  <2>4. many \in Seq(Fraction) /\ Len(many) = s + 1 /\ \A i \in 1 .. s + 1 : many[i] = <<i - 1, s>>
    <3>1. many = [i \in 1 .. s + 1 |-> <<i - 1, s>>]
      OBVIOUS
    <3>2. s + 1 \in Nat
      BY <2>2
    <3> HIDE DEF s, many
    <3> QED
      BY <2>3, <3>1, <3>2
  <2> HIDE DEF many, s
  <2>5. ASSUME NEW m \in 0 .. s PROVE DecodeVariable(v, <<m, s>>) = v.low + m
    <3> DEFINE d == <<m, s>>
    <3>1. d \in Fraction /\ d[1] = m /\ d[2] = s /\ Clamp(d) = d
      BY <2>2, Clamped DEF Fraction
    <3> HIDE DEF d
    <3>2. DecodeVariable(v, d) = Min({v.high, v.low + Rounded(m * s, s)})
      BY <3>1, DecodeInteger DEF DecodedInteger, s
    <3>3. Rounded(m * s, s) = m
      BY <2>2, RoundedExact
    <3>4. v.low + m \in Int /\ v.low + m <= v.high
      BY <1>0, <2>2
    <3>5. Min({v.high, v.low + m}) = v.low + m
      BY <1>0, <3>4, MinOfTwo
    <3> QED
      BY <3>2, <3>3, <3>5 DEF d
  <2>6. ASSUME NEW c \in Fraction
        PROVE  \E k \in 1 .. Len(many) : DecodeVariable(v, many[k]) = DecodeVariable(v, c)
    <3> DEFINE m == DecodeVariable(v, c) - v.low
    <3>1. m \in 0 .. s /\ DecodeVariable(v, c) = v.low + m
      BY <1>0, <1>3
    <3> HIDE DEF m
    <3> DEFINE j == m + 1
    <3>2. j \in 1 .. s + 1 /\ j - 1 = m
      BY <2>2, <3>1
    <3> HIDE DEF j
    <3>3. many[j] = <<j - 1, s>>
      BY <2>4, <3>2
    <3>4. many[j] = <<m, s>>
      BY <3>2, <3>3
    <3> QED
      BY <2>4, <2>5, <3>1, <3>2, <3>4
  <2>7. Covers(v, many)
    <3>1. Len(many) >= 1
      BY <2>2, <2>4
    <3> QED
      BY <2>4, <2>6, <3>1 DEF Covers
  <2>8. AxisSize(v) = s + 1
    BY <1>2 DEF s
  <2> QED
    BY <2>1, <2>2, <2>4, <2>7, <2>8
<1> QED
  BY <1>4, <1>5

LEMMA ChoiceCandidates ==
    ASSUME NEW v, FreeTyped(v), v.kind = "choice"
    PROVE  /\ Covers(v, Candidates(v))
           /\ AxisSize(v) \in Nat /\ Len(Candidates(v)) <= AxisSize(v)
<1> DEFINE n == Len(v.values)
           cs == [i \in DOMAIN v.values |-> <<2 * i - 1, 2 * Len(v.values)>>]
<1>0. v.values \in Seq(Int) /\ v.values # <<>>
  BY DEF FreeTyped
<1>1. v.kind # "real" /\ v.kind # "integer"
  OBVIOUS
<1>2. AxisSize(v) = n /\ Candidates(v) = cs
  BY <1>1, Zenon DEF AxisSize, Candidates
<1>3. n \in Nat \ {0} /\ DOMAIN v.values = 1 .. n
  BY <1>0
<1>4. \A i \in 1 .. n : /\ <<2 * i - 1, 2 * n>> \in Fraction
                        /\ Clamp(<<2 * i - 1, 2 * n>>) = <<2 * i - 1, 2 * n>>
                        /\ ChosenIndex(<<2 * i - 1, 2 * n>>, n) = i
  <2> HIDE DEF n
  <2> QED
    BY <1>3, MiddleChosen
<1>5. cs \in Seq(Fraction) /\ Len(cs) = n /\ \A i \in 1 .. n : cs[i] = <<2 * i - 1, 2 * n>>
  <2>1. cs = [i \in 1 .. n |-> <<2 * i - 1, 2 * n>>]
    BY <1>3
  <2> DEFINE code(i) == <<2 * i - 1, 2 * n>>
  <2>2. \A i \in 1 .. n : code(i) \in Fraction
    BY <1>4, Zenon
  <2>3. cs = [i \in 1 .. n |-> code(i)]
    BY <2>1, Zenon
  <2> HIDE DEF n, cs, code
  <2>4. cs \in Seq(Fraction) /\ Len(cs) = n /\ \A i \in 1 .. n : cs[i] = code(i)
    BY <1>3, <2>2, <2>3
  <2> QED
    BY <2>4, Zenon DEF code
<1>6. \A c \in Fraction : DecodeVariable(v, c) = v.values[ChosenIndex(Clamp(c), n)]
                          /\ ChosenIndex(Clamp(c), n) \in 1 .. n
  <2> SUFFICES ASSUME NEW c \in Fraction
               PROVE  DecodeVariable(v, c) = v.values[ChosenIndex(Clamp(c), n)]
                      /\ ChosenIndex(Clamp(c), n) \in 1 .. n
    OBVIOUS
  <2>1. DecodeVariable(v, c) = v.values[ChosenIndex(Clamp(c), n)]
    BY DecodeChoice
  <2> HIDE DEF n
  <2>2. ChosenIndex(Clamp(c), n) \in 1 .. n
    BY <1>3, Clamped, ChosenIndexIs
  <2> QED
    BY <2>1, <2>2
<1> HIDE DEF n, cs
<1>7. ASSUME NEW c \in Fraction
      PROVE  \E k \in 1 .. Len(cs) : DecodeVariable(v, cs[k]) = DecodeVariable(v, c)
  <2> DEFINE k == ChosenIndex(Clamp(c), n)
  <2>1. DecodeVariable(v, c) = v.values[k] /\ k \in 1 .. n
    BY <1>6
  <2> HIDE DEF k
  <2>2. cs[k] \in Fraction /\ Clamp(cs[k]) = cs[k] /\ ChosenIndex(cs[k], n) = k
    BY <1>4, <1>5, <2>1
  <2>3. DecodeVariable(v, cs[k]) = v.values[k]
    BY <1>6, <2>2
  <2> QED
    BY <1>5, <2>1, <2>3
<1>8. Covers(v, cs)
  <2>1. Len(cs) >= 1
    BY <1>3, <1>5
  <2> QED
    BY <1>5, <1>7, <2>1 DEF Covers
<1> QED
  BY <1>2, <1>3, <1>5, <1>8
-----------------------------------------------------------------------------
(* The representatives of an axis.                                         *)

Taken(v, axis, c) == \E i \in DOMAIN axis : DecodeVariable(v, axis[i]) = DecodeVariable(v, c)

\* _unique_axis(): one candidate after the other.
Represented(a, v, cs) ==
    /\ a[0] = <<>>
    /\ \A k \in 1 .. Len(cs) :
          a[k] = IF Taken(v, a[k - 1], cs[k]) THEN a[k - 1] ELSE Append(a[k - 1], cs[k])

LEMMA RepresentativesCollect ==
    ASSUME NEW v, NEW cs \in Seq(Fraction), cs = Candidates(v)
    PROVE  \E a \in [0 .. Len(cs) -> Seq(Fraction)] :
              Represented(a, v, cs) /\ Representatives(v) = a[Len(cs)]
<1> DEFINE n == Len(cs)
           Longer(c, axis) == IF Taken(v, axis, c) THEN axis ELSE Append(axis, c)
           G == [p \in (1 .. n) \X Seq(Fraction) |-> Longer(cs[p[1]], p[2])]
           Looped(it) == it = [t \in SUBSET DOMAIN Candidates(v) |->
                                 IF t = {} THEN <<>>
                                 ELSE Longer(Candidates(v)[Max(t)], it[t \ {Max(t)}])]
           chosen == CHOOSE it : Looped(it)
<1>n. n \in Nat
  OBVIOUS
<1>e. <<>> \in Seq(Fraction)
  OBVIOUS
<1>1. DOMAIN cs = 1 .. n /\ \A k \in 1 .. n : cs[k] \in Fraction
  OBVIOUS
<1>2. Representatives(v) = chosen[DOMAIN Candidates(v)]
  BY Zenon DEF Representatives, FoldLeft, MapThenFoldSet, Taken
<1>l. \A c \in Fraction : \A axis \in Seq(Fraction) : Longer(c, axis) \in Seq(Fraction)
  OBVIOUS
<1>3. G \in [(1 .. n) \X Seq(Fraction) -> Seq(Fraction)]
  <2>1. \A p \in (1 .. n) \X Seq(Fraction) : cs[p[1]] \in Fraction /\ p[2] \in Seq(Fraction)
    BY <1>1
  <2> HIDE DEF Longer
  <2>2. \A p \in (1 .. n) \X Seq(Fraction) : Longer(cs[p[1]], p[2]) \in Seq(Fraction)
    BY <1>l, <2>1
  <2> QED
    BY <2>2
<1>4. PICK it \in [SUBSET (1 .. n) -> Seq(Fraction)] : Folds(it, n, <<>>, G)
  <2> HIDE DEF G, n
  <2> QED
    BY <1>n, <1>e, <1>3, FoldExists
<1>5. Looped(it)
  <2> HIDE DEF Longer
  <2>1. it = [t \in SUBSET (1 .. n) |-> IF t = {} THEN <<>> ELSE G[<<Max(t), it[t \ {Max(t)}]>>]]
    BY <1>4, Zenon DEF Folds
  <2>2. ASSUME NEW t \in SUBSET (1 .. n), t # {}
        PROVE  G[<<Max(t), it[t \ {Max(t)}]>>] = Longer(cs[Max(t)], it[t \ {Max(t)}])
    <3>1. Max(t) \in t
      BY <1>n, <2>2, GreatestIn
    <3> DEFINE m == Max(t)
               p == <<m, it[t \ {m}]>>
    <3>2. t \ {m} \in SUBSET (1 .. n) /\ m \in 1 .. n
      BY <3>1
    <3> HIDE DEF m
    <3>3. p \in (1 .. n) \X Seq(Fraction) /\ p[1] = m /\ p[2] = it[t \ {m}]
      BY <3>2
    <3> HIDE DEF p
    <3>4. G[p] = Longer(cs[p[1]], p[2])
      BY <3>3
    <3> HIDE DEF G
    <3> QED
      BY <3>3, <3>4, Zenon DEF p, m
  <2> HIDE DEF G
  <2> DEFINE right == [t \in SUBSET (1 .. n) |->
                         IF t = {} THEN <<>> ELSE Longer(cs[Max(t)], it[t \ {Max(t)}])]
             left == [t \in SUBSET (1 .. n) |->
                         IF t = {} THEN <<>> ELSE G[<<Max(t), it[t \ {Max(t)}]>>]]
  <2>3. left = right
    BY <2>2, Zenon
  <2>4. it = [t \in SUBSET DOMAIN cs |->
                IF t = {} THEN <<>> ELSE Longer(cs[Max(t)], it[t \ {Max(t)}])]
    BY <1>1, <2>1, <2>3, Zenon
  <2> QED
    BY <2>4, Zenon
<1>6. Looped(chosen)
  BY <1>5, Zenon
<1>7. \A t \in SUBSET (1 .. n) :
         chosen[t] = IF t = {} THEN <<>> ELSE Longer(cs[Max(t)], chosen[t \ {Max(t)}])
  <2> HIDE DEF Longer
  <2>1. \A t \in SUBSET DOMAIN cs :
         chosen[t] = IF t = {} THEN <<>> ELSE Longer(cs[Max(t)], chosen[t \ {Max(t)}])
    BY <1>6, Zenon
  <2> QED
    BY <1>1, <2>1, Zenon
<1> DEFINE a == [k \in 0 .. n |-> chosen[1 .. k]]
<1> HIDE DEF chosen, G, Longer, n
<1>p. /\ 1 .. 0 \in SUBSET (1 .. n) /\ 1 .. 0 = {}
      /\ \A k \in 1 .. n : /\ 1 .. k \in SUBSET (1 .. n) /\ 1 .. k # {}
                           /\ Max(1 .. k) = k /\ (1 .. k) \ {k} = 1 .. k - 1
  BY <1>n, InitialParts, Zenon
<1>8. a[0] = <<>>
  <2>1. a[0] = chosen[1 .. 0]
    BY <1>n
  <2> HIDE DEF a
  <2> QED
    BY <1>7, <1>p, <2>1, Zenon
<1>9. ASSUME NEW k \in 1 .. n PROVE a[k] = Longer(cs[k], a[k - 1])
  <2>1. a[k] = chosen[1 .. k] /\ a[k - 1] = chosen[1 .. k - 1]
    BY <1>1, <1>n
  <2>2. /\ 1 .. k \in SUBSET (1 .. n) /\ 1 .. k # {}
        /\ Max(1 .. k) = k /\ (1 .. k) \ {k} = 1 .. k - 1
    BY <1>p
  <2> HIDE DEF a
  <2> QED
    BY <1>7, <2>1, <2>2, Zenon
<1>10. a \in [0 .. n -> Seq(Fraction)]
  <2> DEFINE good == {k \in 0 .. n : a[k] \in Seq(Fraction)}
  <2>d. a = [k \in 0 .. n |-> a[k]]
    OBVIOUS
  <2> HIDE DEF a
  <2>1. 0 \in good
    <3>1. a[0] \in Seq(Fraction)
      BY <1>e, <1>8, Zenon
    <3>2. 0 \in 0 .. n
      BY <1>n
    <3> QED
      BY <3>1, <3>2
  <2>2. ASSUME NEW k \in 1 .. n, k - 1 \in good PROVE k \in good
    <3>1. a[k - 1] \in Seq(Fraction) /\ cs[k] \in Fraction
      BY <1>1, <2>2
    <3>2. a[k] \in Seq(Fraction)
      BY <1>9, <1>l, <3>1
    <3> QED
      BY <3>2
  <2>3. \A k \in 0 .. n : k \in good
    <3> HIDE DEF good
    <3> QED
      BY <1>n, <2>1, <2>2, UpTo
  <2> QED
    BY <2>3, <2>d
<1>11. Representatives(v) = a[n]
  <2>1. DOMAIN Candidates(v) = 1 .. n /\ n \in 0 .. n
    BY <1>1, <1>n
  <2> QED
    BY <1>2, <2>1
<1> HIDE DEF a
<1>12. Represented(a, v, cs)
  BY <1>8, <1>9, Zenon DEF Represented, Longer, n
<1> QED
  BY <1>10, <1>11, <1>12 DEF n

\* Every value of the first k candidates once, by one of them.
Chosen(axis, k, v, cs) ==
    /\ \A i \in 1 .. Len(axis) : \E j \in 1 .. k : axis[i] = cs[j]
    /\ \A j \in 1 .. k : \E i \in 1 .. Len(axis) :
          DecodeVariable(v, axis[i]) = DecodeVariable(v, cs[j])
    /\ \A i, j \in 1 .. Len(axis) : DecodeVariable(v, axis[i]) = DecodeVariable(v, axis[j]) => i = j

LEMMA RepresentativesAre ==
    ASSUME NEW v, NEW cs \in Seq(Fraction), cs = Candidates(v)
    PROVE  /\ Representatives(v) \in Seq(Fraction)
           /\ Chosen(Representatives(v), Len(cs), v, cs)
           /\ Len(Representatives(v)) <= Len(cs)
           /\ Len(cs) >= 3 /\ DecodeVariable(v, cs[1]) = DecodeVariable(v, cs[3]) =>
                Len(Representatives(v)) <= Len(cs) - 1
<1> DEFINE n == Len(cs)
           Twice == DecodeVariable(v, cs[1]) = DecodeVariable(v, cs[3])
<1>1. n \in Nat /\ DOMAIN cs = 1 .. n /\ \A k \in 1 .. n : cs[k] \in Fraction
  OBVIOUS
<1>2. PICK a \in [0 .. n -> Seq(Fraction)] : Represented(a, v, cs) /\ Representatives(v) = a[n]
  BY RepresentativesCollect
<1>3. /\ a[0] = <<>>
      /\ \A k \in 1 .. n :
            a[k] = IF Taken(v, a[k - 1], cs[k]) THEN a[k - 1] ELSE Append(a[k - 1], cs[k])
  BY <1>2, Zenon DEF Represented
<1>4. \A k \in 0 .. n : a[k] \in Seq(Fraction) /\ Len(a[k]) \in Nat /\ DOMAIN a[k] = 1 .. Len(a[k])
  OBVIOUS
<1> HIDE DEF n
<1> DEFINE good == {k \in 0 .. n :
                      /\ Chosen(a[k], k, v, cs) /\ Len(a[k]) <= k
                      /\ k >= 3 /\ Twice => Len(a[k]) <= k - 1}
<1>5. 0 \in good
  <2>1. Len(a[0]) = 0 /\ 0 \in 0 .. n
    BY <1>1, <1>3
  <2>2. Chosen(a[0], 0, v, cs)
    BY <2>1 DEF Chosen
  <2> HIDE DEF Twice
  <2> QED
    BY <2>1, <2>2
<1>6. ASSUME NEW k \in 1 .. n, k - 1 \in good PROVE k \in good
  <2> DEFINE f == a[k - 1]
             g == a[k]
             c == cs[k]
  <2>1. k - 1 \in 0 .. n /\ k \in 0 .. n /\ c \in Fraction /\ \A j \in 1 .. k : j \in 1 .. k - 1 \/ j = k
    BY <1>1
  <2>2. f \in Seq(Fraction) /\ Len(f) \in Nat /\ DOMAIN f = 1 .. Len(f)
    BY <1>4, <2>1
  <2>3. Chosen(f, k - 1, v, cs) /\ Len(f) <= k - 1 /\ (k - 1 >= 3 /\ Twice => Len(f) <= k - 2)
    <3> HIDE DEF Twice
    <3>1. k - 1 - 1 = k - 2
      OBVIOUS
    <3> QED
      BY <1>6, <3>1
  <2>4. g = IF Taken(v, f, c) THEN f ELSE Append(f, c)
    BY <1>3, Zenon
  <2>5. \A j \in 1 .. k - 1 : j \in 1 .. k
    OBVIOUS
  <2>6. k = 3 /\ Twice => Taken(v, f, c)
    <3> SUFFICES ASSUME k = 3, Twice PROVE Taken(v, f, c)
      OBVIOUS
    <3>1. 1 \in 1 .. k - 1
      OBVIOUS
    <3>2. PICK i \in 1 .. Len(f) : DecodeVariable(v, f[i]) = DecodeVariable(v, cs[1])
      BY <2>3, <3>1, Zenon DEF Chosen
    <3>3. DecodeVariable(v, cs[1]) = DecodeVariable(v, c)
      OBVIOUS
    <3> QED
      BY <2>2, <3>2, <3>3, Zenon DEF Taken
  <2> HIDE DEF f, g, c, Twice
  <2>7. CASE Taken(v, f, c)
    <3>1. g = f
      BY <2>4, <2>7
    <3>2. PICK i \in 1 .. Len(f) : DecodeVariable(v, f[i]) = DecodeVariable(v, c)
      BY <2>2, <2>7, Zenon DEF Taken
    <3>3. \A l \in 1 .. Len(f) : \E j \in 1 .. k : f[l] = cs[j]
      BY <2>3, <2>5, Zenon DEF Chosen
    <3>4. \A j \in 1 .. k : \E l \in 1 .. Len(f) : DecodeVariable(v, f[l]) = DecodeVariable(v, cs[j])
      BY <2>1, <2>3, <3>2, Zenon DEF Chosen, c
    <3>5. Chosen(f, k, v, cs)
      BY <2>3, <3>3, <3>4, Zenon DEF Chosen
    <3>6. Len(f) <= k /\ (k >= 3 /\ Twice => Len(f) <= k - 1)
      BY <2>2, <2>3
    <3> QED
      BY <2>1, <3>1, <3>5, <3>6 DEF g
  <2>8. CASE ~Taken(v, f, c)
    <3>1. /\ Len(g) = Len(f) + 1 /\ g[Len(f) + 1] = c
          /\ \A i \in 1 .. Len(f) : g[i] = f[i] /\ i \in 1 .. Len(g)
          /\ Len(f) + 1 \in 1 .. Len(g)
          /\ \A i \in 1 .. Len(g) : i \in 1 .. Len(f) \/ i = Len(f) + 1
      BY <2>1, <2>2, <2>4, <2>8
    <3>2. k \in 1 .. k
      OBVIOUS
    <3>3. \A i \in 1 .. Len(g) : \E j \in 1 .. k : g[i] = cs[j]
      <4>1. ASSUME NEW i \in 1 .. Len(f) PROVE \E j \in 1 .. k : g[i] = cs[j]
        <5>1. PICK j \in 1 .. k - 1 : f[i] = cs[j]
          BY <2>3, Zenon DEF Chosen
        <5>2. j \in 1 .. k /\ g[i] = f[i]
          BY <2>5, <3>1
        <5> QED
          BY <5>1, <5>2
      <4>2. g[Len(f) + 1] = cs[k]
        BY <3>1 DEF c
      <4> QED
        BY <3>1, <3>2, <4>1, <4>2, Zenon
    <3>4. \A j \in 1 .. k : \E i \in 1 .. Len(g) : DecodeVariable(v, g[i]) = DecodeVariable(v, cs[j])
      <4>1. ASSUME NEW j \in 1 .. k - 1
            PROVE  \E i \in 1 .. Len(g) : DecodeVariable(v, g[i]) = DecodeVariable(v, cs[j])
        <5>1. PICK i \in 1 .. Len(f) : DecodeVariable(v, f[i]) = DecodeVariable(v, cs[j])
          BY <2>3, Zenon DEF Chosen
        <5>2. i \in 1 .. Len(g) /\ g[i] = f[i]
          BY <3>1
        <5> QED
          BY <5>1, <5>2
      <4>2. g[Len(f) + 1] = cs[k]
        BY <3>1 DEF c
      <4> QED
        BY <2>1, <3>1, <4>1, <4>2, Zenon
    <3>5. \A i \in 1 .. Len(f) : DecodeVariable(v, g[i]) # DecodeVariable(v, g[Len(f) + 1])
      BY <2>2, <2>8, <3>1, Zenon DEF Taken
    <3>6. ASSUME NEW i \in 1 .. Len(g), NEW j \in 1 .. Len(g),
                 DecodeVariable(v, g[i]) = DecodeVariable(v, g[j])
          PROVE  i = j
      <4>1. CASE i \in 1 .. Len(f) /\ j \in 1 .. Len(f)
        <5>1. DecodeVariable(v, f[i]) = DecodeVariable(v, f[j])
          BY <3>1, <3>6, <4>1
        <5> QED
          BY <2>3, <4>1, <5>1, Zenon DEF Chosen
      <4>2. CASE i = Len(f) + 1 \/ j = Len(f) + 1
        BY <3>1, <3>5, <3>6, <4>2, Zenon
      <4> QED
        BY <3>1, <4>1, <4>2
    <3>7. Chosen(g, k, v, cs)
      BY <3>3, <3>4, <3>6, Zenon DEF Chosen
    <3>8. Len(g) <= k /\ (k >= 3 /\ Twice => Len(g) <= k - 1)
      BY <2>2, <2>3, <2>6, <2>8, <3>1
    <3> QED
      BY <2>1, <3>7, <3>8 DEF g
  <2> QED
    BY <2>7, <2>8
<1>7. n \in good
  <2>1. n \in 0 .. n
    BY <1>1
  <2> HIDE DEF good
  <2> QED
    BY <1>1, <1>5, <1>6, <2>1, UpTo
<1>8. a[n] \in Seq(Fraction)
  BY <1>1, <1>4
<1> QED
  BY <1>2, <1>7, <1>8 DEF n

\* A walk along an axis comes to every value once, and to no more than the size allows.
LEMMA AxisIs ==
    ASSUME NEW v, FreeTyped(v), Enumerable(v)
    PROVE  LET r == Representatives(v)
           IN  /\ r \in Seq(Fraction) /\ Len(r) \in Nat \ {0}
               /\ \A i \in 1 .. Len(r) : r[i] \in ToSet(Candidates(v))
               /\ \A i, j \in 1 .. Len(r) :
                     DecodeVariable(v, r[i]) = DecodeVariable(v, r[j]) => i = j
               /\ \A c \in Fraction : \E i \in 1 .. Len(r) :
                     DecodeVariable(v, r[i]) = DecodeVariable(v, c)
               /\ AxisSize(v) \in Nat /\ Len(r) <= AxisSize(v)
<1> DEFINE r == Representatives(v)
           cs == Candidates(v)
           n == Len(cs)
<1>1. /\ Covers(v, cs) /\ AxisSize(v) \in Nat
      /\ \/ n <= AxisSize(v)
         \/ /\ n <= AxisSize(v) + 1 /\ n >= 3
            /\ DecodeVariable(v, cs[1]) = DecodeVariable(v, cs[3])
  <2>1. CASE v.kind = "real"
    <3>1. Quantized(v)
      BY <2>1 DEF Quantized, Enumerable, FreeTyped
    <3> QED
      BY <3>1, RealCandidates
  <2>2. CASE v.kind = "integer"
    BY <2>2, IntegerCandidates
  <2>3. CASE v.kind = "choice"
    BY <2>3, ChoiceCandidates
  <2> QED
    BY <2>1, <2>2, <2>3 DEF FreeTyped
<1>2. cs \in Seq(Fraction) /\ n >= 1 /\ n \in Nat /\ DOMAIN cs = 1 .. n
  BY <1>1 DEF Covers
<1>3. \A c \in Fraction : \E k \in 1 .. n : DecodeVariable(v, cs[k]) = DecodeVariable(v, c)
  BY <1>1 DEF Covers
<1>4. /\ r \in Seq(Fraction) /\ Chosen(r, n, v, cs) /\ Len(r) <= n
      /\ n >= 3 /\ DecodeVariable(v, cs[1]) = DecodeVariable(v, cs[3]) => Len(r) <= n - 1
  BY <1>2, RepresentativesAre
<1> HIDE DEF r, n, cs
<1>5. Len(r) \in Nat
  BY <1>4
<1>6. Len(r) <= AxisSize(v)
  BY <1>1, <1>2, <1>4, <1>5
<1>7. ASSUME NEW c \in Fraction
      PROVE  \E i \in 1 .. Len(r) : DecodeVariable(v, r[i]) = DecodeVariable(v, c)
  <2>1. PICK k \in 1 .. n : DecodeVariable(v, cs[k]) = DecodeVariable(v, c)
    BY <1>3
  <2>2. PICK i \in 1 .. Len(r) : DecodeVariable(v, r[i]) = DecodeVariable(v, cs[k])
    BY <1>4, Zenon DEF Chosen
  <2> QED
    BY <2>1, <2>2
<1>8. Len(r) # 0
  <2>1. 1 \in 1 .. n
    BY <1>2
  <2>2. \E i \in 1 .. Len(r) : TRUE
    BY <1>4, <2>1, Zenon DEF Chosen
  <2> QED
    BY <1>5, <2>2
<1>9. \A i \in 1 .. Len(r) : r[i] \in ToSet(cs)
  <2>1. \A i \in 1 .. Len(r) : \E j \in 1 .. n : r[i] = cs[j]
    BY <1>4, Zenon DEF Chosen
  <2> QED
    BY <1>2, <2>1, Zenon DEF ToSet
<1>10. \A i, j \in 1 .. Len(r) : DecodeVariable(v, r[i]) = DecodeVariable(v, r[j]) => i = j
  BY <1>4, Zenon DEF Chosen
<1> QED
  BY <1>1, <1>4, <1>5, <1>6, <1>7, <1>8, <1>9, <1>10 DEF r, cs
-----------------------------------------------------------------------------
(* The points of the walk.                                                 *)

\* A document's free variables that have finitely many values, and their axes.
Walked(vs, f, ax) ==
    /\ Parsed(vs) /\ f = FreeVariables(vs)
    /\ ax = [i \in DOMAIN f |-> Representatives(f[i])]
    /\ \A i \in 1 .. Len(f) : Enumerable(f[i])

\* How many points there are for every step of the i-th axis.
Weight(ax, i) == Product([j \in 1 .. Len(ax) - i |-> Len(ax[i + j])])

LEMMA WalkedAxes ==
    ASSUME NEW vs, NEW f, NEW ax, Walked(vs, f, ax)
    PROVE  /\ Len(f) \in Nat /\ DOMAIN f = 1 .. Len(f) /\ DOMAIN ax = 1 .. Len(f) /\ Len(ax) = Len(f)
           /\ \A i \in 1 .. Len(f) :
                 /\ FreeTyped(f[i]) /\ ax[i] = Representatives(f[i])
                 /\ ax[i] \in Seq(Fraction) /\ Len(ax[i]) \in Nat \ {0}
                 /\ \A k \in 1 .. Len(ax[i]) : ax[i][k] \in Fraction
<1>1. Len(f) \in Nat /\ DOMAIN f = 1 .. Len(f)
  BY FreesOfParsed DEF Walked
<1>2. ax = [i \in 1 .. Len(f) |-> Representatives(f[i])]
  BY <1>1 DEF Walked
<1>3. DOMAIN ax = 1 .. Len(f) /\ \A i \in 1 .. Len(f) : ax[i] = Representatives(f[i])
  BY <1>2
<1>4. Len(ax) = Len(f)
  <2> DEFINE n == Len(f)
             R(i) == Representatives(f[i])
  <2>1. ax = [i \in 1 .. n |-> R(i)]
    BY <1>2
  <2> HIDE DEF n, R
  <2> QED
    BY <1>1, <2>1 DEF n
<1>5. ASSUME NEW i \in 1 .. Len(f)
      PROVE  /\ FreeTyped(f[i])
             /\ ax[i] \in Seq(Fraction) /\ Len(ax[i]) \in Nat \ {0}
             /\ \A k \in 1 .. Len(ax[i]) : ax[i][k] \in Fraction
  <2>1. FreeTyped(f[i]) /\ Enumerable(f[i])
    BY FreesOfParsed DEF Walked
  <2> DEFINE r == Representatives(f[i])
  <2>2. r \in Seq(Fraction) /\ Len(r) \in Nat \ {0}
    BY <2>1, AxisIs
  <2>3. ax[i] = r
    BY <1>3
  <2> HIDE DEF r
  <2>4. \A k \in 1 .. Len(r) : r[k] \in Fraction
    BY <2>2
  <2> QED
    BY <2>1, <2>2, <2>3, <2>4
<1> QED
  BY <1>1, <1>3, <1>4, <1>5

\* The weights of the axes are those of a mixed radix.
LEMMA WeightsAreRadix ==
    ASSUME NEW vs, NEW f, NEW ax, Walked(vs, f, ax)
    PROVE  Radix([i \in 1 .. Len(f) |-> Len(ax[i])], [i \in 0 .. Len(f) |-> Weight(ax, i)], Len(f))
<1> DEFINE n == Len(f)
           sizes(i) == [j \in 1 .. n - i |-> Len(ax[i + j])]
           L == [i \in 1 .. n |-> Len(ax[i])]
           P == [i \in 0 .. n |-> Weight(ax, i)]
<1>1. n \in Nat /\ Len(ax) = n /\ \A i \in 1 .. n : Len(ax[i]) \in Nat \ {0}
  BY WalkedAxes
<1>2. \A i \in 0 .. n : Weight(ax, i) = Product(sizes(i))
  BY <1>1, Zenon DEF Weight
<1>3. ASSUME NEW i \in 0 .. n
      PROVE  /\ sizes(i) \in Seq(Nat) /\ Len(sizes(i)) = n - i
             /\ \A j \in 1 .. n - i : sizes(i)[j] = Len(ax[i + j]) /\ Len(ax[i + j]) \in Nat \ {0}
  <2> DEFINE m == n - i
             s == sizes(i)
             e(j) == Len(ax[i + j])
  <2>1. m \in Nat
    BY <1>1
  <2>2. \A j \in 1 .. m : i + j \in 1 .. n
    BY <1>1
  <2>3. \A j \in 1 .. m : e(j) \in Nat \ {0}
    BY <1>1, <2>2
  <2>4. s = [j \in 1 .. m |-> e(j)]
    OBVIOUS
  <2> HIDE DEF m, s, e
  <2>5. s \in Seq(Nat) /\ Len(s) = m /\ \A j \in 1 .. m : s[j] = e(j)
    BY <2>1, <2>3, <2>4
  <2> QED
    BY <2>3, <2>5 DEF m, s, e
<1> HIDE DEF n, sizes
<1>4. ASSUME NEW i \in 0 .. n PROVE Weight(ax, i) \in Nat \ {0}
  <2> DEFINE s == sizes(i)
  <2>1. s \in Seq(Nat) /\ Len(s) = n - i /\ \A j \in 1 .. n - i : s[j] # 0
    BY <1>3
  <2>2. Weight(ax, i) = Product(s)
    BY <1>2
  <2> HIDE DEF s
  <2>3. \A j \in 1 .. Len(s) : s[j] # 0
    BY <2>1
  <2>4. Product(s) \in Nat \ {0}
    BY <2>1, <2>3, ProductPositive
  <2> QED
    BY <2>2, <2>4
<1>5. Weight(ax, n) = 1
  <2> DEFINE s == sizes(n)
  <2>0. n \in 0 .. n /\ n - n = 0
    BY <1>1
  <2>1. s \in Seq(Nat) /\ Len(s) = 0
    BY <1>3, <2>0
  <2>2. Weight(ax, n) = Product(s)
    BY <1>2, <2>0
  <2> HIDE DEF s
  <2>3. PICK a \in [0 .. Len(s) -> Nat] : Multiplied(a, s) /\ Product(s) = a[Len(s)]
    BY <2>1, ProductIs
  <2> QED
    BY <2>1, <2>2, <2>3 DEF Multiplied
<1>6. ASSUME NEW i \in 1 .. n PROVE Weight(ax, i - 1) = Len(ax[i]) * Weight(ax, i)
  <2> DEFINE s == sizes(i - 1)
             rest == sizes(i)
  <2>0. i - 1 \in 0 .. n /\ i \in 0 .. n /\ n - (i - 1) = n - i + 1 /\ n - i \in Nat /\ i - 1 + 1 = i
    BY <1>1
  <2>1. s \in Seq(Nat) /\ Len(s) = n - i + 1 /\ \A j \in 1 .. n - i + 1 : s[j] = Len(ax[i - 1 + j])
    BY <1>3, <2>0
  <2>2. rest \in Seq(Nat) /\ Len(rest) = n - i /\ \A j \in 1 .. n - i : rest[j] = Len(ax[i + j])
    BY <1>3, <2>0
  <2>3. Weight(ax, i - 1) = Product(s) /\ Weight(ax, i) = Product(rest)
    BY <1>2, <2>0
  <2> HIDE DEF s, rest
  <2>4. s # <<>> /\ Len(rest) = Len(s) - 1
    BY <2>0, <2>1, <2>2
  <2>5. \A j \in 1 .. Len(s) - 1 : rest[j] = s[1 + j]
    <3> SUFFICES ASSUME NEW j \in 1 .. n - i PROVE rest[j] = s[1 + j]
      BY <2>0, <2>1
    <3> DEFINE k == 1 + j
    <3>1. k \in 1 .. n - i + 1 /\ i - 1 + k = i + j
      BY <2>0
    <3> HIDE DEF k
    <3>2. s[k] = Len(ax[i - 1 + k])
      BY <2>1, <3>1
    <3>3. s[k] = Len(ax[i + j])
      BY <3>1, <3>2
    <3> QED
      BY <2>2, <3>3 DEF k
  <2>6. Product(s) = s[1] * Product(rest)
    BY <2>1, <2>2, <2>4, <2>5, ProductOfRest
  <2>7. s[1] = Len(ax[i])
    <3>1. 1 \in 1 .. n - i + 1
      BY <2>0
    <3>2. s[1] = Len(ax[i - 1 + 1])
      BY <2>1, <3>1
    <3> QED
      BY <2>0, <3>2
  <2> QED
    BY <2>3, <2>6, <2>7
<1>7. L \in [1 .. n -> Nat \ {0}] /\ \A i \in 1 .. n : L[i] = Len(ax[i])
  BY <1>1
<1>8. P \in [0 .. n -> Nat \ {0}] /\ \A i \in 0 .. n : P[i] = Weight(ax, i)
  BY <1>4
<1>9. n \in 0 .. n /\ \A i \in 1 .. n : i \in 0 .. n /\ i - 1 \in 0 .. n
  BY <1>1
<1> HIDE DEF L, P
<1>10. Radix(L, P, n)
  <2>1. P[n] = 1
    BY <1>5, <1>8, <1>9
  <2>2. \A i \in 1 .. n : P[i - 1] = L[i] * P[i]
    BY <1>6, <1>7, <1>8, <1>9
  <2> QED
    BY <1>7, <1>8, <2>1, <2>2 DEF Radix
<1> QED
  BY <1>10 DEF L, P, n


\* The coordinates of an index of the walk.
Digit(ax, x, i) == ((x \div Weight(ax, i)) % Len(ax[i])) + 1

CoordinatesAt(ax, x) == [i \in DOMAIN ax |-> ax[i][Digit(ax, x, i)]]

LEMMA CoordinatesAtIs ==
    ASSUME NEW vs, NEW f, NEW ax, Walked(vs, f, ax), NEW x \in Nat
    PROVE  /\ \A i \in 1 .. Len(f) : /\ Digit(ax, x, i) \in 1 .. Len(ax[i])
                                     /\ CoordinatesAt(ax, x)[i] = ax[i][Digit(ax, x, i)]
           /\ Coordinated(vs, CoordinatesAt(ax, x))
<1> DEFINE n == Len(f)
           L == [i \in 1 .. n |-> Len(ax[i])]
           P == [i \in 0 .. n |-> Weight(ax, i)]
<1>1. Radix(L, P, n)
  BY WeightsAreRadix
<1>2. /\ DOMAIN ax = 1 .. n /\ n \in Nat
      /\ \A i \in 1 .. n : /\ Len(ax[i]) \in Nat \ {0}
                           /\ \A k \in 1 .. Len(ax[i]) : ax[i][k] \in Fraction
  BY WalkedAxes
<1>3. ASSUME NEW i \in 1 .. n PROVE Digit(ax, x, i) \in 1 .. Len(ax[i])
  <2>1. i \in 0 .. n
    BY <1>2
  <2>2. Weight(ax, i) \in Nat \ {0}
    BY <1>1, <2>1 DEF Radix
  <2> DEFINE w == Weight(ax, i)
             l == Len(ax[i])
             q == x \div w
  <2>3. w \in Nat \ {0} /\ l \in Nat \ {0}
    BY <1>2, <2>2
  <2> HIDE DEF w, l
  <2>4. q \in Int
    BY <2>3
  <2> HIDE DEF q
  <2>5. (q % l) + 1 \in 1 .. l
    BY <2>3, <2>4
  <2> QED
    BY <2>5 DEF Digit, q, l, w
<1>4. \A i \in 1 .. n : CoordinatesAt(ax, x)[i] = ax[i][Digit(ax, x, i)]
  BY <1>2, Zenon DEF CoordinatesAt
<1>5. \A i \in 1 .. n : CoordinatesAt(ax, x)[i] \in Fraction
  BY <1>2, <1>3, <1>4
<1>6. f = FreeVariables(vs)
  BY DEF Walked
<1> QED
  BY <1>3, <1>4, <1>5, <1>6 DEF Coordinated

\* Two indices never have the same point.
LEMMA OneIndexPerPoint ==
    ASSUME NEW vs, NEW f, NEW ax, Walked(vs, f, ax),
           NEW x \in 0 .. Weight(ax, 0) - 1, NEW y \in 0 .. Weight(ax, 0) - 1,
           Decode(vs, CoordinatesAt(ax, x)) = Decode(vs, CoordinatesAt(ax, y))
    PROVE  x = y
<1> DEFINE n == Len(f)
           L == [i \in 1 .. n |-> Len(ax[i])]
           P == [i \in 0 .. n |-> Weight(ax, i)]
<1>1. Radix(L, P, n)
  BY WeightsAreRadix
<1>2. n \in Nat /\ \A i \in 1 .. n : ax[i] = Representatives(f[i]) /\ FreeTyped(f[i])
  BY WalkedAxes
<1>3. /\ Parsed(vs) /\ f = FreeVariables(vs) /\ \A i \in 1 .. n : Enumerable(f[i])
  BY DEF Walked
<1>4. P[0] = Weight(ax, 0) /\ \A i \in 1 .. n : P[i] = Weight(ax, i) /\ L[i] = Len(ax[i])
  BY <1>2
<1>w. Weight(ax, 0) \in Int
  <2>1. 0 \in 0 .. n
    BY <1>2
  <2> QED
    BY <1>1, <1>4, <2>1 DEF Radix
<1>5. x \in Nat /\ y \in Nat
  BY <1>w
<1>6. ASSUME NEW i \in 1 .. n PROVE Digit(ax, x, i) = Digit(ax, y, i)
  <2>0. ASSUME NEW z \in Nat
        PROVE  /\ Digit(ax, z, i) \in 1 .. Len(ax[i])
               /\ CoordinatesAt(ax, z)[i] = ax[i][Digit(ax, z, i)]
               /\ Coordinated(vs, CoordinatesAt(ax, z))
    BY CoordinatesAtIs
  <2>1. /\ Digit(ax, x, i) \in 1 .. Len(ax[i]) /\ Digit(ax, y, i) \in 1 .. Len(ax[i])
        /\ CoordinatesAt(ax, x)[i] = ax[i][Digit(ax, x, i)]
        /\ CoordinatesAt(ax, y)[i] = ax[i][Digit(ax, y, i)]
        /\ Coordinated(vs, CoordinatesAt(ax, x)) /\ Coordinated(vs, CoordinatesAt(ax, y))
    BY <1>5, <2>0
  <2>2. /\ Decode(vs, CoordinatesAt(ax, x))[f[i].name] = DecodeVariable(f[i], CoordinatesAt(ax, x)[i])
        /\ Decode(vs, CoordinatesAt(ax, y))[f[i].name] = DecodeVariable(f[i], CoordinatesAt(ax, y)[i])
    BY <1>3, <2>1, DecodeIs
  <2>3. DecodeVariable(f[i], ax[i][Digit(ax, x, i)]) = DecodeVariable(f[i], ax[i][Digit(ax, y, i)])
    BY <2>1, <2>2
  <2>4. FreeTyped(f[i]) /\ Enumerable(f[i])
    BY <1>2, <1>3
  <2> DEFINE v == f[i]
             r == Representatives(v)
  <2>5. \A k, l \in 1 .. Len(r) : DecodeVariable(v, r[k]) = DecodeVariable(v, r[l]) => k = l
    BY <2>4, AxisIs
  <2>6. ax[i] = r
    BY <1>2
  <2> QED
    BY <2>1, <2>3, <2>5, <2>6
<1>7. ASSUME NEW i \in 1 .. n PROVE (x \div P[i]) % L[i] = (y \div P[i]) % L[i]
  <2>1. i \in 0 .. n
    BY <1>2
  <2>2. P[i] \in Nat \ {0} /\ L[i] \in Nat \ {0}
    BY <1>1, <2>1 DEF Radix
  <2> DEFINE p == P[i]
             l == L[i]
             xd == (x \div p) % l
             yd == (y \div p) % l
  <2>3. xd + 1 = yd + 1
    BY <1>4, <1>6, Zenon DEF Digit
  <2>4. p \in Nat \ {0} /\ l \in Nat \ {0}
    BY <2>2
  <2> HIDE DEF p, l
  <2>5. x \div p \in Int /\ y \div p \in Int
    BY <1>5, <2>4
  <2>6. xd \in Int /\ yd \in Int
    BY <2>4, <2>5
  <2> HIDE DEF xd, yd
  <2>7. xd = yd
    BY <2>3, <2>6
  <2> QED
    BY <2>7 DEF xd, yd, p, l
<1>8. x \in 0 .. P[0] - 1 /\ y \in 0 .. P[0] - 1
  BY <1>4
<1> HIDE DEF n, L, P
<1> QED
  BY <1>1, <1>2, <1>7, <1>8, DigitsDetermine

\* Whatever coordinates decode to, some index has.
LEMMA EveryPointHasIndex ==
    ASSUME NEW vs, NEW f, NEW ax, Walked(vs, f, ax), NEW c, Coordinated(vs, c)
    PROVE  \E x \in 0 .. Weight(ax, 0) - 1 : Decode(vs, CoordinatesAt(ax, x)) = Decode(vs, c)
<1> DEFINE n == Len(f)
           L == [i \in 1 .. n |-> Len(ax[i])]
           P == [i \in 0 .. n |-> Weight(ax, i)]
           Which(i) == CHOOSE k \in 1 .. Len(ax[i]) :
                          DecodeVariable(f[i], ax[i][k]) = DecodeVariable(f[i], c[i])
           d == [i \in 1 .. n |-> Which(i) - 1]
<1>1. Radix(L, P, n)
  BY WeightsAreRadix
<1>2. /\ n \in Nat
      /\ \A i \in 1 .. n : /\ ax[i] = Representatives(f[i]) /\ FreeTyped(f[i])
                           /\ Len(ax[i]) \in Nat \ {0}
  BY WalkedAxes
<1>3. /\ Parsed(vs) /\ f = FreeVariables(vs) /\ \A i \in 1 .. n : Enumerable(f[i])
  BY DEF Walked
<1>4. P[0] = Weight(ax, 0) /\ \A i \in 1 .. n : P[i] = Weight(ax, i) /\ L[i] = Len(ax[i])
  BY <1>2
<1>5. ASSUME NEW i \in 1 .. n
      PROVE  /\ Which(i) \in 1 .. Len(ax[i])
             /\ DecodeVariable(f[i], ax[i][Which(i)]) = DecodeVariable(f[i], c[i])
  <2>1. c[i] \in Fraction /\ FreeTyped(f[i]) /\ Enumerable(f[i])
    BY <1>2, <1>3 DEF Coordinated
  <2> DEFINE v == f[i]
             r == Representatives(v)
  <2>2. \E k \in 1 .. Len(r) : DecodeVariable(v, r[k]) = DecodeVariable(v, c[i])
    BY <2>1, AxisIs
  <2>3. ax[i] = r
    BY <1>2
  <2>4. \E k \in 1 .. Len(ax[i]) : DecodeVariable(f[i], ax[i][k]) = DecodeVariable(f[i], c[i])
    BY <2>2, <2>3, Zenon
  <2> QED
    BY <2>4, Zenon
<1> HIDE DEF Which
<1>6. d \in [1 .. n -> Nat] /\ \A i \in 1 .. n : d[i] = Which(i) - 1 /\ d[i] < L[i]
  <2>1. \A i \in 1 .. n : Which(i) - 1 \in Nat /\ Which(i) - 1 < Len(ax[i])
    BY <1>2, <1>5
  <2> QED
    BY <1>4, <2>1
<1> HIDE DEF n, L, P, d
<1>7. PICK x \in 0 .. P[0] - 1 : \A i \in 1 .. n : (x \div P[i]) % L[i] = d[i]
  BY <1>1, <1>2, <1>6, DigitsExist
<1>8. x \in Nat
  <2>1. 0 \in 0 .. n
    BY <1>2
  <2>2. P[0] \in Nat
    BY <1>1, <2>1 DEF Radix
  <2> QED
    BY <2>2
<1>9. ASSUME NEW i \in 1 .. n PROVE Digit(ax, x, i) = Which(i)
  <2>1. Digit(ax, x, i) = ((x \div P[i]) % L[i]) + 1
    BY <1>4, Zenon DEF Digit
  <2>2. (x \div P[i]) % L[i] = Which(i) - 1
    BY <1>6, <1>7
  <2>3. Digit(ax, x, i) = Which(i) - 1 + 1
    BY <2>1, <2>2, Zenon
  <2>4. Which(i) \in Int
    BY <1>2, <1>5
  <2> QED
    BY <2>3, <2>4
<1>10. \A i \in 1 .. n : CoordinatesAt(ax, x)[i] = ax[i][Digit(ax, x, i)]
  BY <1>8, CoordinatesAtIs DEF n
<1>11. \A i \in 1 .. n : DecodeVariable(f[i], CoordinatesAt(ax, x)[i]) = DecodeVariable(f[i], c[i])
  BY <1>5, <1>9, <1>10
<1>12. Decode(vs, CoordinatesAt(ax, x)) = Decode(vs, c)
  BY <1>3, <1>11, DecodeSame DEF n
<1> QED
  BY <1>4, <1>7, <1>12

\* There are no more points than the size that was checked against the limit.
LEMMA WalkIsWithinSize ==
    ASSUME NEW vs, NEW f, NEW ax, Walked(vs, f, ax)
    PROVE  /\ Weight(ax, 0) \in Nat
           /\ Weight(ax, 0) <= Product([i \in DOMAIN f |-> AxisSize(f[i])])
           /\ Product([i \in DOMAIN f |-> AxisSize(f[i])]) \in Nat
           /\ Weight(ax, 0) = Product([i \in DOMAIN ax |-> Len(ax[i])])
<1> DEFINE n == Len(f)
           s == [i \in DOMAIN ax |-> Len(ax[i])]
           t == [i \in DOMAIN f |-> AxisSize(f[i])]
           z == [j \in 1 .. Len(ax) - 0 |-> Len(ax[0 + j])]
<1>1. /\ n \in Nat /\ DOMAIN f = 1 .. n /\ DOMAIN ax = 1 .. n /\ Len(ax) = n
      /\ \A i \in 1 .. n : /\ ax[i] = Representatives(f[i]) /\ FreeTyped(f[i])
                           /\ Len(ax[i]) \in Nat \ {0}
  BY WalkedAxes
<1>2. ASSUME NEW i \in 1 .. n PROVE AxisSize(f[i]) \in Nat /\ Len(ax[i]) <= AxisSize(f[i])
  <2>1. FreeTyped(f[i]) /\ Enumerable(f[i])
    BY <1>1 DEF Walked
  <2> DEFINE v == f[i]
             r == Representatives(v)
  <2>2. AxisSize(v) \in Nat /\ Len(r) <= AxisSize(v)
    BY <2>1, AxisIs
  <2>3. ax[i] = r
    BY <1>1
  <2> QED
    BY <2>2, <2>3
<1>3. s \in Seq(Nat) /\ Len(s) = n /\ \A i \in 1 .. n : s[i] = Len(ax[i])
  <2> DEFINE e(i) == Len(ax[i])
  <2>1. \A i \in 1 .. n : e(i) \in Nat
    BY <1>1
  <2>2. s = [i \in 1 .. n |-> e(i)]
    BY <1>1
  <2> HIDE DEF s, e, n
  <2>3. s \in Seq(Nat) /\ Len(s) = n /\ \A i \in 1 .. n : s[i] = e(i)
    BY <1>1, <2>1, <2>2
  <2> QED
    BY <2>3 DEF e
<1>4. t \in Seq(Nat) /\ Len(t) = n /\ \A i \in 1 .. n : t[i] = AxisSize(f[i])
  <2> DEFINE e(i) == AxisSize(f[i])
  <2>1. \A i \in 1 .. n : e(i) \in Nat
    BY <1>2
  <2>2. t = [i \in 1 .. n |-> e(i)]
    BY <1>1
  <2> HIDE DEF t, e, n
  <2>3. t \in Seq(Nat) /\ Len(t) = n /\ \A i \in 1 .. n : t[i] = e(i)
    BY <1>1, <2>1, <2>2
  <2> QED
    BY <2>3 DEF e
<1>5. z = s
  <2>1. \A j \in 1 .. n : 0 + j = j
    OBVIOUS
  <2>2. Len(ax) - 0 = n
    BY <1>1
  <2>3. \A j \in 1 .. n : Len(ax[0 + j]) = Len(ax[j])
    BY <2>1, Zenon
  <2>4. [j \in 1 .. n |-> Len(ax[0 + j])] = [j \in 1 .. n |-> Len(ax[j])]
    BY <2>3, Zenon
  <2>5. z = [j \in 1 .. n |-> Len(ax[0 + j])]
    BY <2>2, Zenon
  <2>6. s = [j \in 1 .. n |-> Len(ax[j])]
    BY <1>1, Zenon
  <2> QED
    BY <2>4, <2>5, <2>6, Zenon
<1>6. Weight(ax, 0) = Product(z)
  BY Zenon DEF Weight
<1> HIDE DEF s, t, z
<1>7. Product(s) <= Product(t)
  BY <1>2, <1>3, <1>4, ProductMonotone
<1>8. Product(s) \in Nat /\ Product(t) \in Nat
  <2>1. ASSUME NEW x \in Seq(Nat) PROVE Product(x) \in Nat
    <3>1. PICK a \in [0 .. Len(x) -> Nat] : Multiplied(a, x) /\ Product(x) = a[Len(x)]
      BY ProductIs
    <3>2. Len(x) \in 0 .. Len(x)
      BY <2>1
    <3> QED
      BY <3>1, <3>2
  <2> QED
    BY <1>3, <1>4, <2>1
<1> QED
  BY <1>5, <1>6, <1>7, <1>8 DEF s, t
-----------------------------------------------------------------------------
(* The search.                                                             *)

\* What any coordinates decode to.
Points(vs) == {Decode(vs, c) : c \in [1 .. Len(FreeVariables(vs)) -> Fraction]}

LEMMA DecodedPoint ==
    ASSUME NEW vs, Parsed(vs), NEW c, Coordinated(vs, c)
    PROVE  Decode(vs, c) \in Points(vs)
<1> DEFINE n == Len(FreeVariables(vs))
           d == [i \in 1 .. n |-> c[i]]
<1>1. d \in [1 .. n -> Fraction] /\ \A i \in 1 .. n : d[i] = c[i]
  BY DEF Coordinated
<1> HIDE DEF d
<1>2. Decode(vs, d) = Decode(vs, c)
  BY <1>1, DecodeSame
<1> QED
  BY <1>1, <1>2, Zenon DEF Points

LEMMA PointDecoded ==
    ASSUME NEW vs, NEW point \in Points(vs)
    PROVE  \E c \in [1 .. Len(FreeVariables(vs)) -> Fraction] :
              Coordinated(vs, c) /\ point = Decode(vs, c)
<1>1. PICK c \in [1 .. Len(FreeVariables(vs)) -> Fraction] : point = Decode(vs, c)
  BY Zenon DEF Points
<1>2. Coordinated(vs, c)
  BY DEF Coordinated
<1> QED
  BY <1>1, <1>2

\* A draw yields fractions, and some for every value that a representative has.
Drawable(v) ==
    /\ v.kind = "choice" => Len(v.values) < Precision
    /\ Coordinates(v) \subseteq Fraction
    /\ Enumerable(v) =>
          \A c \in ToSet(Candidates(v)) : \E d \in Coordinates(v) :
              DecodeVariable(v, d) = DecodeVariable(v, c)

\* Both facts about the walk rest on where the points come from.
WalkInvariant ==
    /\ Parsed(variables)
    /\ \A i \in 1 .. Len(FreeVariables(variables)) : Drawable(FreeVariables(variables)[i])
    /\ axes # NotFinite =>
          /\ Walked(variables, FreeVariables(variables), axes)
          /\ Product([i \in DOMAIN FreeVariables(variables) |-> AxisSize(FreeVariables(variables)[i])])
                <= MaxEnumerable
    /\ seen \subseteq Points(variables)
    /\ cursor \in Nat
    /\ axes # NotFinite =>
          /\ cursor <= Weight(axes, 0)
          /\ \A index \in 0 .. cursor - 1 : PointAt(index) \in seen

LEMMA PointAtIs ==
    ASSUME NEW index
    PROVE  PointAt(index) = Decode(variables, CoordinatesAt(axes, index))
  BY Zenon DEF PointAt, CoordinatesAt, Digit, Weight

LEMMA CardinalIs ==
    ASSUME NEW f, Walked(variables, f, axes)
    PROVE  /\ Cardinal = Weight(axes, 0) /\ Cardinal \in Nat
           /\ Cardinal <= Product([i \in DOMAIN f |-> AxisSize(f[i])])
           /\ Product([i \in DOMAIN f |-> AxisSize(f[i])]) \in Nat
<1> DEFINE size == Product([i \in DOMAIN f |-> AxisSize(f[i])])
           sizes == Product([i \in DOMAIN axes |-> Len(axes[i])])
<1>1. Weight(axes, 0) \in Nat /\ Weight(axes, 0) <= size /\ size \in Nat
      /\ Weight(axes, 0) = sizes
  BY WalkIsWithinSize
<1>2. Cardinal = sizes
  BY Zenon DEF Cardinal
<1> HIDE DEF size, sizes
<1> QED
  BY <1>1, <1>2 DEF size

\* A draw is a point of some coordinates.
LEMMA DrawnPoint ==
    ASSUME WalkInvariant, NEW point \in Decodable
    PROVE  point \in Points(variables)
<1> DEFINE f == FreeVariables(variables)
           Witness(v, value) == CHOOSE c \in Coordinates(v) : DecodeVariable(v, c) = value
           coords(ch) == [i \in DOMAIN f |-> Witness(f[i], ch[i])]
<1>1. PICK ch \in {g \in [DOMAIN f -> UNION {FreeValues(f[i]) : i \in DOMAIN f}] :
                     \A i \in DOMAIN f : g[i] \in FreeValues(f[i])} :
         point = Decode(variables, coords(ch))
  BY Zenon DEF Decodable
<1>2. \A i \in DOMAIN f : ch[i] \in FreeValues(f[i])
  BY <1>1, Zenon
<1>3. Parsed(variables) /\ \A i \in 1 .. Len(f) : Coordinates(f[i]) \subseteq Fraction
  BY DEF WalkInvariant, Drawable
<1>4. DOMAIN f = 1 .. Len(f)
  BY <1>3, FreesOfParsed
<1>5. ASSUME NEW i \in DOMAIN f PROVE Witness(f[i], ch[i]) \in Fraction
  <2>1. \E c \in Coordinates(f[i]) : DecodeVariable(f[i], c) = ch[i]
    BY <1>2, Zenon DEF FreeValues
  <2>2. Witness(f[i], ch[i]) \in Coordinates(f[i])
    BY <2>1, Zenon
  <2> QED
    BY <1>3, <1>4, <2>2
<1> HIDE DEF Witness
<1>6. \A i \in 1 .. Len(f) : coords(ch)[i] \in Fraction
  BY <1>4, <1>5
<1> HIDE DEF coords
<1>7. Coordinated(variables, coords(ch))
  BY <1>6 DEF Coordinated
<1> QED
  BY <1>1, <1>3, <1>7, DecodedPoint

\* Every point of the walk can be drawn.
LEMMA WalkedPointDecodable ==
    ASSUME WalkInvariant, axes # NotFinite, NEW x \in Nat
    PROVE  PointAt(x) \in Decodable
<1> DEFINE f == FreeVariables(variables)
           c == CoordinatesAt(axes, x)
           ch == [i \in DOMAIN f |-> DecodeVariable(f[i], c[i])]
           Witness(v, value) == CHOOSE d \in Coordinates(v) : DecodeVariable(v, d) = value
           coords == [i \in DOMAIN f |-> Witness(f[i], ch[i])]
<1>1. /\ Parsed(variables) /\ Walked(variables, f, axes)
      /\ \A i \in 1 .. Len(f) : Drawable(f[i])
  BY DEF WalkInvariant
<1>2. /\ DOMAIN f = 1 .. Len(f)
      /\ \A i \in 1 .. Len(f) : /\ axes[i] = Representatives(f[i]) /\ FreeTyped(f[i])
                                /\ Enumerable(f[i])
  BY <1>1, WalkedAxes DEF Walked
<1>3. \A i \in 1 .. Len(f) : /\ Digit(axes, x, i) \in 1 .. Len(axes[i])
                             /\ c[i] = axes[i][Digit(axes, x, i)]
  <2> DEFINE vs == variables
             ax == axes
  <2>1. Walked(vs, f, ax)
    BY <1>1
  <2> HIDE DEF vs, ax, f
  <2>2. \A i \in 1 .. Len(f) : /\ Digit(ax, x, i) \in 1 .. Len(ax[i])
                               /\ CoordinatesAt(ax, x)[i] = ax[i][Digit(ax, x, i)]
    BY <2>1, CoordinatesAtIs
  <2> QED
    BY <2>2, Zenon DEF ax
<1> HIDE DEF c
<1>4. ASSUME NEW i \in 1 .. Len(f)
      PROVE  \E d \in Coordinates(f[i]) : DecodeVariable(f[i], d) = DecodeVariable(f[i], c[i])
  <2> DEFINE v == f[i]
             r == Representatives(v)
  <2>1. FreeTyped(v) /\ Enumerable(v) /\ Drawable(v)
    BY <1>1, <1>2
  <2>2. \A k \in 1 .. Len(r) : r[k] \in ToSet(Candidates(v))
    BY <2>1, AxisIs
  <2>3. axes[i] = r
    BY <1>2
  <2> HIDE DEF v, r
  <2>4. c[i] \in ToSet(Candidates(v))
    BY <1>3, <2>2, <2>3
  <2> QED
    BY <2>1, <2>4, Zenon DEF Drawable, v
<1>5. \A i \in DOMAIN f : ch[i] = DecodeVariable(f[i], c[i])
  OBVIOUS
<1>6. \A i \in DOMAIN f : ch[i] \in FreeValues(f[i])
  <2> HIDE DEF ch
  <2>1. ASSUME NEW i \in DOMAIN f PROVE ch[i] \in FreeValues(f[i])
    <3>1. PICK d \in Coordinates(f[i]) : DecodeVariable(f[i], d) = DecodeVariable(f[i], c[i])
      BY <1>2, <1>4
    <3>2. ch[i] = DecodeVariable(f[i], d)
      BY <1>5, <3>1
    <3> QED
      BY <3>2, Zenon DEF FreeValues
  <2> QED
    BY <2>1
<1>7. ch \in {g \in [DOMAIN f -> UNION {FreeValues(f[i]) : i \in DOMAIN f}] :
                \A i \in DOMAIN f : g[i] \in FreeValues(f[i])}
  <2> DEFINE U == UNION {FreeValues(f[i]) : i \in DOMAIN f}
  <2>1. \A i \in DOMAIN f : ch[i] \in U
    <3> HIDE DEF ch
    <3> QED
      BY <1>6, Zenon
  <2> HIDE DEF U
  <2>2. ch \in [DOMAIN f -> U]
    BY <1>5, <2>1
  <2> HIDE DEF ch
  <2> QED
    BY <1>6, <2>2, Zenon DEF U
<1> HIDE DEF ch
<1>8. Decode(variables, coords) \in Decodable
  <2> DEFINE S == {g \in [DOMAIN f -> UNION {FreeValues(f[i]) : i \in DOMAIN f}] :
                      \A i \in DOMAIN f : g[i] \in FreeValues(f[i])}
             coordsOf(g) == [i \in DOMAIN f |-> Witness(f[i], g[i])]
  <2>1. Decodable = {Decode(variables, coordsOf(g)) : g \in S}
    BY Zenon DEF Decodable
  <2>2. ch \in S
    BY <1>7
  <2> HIDE DEF S
  <2> DEFINE pointOf(g) == Decode(variables, coordsOf(g))
  <2>4. Decodable = {pointOf(g) : g \in S}
    BY <2>1, Zenon
  <2>5. \A g \in S : pointOf(g) \in {pointOf(h) : h \in S}
    <3> HIDE DEF pointOf
    <3> QED
      OBVIOUS
  <2>3. pointOf(ch) \in Decodable
    <3> HIDE DEF pointOf
    <3> QED
      BY <2>2, <2>4, <2>5, Zenon
  <2> QED
    BY <2>3
<1>9. ASSUME NEW i \in 1 .. Len(f)
      PROVE  DecodeVariable(f[i], coords[i]) = DecodeVariable(f[i], c[i])
  <2>1. coords[i] = Witness(f[i], ch[i])
    BY <1>2, Zenon
  <2>2. ch[i] = DecodeVariable(f[i], c[i])
    BY <1>2, <1>5
  <2>3. \E d \in Coordinates(f[i]) : DecodeVariable(f[i], d) = ch[i]
    BY <1>4, <2>2
  <2>4. DecodeVariable(f[i], Witness(f[i], ch[i])) = ch[i]
    BY <2>3, Zenon
  <2> QED
    BY <2>1, <2>2, <2>4, Zenon
<1> HIDE DEF coords
<1>10. Decode(variables, coords) = Decode(variables, c)
  BY <1>1, <1>9, DecodeSame
<1> QED
  BY <1>8, <1>10, PointAtIs DEF c

\* What the assumption says of a document's free variables.
LEMMA DocumentDrawable ==
    ASSUME NEW tables \in Documents, Accepted(tables),
           NEW i \in DOMAIN tables, tables[i].kind # "linked"
    PROVE  Drawable(Variable(tables[i]))
<1> DEFINE v == Variable(tables[i])
<1>1. /\ v.kind = "choice" => Len(v.values) < Precision
      /\ Coordinates(v) \subseteq Int \X (Nat \ {0})
      /\ Enumerable(v) =>
            \A c \in ToSet(Candidates(v)) : \E d \in Coordinates(v) :
                DecodeVariable(v, d) = DecodeVariable(v, c)
  BY SearchSpaceAssumption, Zenon
<1> HIDE DEF v
<1>2. Drawable(v)
  BY <1>1, Zenon DEF Drawable, Fraction
<1> QED
  BY <1>2 DEF v

LEMMA WalkInit == Init => WalkInvariant
<1> SUFFICES ASSUME Init PROVE WalkInvariant
  OBVIOUS
<1> DEFINE f == FreeVariables(variables)
           size == Product([i \in DOMAIN f |-> AxisSize(f[i])])
<1>1. PICK tables \in Documents :
         /\ Accepted(tables)
         /\ variables = [i \in DOMAIN tables |-> Variable(tables[i])]
         /\ axes = FiniteAxes(variables)
  BY Zenon DEF Init
<1>2. tables \in Seq(Tables)
  BY SearchSpaceAssumption
<1>3. Parsed(variables)
  BY <1>1, <1>2, DocumentParsed
<1>4. ASSUME NEW i \in 1 .. Len(f) PROVE Drawable(f[i])
  <2>1. f[i].kind # "linked" /\ \E j \in 1 .. Len(variables) : f[i] = variables[j]
    BY <1>3, FreesOfParsed
  <2>2. PICK j \in 1 .. Len(variables) : f[i] = variables[j]
    BY <2>1
  <2>3. DOMAIN tables = 1 .. Len(variables)
    <3> DEFINE vs == variables
    <3>1. vs = [k \in DOMAIN tables |-> Variable(tables[k])]
      BY <1>1
    <3> HIDE DEF vs
    <3>2. Len(vs) = Len(tables)
      BY <1>2, <3>1, SameLinks
    <3> QED
      BY <1>2, <3>2 DEF vs
  <2>4. variables[j] = Variable(tables[j])
    BY <1>1, <2>3, Zenon
  <2>5. tables[j] \in Tables
    BY <1>2, <2>3
  <2>6. tables[j].kind # "linked"
    <3>1. Variable(tables[j]).kind = tables[j].kind
      BY <2>5, VariableFields
    <3> QED
      BY <2>1, <2>2, <2>4, <3>1, Zenon
  <2>7. Drawable(Variable(tables[j]))
    BY <1>1, <2>3, <2>6, DocumentDrawable
  <2> QED
    BY <2>2, <2>4, <2>7, Zenon
<1>5. ASSUME axes # NotFinite
      PROVE  Walked(variables, f, axes) /\ size <= MaxEnumerable
  <2>1. axes = IF (\A i \in DOMAIN f : Enumerable(f[i])) /\ size <= MaxEnumerable
               THEN [i \in DOMAIN f |-> Representatives(f[i])] ELSE NotFinite
    BY <1>1, Zenon DEF FiniteAxes
  <2>2. /\ axes = [i \in DOMAIN f |-> Representatives(f[i])]
        /\ \A i \in DOMAIN f : Enumerable(f[i])
        /\ size <= MaxEnumerable
    BY <1>5, <2>1, Zenon
  <2>3. DOMAIN f = 1 .. Len(f)
    BY <1>3, FreesOfParsed
  <2>4. \A i \in 1 .. Len(f) : Enumerable(f[i])
    BY <2>2, <2>3, Zenon
  <2> QED
    BY <1>3, <2>2, <2>4, Zenon DEF Walked
<1>6. cursor = 0 /\ seen = {}
  BY Zenon DEF Init
<1>7. ASSUME axes # NotFinite
      PROVE  cursor <= Weight(axes, 0) /\ \A index \in 0 .. cursor - 1 : PointAt(index) \in seen
  <2> DEFINE w == Weight(axes, 0)
  <2>1. Walked(variables, f, axes)
    BY <1>5, <1>7
  <2>2. w \in Nat
    BY <2>1, CardinalIs
  <2> HIDE DEF w
  <2> QED
    BY <1>6, <2>2 DEF w
<1> HIDE DEF f
<1> QED
  BY <1>3, <1>4, <1>5, <1>6, <1>7 DEF WalkInvariant, f

\* The defaults are coordinates.
LEMMA DefaultsCoordinated ==
    ASSUME NEW vs, Parsed(vs), Refused \notin Range(DefaultCoordinates(vs))
    PROVE  Coordinated(vs, DefaultCoordinates(vs))
<1> DEFINE f == FreeVariables(vs)
           c == DefaultCoordinates(vs)
<1>1. c = [i \in DOMAIN f |-> EncodeVariable(f[i], f[i].default)]
  BY Zenon DEF DefaultCoordinates
<1>2. DOMAIN f = 1 .. Len(f) /\ \A i \in 1 .. Len(f) : FreeTyped(f[i])
  BY FreesOfParsed
<1>3. ASSUME NEW i \in 1 .. Len(f) PROVE c[i] \in Fraction
  <2> DEFINE v == f[i]
  <2>1. FreeTyped(v)
    BY <1>2
  <2>2. c[i] = EncodeVariable(v, v.default)
    BY <1>1, <1>2, Zenon
  <2>3. c[i] # Refused
    <3>1. i \in DOMAIN c
      BY <1>1, <1>2
    <3> HIDE DEF c
    <3> QED
      BY <3>1, Zenon DEF Range, c
  <2> HIDE DEF v, c
  <2>4. WithinBounds(v, v.default)
    BY <2>1 DEF FreeTyped, WithinBounds
  <2>5. EncodeVariable(v, v.default) \in Fraction \/ EncodeVariable(v, v.default) = Refused
    BY <2>1, <2>4, EncodedFraction
  <2> QED
    BY <2>2, <2>3, <2>5
<1> QED
  BY <1>3 DEF Coordinated

\* A point of the walk is a point of some coordinates.
LEMMA WalkedPoint ==
    ASSUME WalkInvariant, axes # NotFinite, NEW x \in Nat
    PROVE  PointAt(x) \in Points(variables)
<1> DEFINE vs == variables
           ax == axes
           f == FreeVariables(vs)
<1>1. Walked(vs, f, ax) /\ Parsed(vs)
  BY DEF WalkInvariant
<1>2. PointAt(x) = Decode(vs, CoordinatesAt(ax, x))
  BY PointAtIs
<1> HIDE DEF vs, ax, f
<1>3. Coordinated(vs, CoordinatesAt(ax, x))
  BY <1>1, CoordinatesAtIs
<1>4. Decode(vs, CoordinatesAt(ax, x)) \in Points(vs)
  BY <1>1, <1>3, DecodedPoint
<1> QED
  BY <1>2, <1>4 DEF vs

\* What the invariant says of the walk is kept when neither it nor the points shrink.
LEMMA WalkKept ==
    ASSUME WalkInvariant, UNCHANGED <<variables, axes>>,
           seen' \subseteq Points(variables), cursor' \in Nat,
           axes # NotFinite => cursor' <= Cardinal
                               /\ \A index \in 0 .. cursor' - 1 : PointAt(index) \in seen'
    PROVE  WalkInvariant'
<1> DEFINE f == FreeVariables(variables)
<1>1. variables' = variables /\ axes' = axes
  OBVIOUS
<1>2. f' = f /\ Points(variables)' = Points(variables) /\ Weight(axes, 0)' = Weight(axes, 0)
  BY <1>1, Zenon
<1>3. \A index : PointAt(index)' = PointAt(index)
  BY <1>1, Zenon DEF PointAt
<1>4. Parsed(variables)' /\ (\A i \in 1 .. Len(f) : Drawable(f[i]))'
  BY <1>1, Zenon DEF WalkInvariant
<1>5. (axes # NotFinite =>
          /\ Walked(variables, f, axes)
          /\ Product([i \in DOMAIN f |-> AxisSize(f[i])]) <= MaxEnumerable)'
  BY <1>1, Zenon DEF WalkInvariant
<1>6. seen' \subseteq Points(variables)'
  BY <1>2, Zenon
<1>7. (axes # NotFinite =>
          /\ cursor <= Weight(axes, 0)
          /\ \A index \in 0 .. cursor - 1 : PointAt(index) \in seen)'
  <2> SUFFICES ASSUME axes # NotFinite
               PROVE  /\ cursor' <= Weight(axes, 0)
                      /\ \A index \in 0 .. cursor' - 1 : PointAt(index) \in seen'
    BY <1>1, <1>2, <1>3, Zenon
  <2>1. Walked(variables, f, axes)
    BY DEF WalkInvariant
  <2>2. Cardinal = Weight(axes, 0)
    BY <2>1, CardinalIs
  <2>3. cursor' <= Cardinal /\ \A index \in 0 .. cursor' - 1 : PointAt(index) \in seen'
    OBVIOUS
  <2> QED
    BY <2>2, <2>3, Zenon
<1> QED
  BY <1>4, <1>5, <1>6, <1>7, Zenon DEF WalkInvariant

LEMMA WalkNext == WalkInvariant /\ [Next]_vars => WalkInvariant'
<1> SUFFICES ASSUME WalkInvariant, [Next]_vars PROVE WalkInvariant'
  OBVIOUS
<1> DEFINE f == FreeVariables(variables)
           total == Cardinal
<1>1. Parsed(variables) /\ seen \subseteq Points(variables) /\ cursor \in Nat
  BY DEF WalkInvariant
<1>2. axes # NotFinite =>
        /\ total \in Nat /\ cursor <= total
        /\ \A index \in 0 .. cursor - 1 : PointAt(index) \in seen
  <2> SUFFICES ASSUME axes # NotFinite
               PROVE  /\ total \in Nat /\ cursor <= total
                      /\ \A index \in 0 .. cursor - 1 : PointAt(index) \in seen
    OBVIOUS
  <2>1. /\ Walked(variables, f, axes) /\ cursor <= Weight(axes, 0)
        /\ \A index \in 0 .. cursor - 1 : PointAt(index) \in seen
    BY DEF WalkInvariant
  <2>2. total = Weight(axes, 0) /\ total \in Nat
    BY <2>1, CardinalIs
  <2> HIDE DEF total
  <2>3. cursor <= total
    BY <2>1, <2>2
  <2> QED
    BY <2>1, <2>2, <2>3
<1> HIDE DEF total
<1>3. CASE DrawDefault
  <2> DEFINE point == Decode(variables, DefaultCoordinates(variables))
  <2>1. /\ seen = {} /\ seen' = {point} /\ UNCHANGED <<variables, axes, cursor, draws>>
        /\ Refused \notin Range(DefaultCoordinates(variables))
    BY <1>3, Zenon DEF DrawDefault
  <2>2. point \in Points(variables)
    BY <1>1, <2>1, DefaultsCoordinated, DecodedPoint
  <2> HIDE DEF point
  <2>3. seen' \subseteq Points(variables) /\ cursor' \in Nat
    BY <1>1, <2>1, <2>2
  <2>4. axes # NotFinite => cursor' <= total
                            /\ \A index \in 0 .. cursor' - 1 : PointAt(index) \in seen'
    BY <1>1, <1>2, <2>1
  <2> QED
    BY <2>1, <2>3, <2>4, WalkKept DEF total
<1>4. CASE Draw
  <2>1. PICK point \in Decodable \ seen : seen' = seen \union {point}
    BY <1>4, Zenon DEF Draw
  <2>2. UNCHANGED <<variables, axes, cursor>>
    BY <1>4, Zenon DEF Draw
  <2>3. point \in Points(variables)
    BY <2>1, DrawnPoint
  <2>4. seen' \subseteq Points(variables) /\ cursor' \in Nat
    BY <1>1, <2>1, <2>2, <2>3
  <2>5. axes # NotFinite => cursor' <= total
                            /\ \A index \in 0 .. cursor' - 1 : PointAt(index) \in seen'
    BY <1>1, <1>2, <2>1, <2>2
  <2> QED
    BY <2>2, <2>4, <2>5, WalkKept DEF total
<1>5. CASE NextUnseen
  <2>1. axes # NotFinite /\ UNCHANGED <<variables, axes, draws>>
    BY <1>5, Zenon DEF NextUnseen
  <2>2. PICK index \in cursor .. total - 1 :
           /\ \A earlier \in cursor .. index - 1 : PointAt(earlier) \in seen
           /\ cursor' = index + 1
           /\ seen' = seen \union {PointAt(index)}
    BY <1>5, Zenon DEF NextUnseen, total
  <2>3. index \in Nat /\ index + 1 <= total
    BY <1>1, <1>2, <2>1, <2>2
  <2>4. PointAt(index) \in Points(variables)
    BY <2>1, <2>3, WalkedPoint
  <2>5. seen' \subseteq Points(variables) /\ cursor' \in Nat
    BY <1>1, <2>2, <2>3, <2>4
  <2>6. ASSUME NEW k \in 0 .. cursor' - 1 PROVE PointAt(k) \in seen'
    <3>1. k \in 0 .. cursor - 1 \/ k \in cursor .. index - 1 \/ k = index
      BY <1>1, <2>2, <2>3, <2>6
    <3>2. k \in 0 .. cursor - 1 => PointAt(k) \in seen
      BY <1>2, <2>1
    <3>3. k \in cursor .. index - 1 => PointAt(k) \in seen
      BY <2>2
    <3> QED
      BY <2>2, <3>1, <3>2, <3>3
  <2>7. cursor' <= total
    BY <2>2, <2>3
  <2> QED
    BY <2>1, <2>5, <2>6, <2>7, WalkKept DEF total
<1>6. CASE NoneUnseen
  <2>1. /\ axes # NotFinite /\ cursor' = total
        /\ \A index \in cursor .. total - 1 : PointAt(index) \in seen
        /\ UNCHANGED <<variables, axes, seen, draws>>
    BY <1>6, Zenon DEF NoneUnseen, total
  <2>2. total \in Nat
    BY <1>2, <2>1
  <2>3. ASSUME NEW k \in 0 .. cursor' - 1 PROVE PointAt(k) \in seen'
    <3>1. k \in 0 .. cursor - 1 \/ k \in cursor .. total - 1
      BY <1>1, <2>1, <2>2, <2>3
    <3>2. k \in 0 .. cursor - 1 => PointAt(k) \in seen
      BY <1>2, <2>1
    <3> QED
      BY <2>1, <3>1, <3>2
  <2>4. seen' \subseteq Points(variables) /\ cursor' \in Nat /\ cursor' <= total
    BY <1>1, <2>1, <2>2
  <2> QED
    BY <2>1, <2>3, <2>4, WalkKept DEF total
<1>7. CASE UNCHANGED vars
  <2>1. UNCHANGED <<variables, axes, cursor, seen>>
    BY <1>7 DEF vars
  <2>2. seen' \subseteq Points(variables) /\ cursor' \in Nat
    BY <1>1, <2>1
  <2>3. axes # NotFinite => cursor' <= total
                            /\ \A index \in 0 .. cursor' - 1 : PointAt(index) \in seen'
    BY <1>1, <1>2, <2>1
  <2> QED
    BY <2>1, <2>2, <2>3, WalkKept DEF total
<1> QED
  BY <1>3, <1>4, <1>5, <1>6, <1>7 DEF Next

\* The value of one variable of a point.
CanonicalValue(v, point) ==
    LET value == point[v.name]
        coordinate == EncodeVariable(v, value)
    IN  CASE v.kind = "linked" -> value = point[v.source] * v.factor + v.offset
          [] v.kind = "choice" ->
                value \in ToSet(v.values) /\ DecodeVariable(v, coordinate) = value
          [] v.kind = "integer" ->
                /\ value \in v.low .. v.high
                /\ IF coordinate = Refused THEN v.high - v.low > Precision
                   ELSE DecodeVariable(v, coordinate) = value
          [] v.kind = "real" -> value \in v.low .. v.high

LEMMA FreeCanonical ==
    ASSUME NEW v, FreeTyped(v), Drawable(v), NEW point, WithinBounds(v, point[v.name])
    PROVE  CanonicalValue(v, point)
<1> DEFINE value == point[v.name]
           coordinate == EncodeVariable(v, value)
<1>1. CASE v.kind = "choice"
  <2>1. value \in ToSet(v.values) /\ Len(v.values) < Precision
    BY <1>1, Zenon DEF WithinBounds, Drawable
  <2>2. DecodeVariable(v, coordinate) = value
    <3> HIDE DEF value
    <3> QED
      BY <1>1, <2>1, ChoiceEncoded
  <2>3. v.kind # "linked"
    BY <1>1
  <2> QED
    BY <1>1, <2>1, <2>2, <2>3, Zenon DEF CanonicalValue
<1>2. CASE v.kind = "integer"
  <2>1. v.kind # "linked" /\ v.kind # "choice"
    BY <1>2
  <2>2. value \in v.low .. v.high
    BY <2>1, Zenon DEF WithinBounds
  <2>3. IF coordinate = Refused THEN v.high - v.low > Precision
        ELSE DecodeVariable(v, coordinate) = value
    <3> HIDE DEF value
    <3> QED
      BY <1>2, <2>2, IntegerEncoded, RefusedIsNone
  <2> QED
    BY <1>2, <2>1, <2>2, <2>3, Zenon DEF CanonicalValue
<1>3. CASE v.kind = "real"
  <2>1. v.kind # "linked" /\ v.kind # "choice" /\ v.kind # "integer"
    BY <1>3
  <2>2. value \in v.low .. v.high
    BY <2>1, Zenon DEF WithinBounds
  <2> QED
    BY <1>3, <2>1, <2>2, Zenon DEF CanonicalValue
<1> QED
  BY <1>1, <1>2, <1>3 DEF FreeTyped

LEMMA DecodedValue ==
    ASSUME NEW vs, Parsed(vs), NEW c, Coordinated(vs, c), NEW j \in 1 .. Len(vs),
           \A i \in 1 .. Len(FreeVariables(vs)) : Drawable(FreeVariables(vs)[i])
    PROVE  CanonicalValue(vs[j], Decode(vs, c))
<1> DEFINE f == FreeVariables(vs)
           point == Decode(vs, c)
           v == vs[j]
<1>1. /\ \A i \in 1 .. Len(f) : point[f[i].name] = DecodeVariable(f[i], c[i])
      /\ v.kind = "linked" => point[v.name] = point[v.source] * v.factor + v.offset
  BY DecodeIs
<1>2. CASE v.kind = "linked"
  <2>1. point[v.name] = point[v.source] * v.factor + v.offset
    BY <1>1, <1>2
  <2> HIDE DEF point
  <2> QED
    BY <1>2, <2>1, Zenon DEF CanonicalValue, point
<1>3. CASE v.kind # "linked"
  <2>1. PICK i \in 1 .. Len(f) : f[i] = v
    BY <1>3, FreesOfParsed
  <2>2. FreeTyped(v) /\ Drawable(v) /\ c[i] \in Fraction
    BY <2>1, FreesOfParsed DEF Coordinated
  <2>3. WithinBounds(v, DecodeVariable(v, c[i]))
    BY <2>2, Within
  <2>4. point[v.name] = DecodeVariable(v, c[i])
    BY <1>1, <2>1
  <2>5. WithinBounds(v, point[v.name])
    BY <2>3, <2>4
  <2> HIDE DEF v, point
  <2>6. CanonicalValue(v, point)
    BY <2>2, <2>5, FreeCanonical
  <2> QED
    BY <2>6 DEF v, point
<1> QED
  BY <1>2, <1>3

LEMMA PointsCanonical == WalkInvariant => CanonicalPoint
<1> SUFFICES ASSUME WalkInvariant, NEW point \in seen
             PROVE  \A i \in DOMAIN variables : CanonicalValue(variables[i], point)
  BY Zenon DEF CanonicalPoint, CanonicalValue
<1> DEFINE vs == variables
<1>1. /\ Parsed(vs) /\ point \in Points(vs)
      /\ \A i \in 1 .. Len(FreeVariables(vs)) : Drawable(FreeVariables(vs)[i])
  BY DEF WalkInvariant
<1> HIDE DEF vs
<1>2. PICK c \in [1 .. Len(FreeVariables(vs)) -> Fraction] :
         Coordinated(vs, c) /\ point = Decode(vs, c)
  BY <1>1, PointDecoded
<1>3. DOMAIN vs = 1 .. Len(vs)
  BY <1>1 DEF Parsed
<1>4. \A i \in DOMAIN vs : CanonicalValue(vs[i], Decode(vs, c))
  BY <1>1, <1>2, <1>3, DecodedValue
<1> QED
  BY <1>2, <1>4 DEF vs

\* All that can be drawn has an index in the walk, and every index its own point.
LEMMA WalkEnumerates ==
    ASSUME WalkInvariant, axes # NotFinite
    PROVE  /\ Cardinal \in Nat /\ Cardinal <= MaxEnumerable
           /\ \A point \in Decodable : \E x \in 0 .. Cardinal - 1 : PointAt(x) = point
           /\ \A x \in 0 .. Cardinal - 1 : PointAt(x) \in Decodable
           /\ \A x, y \in 0 .. Cardinal - 1 : PointAt(x) = PointAt(y) => x = y
<1> DEFINE vs == variables
           ax == axes
           f == FreeVariables(vs)
           size == Product([i \in DOMAIN f |-> AxisSize(f[i])])
           total == Cardinal
<1>1. Walked(vs, f, ax) /\ Parsed(vs) /\ size <= MaxEnumerable
  BY DEF WalkInvariant
<1>2. total = Weight(ax, 0) /\ total \in Nat /\ total <= size /\ size \in Nat
  BY <1>1, CardinalIs
<1>3. \A x : PointAt(x) = Decode(vs, CoordinatesAt(ax, x))
  BY PointAtIs
<1>4. \A point \in Decodable : point \in Points(vs)
  BY DrawnPoint
<1>5. \A x \in Nat : PointAt(x) \in Decodable
  BY WalkedPointDecodable
<1>6. MaxEnumerable \in Nat
  BY SearchSpaceAssumption
<1> HIDE DEF vs, ax, f, size, total
<1>7. ASSUME NEW point \in Decodable PROVE \E x \in 0 .. total - 1 : PointAt(x) = point
  <2>1. point \in Points(vs)
    BY <1>4
  <2>2. PICK c \in [1 .. Len(FreeVariables(vs)) -> Fraction] :
           Coordinated(vs, c) /\ point = Decode(vs, c)
    BY <2>1, PointDecoded
  <2>3. \E x \in 0 .. Weight(ax, 0) - 1 : Decode(vs, CoordinatesAt(ax, x)) = Decode(vs, c)
    BY <1>1, <2>2, EveryPointHasIndex
  <2> QED
    BY <1>2, <1>3, <2>2, <2>3
<1>8. ASSUME NEW x \in 0 .. total - 1, NEW y \in 0 .. total - 1, PointAt(x) = PointAt(y)
      PROVE  x = y
  <2>1. Decode(vs, CoordinatesAt(ax, x)) = Decode(vs, CoordinatesAt(ax, y))
    BY <1>3, <1>8
  <2>2. x \in 0 .. Weight(ax, 0) - 1 /\ y \in 0 .. Weight(ax, 0) - 1
    BY <1>2, <1>8
  <2> QED
    BY <1>1, <2>1, <2>2, OneIndexPerPoint
<1>9. \A x \in 0 .. total - 1 : PointAt(x) \in Decodable
  BY <1>2, <1>5
<1>10. total <= MaxEnumerable
  BY <1>1, <1>2, <1>6
<1> QED
  BY <1>2, <1>7, <1>8, <1>9, <1>10 DEF total

LEMMA ExhaustionProves == WalkInvariant => ExhaustionIsProof
<1> SUFFICES ASSUME WalkInvariant, axes # NotFinite, cursor = Cardinal
             PROVE  /\ Decodable \subseteq seen
                    /\ Cardinal = Cardinality(Decodable)
                    /\ Cardinal <= MaxEnumerable
  BY Zenon DEF ExhaustionIsProof
<1> DEFINE total == Cardinal
           domain == Decodable
           at == [x \in 0 .. total - 1 |-> PointAt(x)]
<1>1. /\ total \in Nat /\ total <= MaxEnumerable
      /\ \A point \in domain : \E x \in 0 .. total - 1 : PointAt(x) = point
      /\ \A x \in 0 .. total - 1 : PointAt(x) \in domain
      /\ \A x, y \in 0 .. total - 1 : PointAt(x) = PointAt(y) => x = y
  BY WalkEnumerates
<1>2. \A x \in 0 .. total - 1 : PointAt(x) \in seen
  <2>1. \A x \in 0 .. cursor - 1 : PointAt(x) \in seen
    BY DEF WalkInvariant
  <2> QED
    BY <2>1
<1> HIDE DEF total, domain
<1>3. domain \subseteq seen
  BY <1>1, <1>2
<1>4. at \in Bijection(0 .. total - 1, domain)
  <2>1. at \in [0 .. total - 1 -> domain]
    BY <1>1
  <2>2. \A x, y \in 0 .. total - 1 : at[x] = at[y] => x = y
    BY <1>1
  <2>3. \A point \in domain : \E x \in 0 .. total - 1 : at[x] = point
    BY <1>1
  <2> HIDE DEF at
  <2> QED
    BY <2>1, <2>2, <2>3, Fun_IsBij
<1>5. /\ IsFiniteSet(0 .. total - 1)
      /\ Cardinality(0 .. total - 1) = IF 0 > total - 1 THEN 0 ELSE (total - 1) - 0 + 1
  BY <1>1, FS_Interval
<1>6. Cardinality(0 .. total - 1) = total
  BY <1>1, <1>5
<1>7. Cardinality(domain) = total
  BY <1>4, <1>5, <1>6, FS_Bijection DEF ExistsBijection
<1> QED
  BY <1>1, <1>3, <1>7 DEF total, domain

LEMMA WalkInvariantHolds == Spec => []WalkInvariant
  BY WalkInit, WalkNext, PTL DEF Spec

(***************************************************************************)
(* Whatever variables a document declares, whatever fractions a draw       *)
(* yields and however fine the floats are: every point that the search was *)
(* given has its free values within their bounds and its linked values     *)
(* equal to what their sources imply, no choice or integer of it is taken  *)
(* for another one on the way to a rounded coordinate and back, and an     *)
(* integer is refused only if its variable has more values than floats     *)
(* tell apart (encoding.py decode, _encode_variable and _linked_value).    *)
(***************************************************************************)
THEOREM PointsAreCanonical == Spec => []CanonicalPoint
  BY WalkInvariantHolds, PointsCanonical, PTL

(***************************************************************************)
(* For every document, limit and set of draws: a walk that has ended has   *)
(* left no point unseen that any coordinates decode to, and it has exactly *)
(* one index per point, and no more than the limit (search_space.py).      *)
(***************************************************************************)
THEOREM ExhaustionIsProved == Spec => []ExhaustionIsProof
  BY WalkInvariantHolds, ExhaustionProves, PTL
=============================================================================
