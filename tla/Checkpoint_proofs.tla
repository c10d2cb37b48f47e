------------------------- MODULE Checkpoint_proofs -------------------------
(***************************************************************************)
(* Proofs about Checkpoint, for every domain, every strand, every batch    *)
(* size, every set of budgets and any number of faults, about the proposal *)
(* generator it asks, module Proposal, and about what its files are worth  *)
(* to a resume.                                                            *)
(*                                                                         *)
(* The inductive invariant says, at each point of the process, how what    *)
(* the process has in memory relates to the three things it left on disk:  *)
(* the trials run.json calls completed, the batch it records as pending,   *)
(* and the part of that batch the ledger holds already.                    *)
(***************************************************************************)
EXTENDS Checkpoint, FiniteSetTheorems, SequenceTheorems, TLAPS

-----------------------------------------------------------------------------
(* The proposal generator, for every walk over the domain.                 *)

\* The strands draw points of the domain.
CandidateAssumption == \A draws, radius, ts : Candidate(draws, radius, ts) \in Keys

LEMMA TheSingleton == \A x : The({x}) = x
BY DEF The

-----------------------------------------------------------------------------
(* Counting: how many elements of a finite set S of numbers lie below x.   *)

Below(S, x) == {y \in S : y < x}

\* A set bounded by 1 .. n is finite, and so is the part of it below x.
LEMMA BelowFinite ==
    ASSUME NEW n \in Nat, NEW S \in SUBSET (1 .. n)
    PROVE  /\ IsFiniteSet(S)
           /\ Cardinality(S) \in Nat
           /\ \A x \in S : /\ IsFiniteSet(Below(S, x))
                           /\ Cardinality(Below(S, x)) \in 0 .. Cardinality(S) - 1
<1>1. IsFiniteSet(S) /\ Cardinality(S) \in Nat
  <2>1. IsFiniteSet(1 .. n)
    BY FS_Interval
  <2>2. IsFiniteSet(S)
    BY <2>1, FS_Subset
  <2> QED
    BY <2>2, FS_CardinalityType
<1>2. ASSUME NEW x \in S
      PROVE  /\ IsFiniteSet(Below(S, x))
             /\ Cardinality(Below(S, x)) \in 0 .. Cardinality(S) - 1
  <2>1. Below(S, x) \in SUBSET S /\ Below(S, x) # S
    BY DEF Below
  <2>2. /\ IsFiniteSet(Below(S, x))
        /\ Cardinality(Below(S, x)) <= Cardinality(S)
        /\ Cardinality(Below(S, x)) # Cardinality(S)
    BY <1>1, <2>1, FS_Subset
  <2>3. Cardinality(Below(S, x)) \in Nat
    BY <2>2, FS_CardinalityType
  <2> QED
    BY <1>1, <2>2, <2>3
<1> QED
  BY <1>1, <1>2

\* Of two elements the smaller has fewer elements below it.
LEMMA BelowStrict ==
    ASSUME NEW n \in Nat, NEW S \in SUBSET (1 .. n), NEW x \in S, NEW y \in S, x < y
    PROVE  Cardinality(Below(S, x)) < Cardinality(Below(S, y))
<1>1. Below(S, x) \in SUBSET Below(S, y) /\ Below(S, x) # Below(S, y)
  <2>1. x \in Below(S, y) /\ x \notin Below(S, x)
    BY DEF Below
  <2>2. \A z \in Below(S, x) : z \in Below(S, y)
    BY DEF Below
  <2> QED
    BY <2>1, <2>2
<1>2. IsFiniteSet(Below(S, x)) /\ IsFiniteSet(Below(S, y))
  BY BelowFinite
<1>3. /\ Cardinality(Below(S, x)) \in Nat
      /\ Cardinality(Below(S, y)) \in Nat
  BY <1>2, FS_CardinalityType
<1>4. /\ Cardinality(Below(S, x)) <= Cardinality(Below(S, y))
      /\ Cardinality(Below(S, x)) # Cardinality(Below(S, y))
  BY <1>1, <1>2, FS_Subset
<1> QED
  BY <1>3, <1>4

(***************************************************************************)
(* Every position up to the cardinality is taken: counting maps S one to   *)
(* one into as many numbers, so it reaches each of them.                   *)
(***************************************************************************)
LEMMA IthExists ==
    ASSUME NEW n \in Nat, NEW S \in SUBSET (1 .. n), NEW i \in 1 .. Cardinality(S)
    PROVE  \E x \in S : Cardinality(Below(S, x)) = i - 1
<1> DEFINE size == Cardinality(S)
           f == [x \in S |-> Cardinality(Below(S, x))]
<1>1. IsFiniteSet(S) /\ size \in Nat
  BY BelowFinite
<1>2. f \in [S -> 0 .. size - 1]
  BY BelowFinite
<1>3. ASSUME NEW x \in S, NEW y \in S, f[x] = f[y]
      PROVE  x = y
  <2>1. /\ Cardinality(Below(S, x)) = Cardinality(Below(S, y))
        /\ Cardinality(Below(S, x)) \in Int
    <3>1. f[x] = Cardinality(Below(S, x)) /\ f[y] = Cardinality(Below(S, y))
      OBVIOUS
    <3>2. Cardinality(Below(S, x)) \in 0 .. Cardinality(S) - 1
      BY BelowFinite
    <3> QED
      BY <1>3, <3>1, <3>2
  <2>2. x < y => Cardinality(Below(S, x)) < Cardinality(Below(S, y))
    BY BelowStrict
  <2>3. y < x => Cardinality(Below(S, y)) < Cardinality(Below(S, x))
    BY BelowStrict
  <2> QED
    BY <2>1, <2>2, <2>3
<1>4. f \in Injection(S, 0 .. size - 1)
  BY <1>2, <1>3 DEF Injection, IsInjective
<1>5. IsFiniteSet(0 .. size - 1) /\ Cardinality(0 .. size - 1) = size
  <2>1. 0 \in Int /\ size - 1 \in Int /\ size \in Nat
    BY <1>1
  <2> HIDE DEF size
  <2>2. /\ IsFiniteSet(0 .. size - 1)
        /\ Cardinality(0 .. size - 1) = IF 0 > size - 1 THEN 0 ELSE size - 1 - 0 + 1
    BY <2>1, FS_Interval, Zenon
  <2> QED
    BY <2>1, <2>2
<1>6. f \in Surjection(S, 0 .. size - 1)
  BY <1>4, <1>5, FS_Injection
<1>7. i - 1 \in 0 .. size - 1
  BY <1>1
<1>8. \E x \in S : f[x] = i - 1
  BY <1>6, <1>7 DEF Surjection
<1> QED
  BY <1>8

\* Ith picks an element of S, and different positions pick different elements.
LEMMA IthElement ==
    ASSUME NEW n \in Nat, NEW S \in SUBSET (1 .. n)
    PROVE  /\ \A i \in 1 .. Cardinality(S) :
                /\ Ith(S, i) \in S
                /\ Cardinality(Below(S, Ith(S, i))) = i - 1
           /\ \A i, j \in 1 .. Cardinality(S) : Ith(S, i) = Ith(S, j) => i = j
<1>1. ASSUME NEW i \in 1 .. Cardinality(S)
      PROVE  Ith(S, i) \in S /\ Cardinality(Below(S, Ith(S, i))) = i - 1
  BY IthExists DEF Ith, Below
<1>2. Cardinality(S) \in Nat
  BY BelowFinite
<1> QED
  BY <1>1, <1>2

\* An element of S is at the position that follows the elements below it.
LEMMA IthOf ==
    ASSUME NEW n \in Nat, NEW S \in SUBSET (1 .. n), NEW x \in S
    PROVE  /\ Cardinality(Below(S, x)) + 1 \in 1 .. Cardinality(S)
           /\ Ith(S, Cardinality(Below(S, x)) + 1) = x
<1> DEFINE i == Cardinality(Below(S, x)) + 1
<1>1. /\ Cardinality(S) \in Nat
      /\ Cardinality(Below(S, x)) \in 0 .. Cardinality(S) - 1
  BY BelowFinite
<1>2. i \in 1 .. Cardinality(S)
  BY <1>1
<1>3. Ith(S, i) \in S /\ Cardinality(Below(S, Ith(S, i))) = i - 1
  BY <1>2, IthElement
<1>4. Cardinality(Below(S, Ith(S, i))) = Cardinality(Below(S, x))
  BY <1>1, <1>3
<1> HIDE DEF i
<1>5. \A y \in S : Cardinality(Below(S, y)) = Cardinality(Below(S, x)) => y = x
  <2> SUFFICES ASSUME NEW y \in S, Cardinality(Below(S, y)) = Cardinality(Below(S, x)), y # x
               PROVE  FALSE
    OBVIOUS
  <2>1. y < x \/ x < y
    OBVIOUS
  <2>2. ~(Cardinality(Below(S, y)) < Cardinality(Below(S, x)))
        /\ ~(Cardinality(Below(S, x)) < Cardinality(Below(S, y)))
    BY <1>1
  <2> QED
    BY <2>1, <2>2, BelowStrict
<1>6. Ith(S, i) = x
  BY <1>3, <1>4, <1>5
<1> QED
  BY <1>2, <1>6 DEF i

\* A set of positions that is not empty has a least and a greatest element.
LEMMA Extremes ==
    ASSUME NEW n \in Nat, NEW S \in SUBSET (1 .. n), S # {}
    PROVE  /\ \E x \in S : \A y \in S : x <= y
           /\ \E x \in S : \A y \in S : y <= x
<1>1. IsFiniteSet(S) /\ Cardinality(S) \in Nat
  BY BelowFinite
<1>2. Cardinality(S) \in 1 .. Cardinality(S) /\ 1 \in 1 .. Cardinality(S)
  BY <1>1, FS_EmptySet
<1>3. PICK x \in S : Cardinality(Below(S, x)) = 0
  BY <1>2, IthExists
<1>4. \A y \in S : x <= y
  <2>1. Below(S, x) = {}
    BY <1>3, BelowFinite, FS_EmptySet
  <2> QED
    BY <2>1 DEF Below
<1>5. PICK z \in S : Cardinality(Below(S, z)) = Cardinality(S) - 1
  BY <1>2, IthExists
<1>6. \A y \in S : y <= z
  <2> SUFFICES ASSUME NEW y \in S, z < y PROVE FALSE
    OBVIOUS
  <2>1. Cardinality(Below(S, z)) < Cardinality(Below(S, y))
    BY BelowStrict
  <2>2. Cardinality(Below(S, y)) \in 0 .. Cardinality(S) - 1
    BY BelowFinite
  <2> QED
    BY <1>1, <1>5, <2>1, <2>2
<1> QED
  BY <1>4, <1>6

-----------------------------------------------------------------------------
(* What a batch is.                                                        *)

\* The points of a batch that follows the trials are points of the domain, no
\* more than asked for, none of them proposed before and no two of them equal.
NewPoints(listed, n, told) ==
    /\ listed \in Seq(Keys)
    /\ Len(listed) <= n
    /\ \A i \in DOMAIN listed : listed[i] \notin Seen(told)
    /\ \A i, j \in DOMAIN listed : listed[i] = listed[j] => i = j

\* Whatever the attempt, it yields a point of the domain.
LEMMA AttemptType ==
    ASSUME CandidateAssumption, NEW g, NEW told, NEW k
    PROVE  Attempt(g, told, k) \in Keys
BY ProposalAssumption DEF CandidateAssumption, Attempt

\* The attempts that count are numbered from one, and there is one to make.
LEMMA HitsType ==
    ASSUME NEW g, NEW n \in Nat \ {0}, NEW told
    PROVE  /\ n * AttemptsPerPoint \in Nat \ {0}
           /\ Hits(g, n, told) \in SUBSET (1 .. n * AttemptsPerPoint)
<1>1. n * AttemptsPerPoint \in Nat \ {0}
  BY ProposalAssumption
<1> QED
  BY <1>1 DEF Hits

\* The walk adds points no one proposed, each of them once.
LEMMA WalkPoints ==
    ASSUME NEW g \in Generator, NEW missing \in Nat, NEW n \in Nat, NEW drawn, NEW told,
           NewPoints(drawn, n, told), missing = n - Len(drawn)
    PROVE  NewPoints(Walk(g, missing, drawn, Unvisited(g, drawn, told)).points, n, told)
<1> DEFINE unvisited == Unvisited(g, drawn, told)
           walked == AtMost(missing, Cardinality(unvisited))
           listed == [i \in 1 .. Len(drawn) + walked |->
                        IF i <= Len(drawn)
                        THEN drawn[i] ELSE Enumeration[Ith(unvisited, i - Len(drawn))]]
<1>1. Walk(g, missing, drawn, unvisited).points = listed
  BY DEF Walk
<1>2. /\ Len(drawn) \in Nat /\ Len(Enumeration) \in Nat
      /\ DOMAIN drawn = 1 .. Len(drawn)
      /\ DOMAIN Enumeration = 1 .. Len(Enumeration)
      /\ g.cursor \in Nat
  BY ProposalAssumption DEF NewPoints, Generator
<1>3. unvisited \in SUBSET (1 .. Len(Enumeration))
  BY <1>2 DEF Unvisited
<1>4. Cardinality(unvisited) \in Nat
  BY <1>2, <1>3, BelowFinite
<1>5. walked \in Nat /\ walked <= missing /\ walked <= Cardinality(unvisited)
  BY <1>4 DEF AtMost
<1>6. ASSUME NEW i \in 1 .. walked
      PROVE  /\ Ith(unvisited, i) \in unvisited
             /\ Enumeration[Ith(unvisited, i)] \in Keys
             /\ Enumeration[Ith(unvisited, i)] \notin Seen(told)
             /\ \A j \in DOMAIN drawn : Enumeration[Ith(unvisited, i)] # drawn[j]
             /\ \A j \in 1 .. walked :
                   Enumeration[Ith(unvisited, i)] = Enumeration[Ith(unvisited, j)] => i = j
  <2>1. i \in 1 .. Cardinality(unvisited)
    BY <1>4, <1>5
  <2>2. Ith(unvisited, i) \in unvisited
    BY <1>2, <1>3, <2>1, IthElement
  <2>3. Ith(unvisited, i) \in 1 .. Len(Enumeration)
    BY <1>3, <2>2
  <2>4. ASSUME NEW j \in 1 .. walked,
               Enumeration[Ith(unvisited, i)] = Enumeration[Ith(unvisited, j)]
        PROVE  i = j
    <3>1. j \in 1 .. Cardinality(unvisited)
      BY <1>4, <1>5
    <3>2. Ith(unvisited, j) \in 1 .. Len(Enumeration)
      BY <1>2, <1>3, <3>1, IthElement
    <3>3. Ith(unvisited, i) = Ith(unvisited, j)
      BY <1>2, <2>3, <2>4, <3>2, ProposalAssumption
    <3> QED
      BY <1>2, <1>3, <2>1, <3>1, <3>3, IthElement
  <2>5. Enumeration[Ith(unvisited, i)] \in Keys
    BY <2>3, ProposalAssumption
  <2> QED
    BY <2>2, <2>4, <2>5 DEF Unvisited
<1> HIDE DEF unvisited, walked
<1>7. listed \in Seq(Keys) /\ Len(listed) = Len(drawn) + walked
  <2>1. ASSUME NEW i \in 1 .. Len(drawn) + walked
        PROVE  listed[i] \in Keys
    <3>1. CASE i <= Len(drawn)
      BY <1>2, <1>5, <3>1 DEF NewPoints
    <3>2. CASE ~(i <= Len(drawn))
      <4>1. i - Len(drawn) \in 1 .. walked
        BY <1>2, <1>5, <3>2
      <4> QED
        BY <1>6, <3>2, <4>1
    <3> QED
      BY <3>1, <3>2
  <2> QED
    BY <1>2, <1>5, <2>1
<1>8. ASSUME NEW i \in DOMAIN listed
      PROVE  /\ listed[i] \notin Seen(told)
             /\ \A j \in DOMAIN listed : listed[i] = listed[j] => i = j
  <2>1. \A j \in DOMAIN listed :
          \/ j \in 1 .. Len(drawn) /\ listed[j] = drawn[j]
          \/ /\ j - Len(drawn) \in 1 .. walked
             /\ listed[j] = Enumeration[Ith(unvisited, j - Len(drawn))]
    BY <1>2, <1>5
  <2> HIDE DEF listed
  <2>2. listed[i] \notin Seen(told)
    BY <1>2, <1>6, <2>1 DEF NewPoints
  <2>3. DOMAIN listed = 1 .. Len(drawn) + walked
    BY DEF listed
  <2>4. ASSUME NEW j \in DOMAIN listed, listed[i] = listed[j]
        PROVE  i = j
    BY <1>2, <1>5, <1>6, <2>1, <2>3, <2>4 DEF NewPoints
  <2> QED
    BY <2>2, <2>4
<1>9. Len(listed) <= n
  BY <1>2, <1>5, <1>7
<1> HIDE DEF listed
<1>10. NewPoints(listed, n, told)
  BY <1>7, <1>8, <1>9 DEF NewPoints
<1> QED
  BY <1>1, <1>10, Zenon DEF unvisited

\* The walk leaves a generator whose cursor is within the enumeration.
LEMMA WalkGenerator ==
    ASSUME NEW g \in Generator, NEW missing \in Nat, NEW drawn, NEW told
    PROVE  Walk(g, missing, drawn, Unvisited(g, drawn, told)).generator \in Generator
<1> DEFINE unvisited == Unvisited(g, drawn, told)
           walked == AtMost(missing, Cardinality(unvisited))
           cursor == IF missing = 0 THEN g.cursor
                     ELSE IF walked < missing THEN Len(Enumeration)
                     ELSE Ith(unvisited, missing)
<1>1. Walk(g, missing, drawn, unvisited).generator = [g EXCEPT !.cursor = cursor]
  BY DEF Walk
<1>2. Len(Enumeration) \in Nat /\ g.cursor \in 0 .. Len(Enumeration)
  BY ProposalAssumption DEF Generator
<1>3. unvisited \in SUBSET (1 .. Len(Enumeration))
  BY <1>2 DEF Unvisited
<1>4. Cardinality(unvisited) \in Nat
  BY <1>2, <1>3, BelowFinite
<1>5. ASSUME missing # 0, ~(walked < missing)
      PROVE  Ith(unvisited, missing) \in unvisited
  <2>1. missing \in 1 .. Cardinality(unvisited)
    BY <1>4, <1>5 DEF AtMost
  <2> QED
    BY <1>2, <1>3, <2>1, IthElement
<1>6. cursor \in 0 .. Len(Enumeration)
  BY <1>2, <1>3, <1>5
<1> HIDE DEF cursor
<1>7. [g EXCEPT !.cursor = cursor] \in Generator
  BY <1>6 DEF Generator
<1> QED
  BY <1>1, <1>7, Zenon DEF unvisited

\* The walk passes no point that is not proposed, and ends where the domain does
\* when it leaves the batch short.
LEMMA WalkCovers ==
    ASSUME NEW g \in Generator, NEW n \in Nat, NEW drawn, NEW told,
           NewPoints(drawn, n, told), n - Len(drawn) \in Nat
    PROVE  LET w == Walk(g, n - Len(drawn), drawn, Unvisited(g, drawn, told))
           IN  /\ \A c \in g.cursor + 1 .. w.generator.cursor :
                    \/ Enumeration[c] \in Seen(told)
                    \/ \E i \in DOMAIN w.points : w.points[i] = Enumeration[c]
               /\ Len(w.points) < n => w.generator.cursor = Len(Enumeration)
<1> DEFINE missing == n - Len(drawn)
           unvisited == Unvisited(g, drawn, told)
           walked == AtMost(missing, Cardinality(unvisited))
           cursor == IF missing = 0 THEN g.cursor
                     ELSE IF walked < missing THEN Len(Enumeration)
                     ELSE Ith(unvisited, missing)
           listed == [i \in 1 .. Len(drawn) + walked |->
                        IF i <= Len(drawn)
                        THEN drawn[i] ELSE Enumeration[Ith(unvisited, i - Len(drawn))]]
           w == Walk(g, missing, drawn, unvisited)
<1>1. w.points = listed /\ w.generator = [g EXCEPT !.cursor = cursor]
  BY DEF Walk
<1>2. /\ Len(drawn) \in Nat /\ Len(Enumeration) \in Nat
      /\ missing \in Nat /\ Len(drawn) + missing = n
      /\ DOMAIN drawn = 1 .. Len(drawn)
      /\ g.cursor \in 0 .. Len(Enumeration)
  BY ProposalAssumption DEF NewPoints, Generator
<1>3. unvisited \in SUBSET (1 .. Len(Enumeration))
  BY <1>2 DEF Unvisited
<1>4. Cardinality(unvisited) \in Nat
  BY <1>2, <1>3, BelowFinite
<1>5. /\ walked \in Nat /\ walked <= missing /\ walked <= Cardinality(unvisited)
      /\ walked < missing => walked = Cardinality(unvisited)
  BY <1>2, <1>4 DEF AtMost
<1>6. w.generator.cursor = cursor
  BY <1>1 DEF Generator
<1>7. \A c \in g.cursor + 1 .. Len(Enumeration) :
        \/ c \in unvisited
        \/ Enumeration[c] \in Seen(told)
        \/ \E i \in DOMAIN drawn : Enumeration[c] = drawn[i]
  BY DEF Unvisited
<1>8. /\ missing = 0 => cursor = g.cursor
      /\ missing # 0 /\ walked < missing => cursor = Len(Enumeration)
      /\ missing # 0 /\ ~(walked < missing) => cursor = Ith(unvisited, missing)
  OBVIOUS
<1>9. /\ DOMAIN listed = 1 .. Len(drawn) + walked /\ Len(listed) = Len(drawn) + walked
      /\ \A i \in 1 .. Len(drawn) + walked :
           listed[i] = IF i <= Len(drawn)
                       THEN drawn[i] ELSE Enumeration[Ith(unvisited, i - Len(drawn))]
  BY <1>2, <1>5
<1> HIDE DEF missing, unvisited, walked, cursor, listed, w
\* A position the walk passes is the one it takes with one of its steps.
<1>a. /\ \A c \in unvisited : /\ c \in 1 .. Len(Enumeration)
                             /\ Cardinality(Below(unvisited, c)) \in 0 .. Cardinality(unvisited) - 1
      /\ \A x, y \in unvisited : x < y =>
           Cardinality(Below(unvisited, x)) < Cardinality(Below(unvisited, y))
  BY <1>2, <1>3, BelowFinite, BelowStrict
<1>b. \A i \in 1 .. Cardinality(unvisited) :
        /\ Ith(unvisited, i) \in unvisited
        /\ Cardinality(Below(unvisited, Ith(unvisited, i))) = i - 1
  BY <1>2, <1>3, IthElement
<1>10. ASSUME missing # 0
       PROVE  /\ cursor \in 0 .. Len(Enumeration)
              /\ \A c \in unvisited : c <= cursor => Cardinality(Below(unvisited, c)) < walked
  <2>1. CASE walked < missing
    <3>1. walked = Cardinality(unvisited) /\ cursor = Len(Enumeration)
      BY <1>5, <1>8, <1>10, <2>1
    <3>2. \A c \in unvisited : Cardinality(Below(unvisited, c)) < walked
      BY <1>4, <1>a, <3>1
    <3> QED
      BY <1>2, <3>1, <3>2
  <2>2. CASE ~(walked < missing)
    <3>1. missing \in 1 .. Cardinality(unvisited) /\ walked = missing
      BY <1>2, <1>4, <1>5, <1>10, <2>2
    <3>2. cursor = Ith(unvisited, missing)
      BY <1>8, <1>10, <2>2
    <3>3. /\ cursor \in unvisited
          /\ Cardinality(Below(unvisited, cursor)) = missing - 1
      BY <1>b, <3>1, <3>2
    <3>4. ASSUME NEW c \in unvisited, c <= cursor
          PROVE  Cardinality(Below(unvisited, c)) < walked
      <4>1. c \in Nat /\ cursor \in Nat
        BY <1>a, <3>3
      <4>2. CASE c = cursor
        BY <1>2, <3>1, <3>3, <4>2
      <4>3. CASE c < cursor
        <5>1. Cardinality(Below(unvisited, c)) < missing - 1
          BY <1>a, <3>3, <4>3
        <5>2. Cardinality(Below(unvisited, c)) \in Int
          BY <1>a
        <5> QED
          BY <1>2, <3>1, <5>1, <5>2
      <4> QED
        BY <3>4, <4>1, <4>2, <4>3
    <3> QED
      BY <1>a, <3>3, <3>4
  <2> QED
    BY <2>1, <2>2
<1>11. ASSUME NEW c \in g.cursor + 1 .. cursor, Enumeration[c] \notin Seen(told)
       PROVE  \E i \in 1 .. Len(drawn) + walked : listed[i] = Enumeration[c]
  <2>1. missing # 0
    BY <1>2, <1>8, <1>11
  <2>2. c \in g.cursor + 1 .. Len(Enumeration) /\ c <= cursor
    BY <1>2, <1>10, <1>11, <2>1
  <2>3. CASE c \notin unvisited
    <3>1. PICK i \in 1 .. Len(drawn) : Enumeration[c] = drawn[i]
      BY <1>2, <1>7, <1>11, <2>2, <2>3
    <3>2. i \in 1 .. Len(drawn) + walked /\ i <= Len(drawn)
      BY <1>2, <1>5
    <3> QED
      BY <1>9, <3>1, <3>2
  <2>4. CASE c \in unvisited
    <3>0. PICK k \in 1 .. Cardinality(unvisited) :
            k = Cardinality(Below(unvisited, c)) + 1 /\ Ith(unvisited, k) = c
      BY <1>2, <1>3, <2>4, IthOf
    <3>1. k \in 1 .. Cardinality(unvisited) /\ Ith(unvisited, k) = c
      BY <3>0
    <3>2. /\ Cardinality(Below(unvisited, c)) < walked
          /\ Cardinality(Below(unvisited, c)) \in Int
      BY <1>a, <1>10, <2>1, <2>2, <2>4
    <3>3. k <= walked
      BY <1>5, <3>0, <3>2
    <3>4. /\ Len(drawn) + k \in 1 .. Len(drawn) + walked
          /\ ~(Len(drawn) + k <= Len(drawn))
          /\ Len(drawn) + k - Len(drawn) = k
      BY <1>2, <1>4, <1>5, <3>1, <3>3
    <3>5. listed[Len(drawn) + k] = Enumeration[c]
      BY <1>9, <3>1, <3>4
    <3> QED
      BY <3>4, <3>5
  <2> QED
    BY <2>3, <2>4
<1>12. Len(listed) < n => cursor = Len(Enumeration)
  BY <1>2, <1>5, <1>8, <1>9
<1>13. /\ \A c \in g.cursor + 1 .. w.generator.cursor :
            \/ Enumeration[c] \in Seen(told)
            \/ \E i \in DOMAIN w.points : w.points[i] = Enumeration[c]
       /\ Len(w.points) < n => w.generator.cursor = Len(Enumeration)
  BY <1>1, <1>6, <1>9, <1>11, <1>12
<1> QED
  BY <1>13, Zenon DEF w, unvisited, missing

\* A batch is the walk that completes what the strands draw.
LEMMA BatchIsWalk ==
    ASSUME CandidateAssumption,
           NEW g \in Generator, NEW n \in Nat \ {0}, NEW told
    PROVE  \E after, drawn :
             /\ after \in Generator /\ after.cursor = g.cursor
             /\ NewPoints(drawn, n, told)
             /\ n - Len(drawn) \in Nat
             /\ Batch(g, n, told) =
                  Walk(after, n - Len(drawn), drawn, Unvisited(after, drawn, told))
<1> DEFINE hits == Hits(g, n, told)
           found == AtMost(n, Cardinality(hits))
           spent == IF found = n THEN Ith(hits, n) ELSE n * AttemptsPerPoint
           drawn == [i \in 1 .. found |-> Attempt(g, told, Ith(hits, i))]
           after == [g EXCEPT !.draws = @ + spent - Free(told)]
<1>1. Batch(g, n, told) = Walk(after, n - found, drawn, Unvisited(after, drawn, told))
  <2>1. {Take(g, n, told, h) : h \in {hits}} = {Take(g, n, told, hits)}
    OBVIOUS
  <2>2. Batch(g, n, told) = Take(g, n, told, hits)
    BY <2>1, TheSingleton, Zenon DEF Batch
  <2> DEFINE walks == {Walk(after, n - found, drawn, unvisited) :
                         unvisited \in {Unvisited(g, drawn, told)}}
  <2>3. Take(g, n, told, hits) = The(walks)
    BY Zenon DEF Take
  <2>4. after.cursor = g.cursor
    BY DEF Generator
  <2>5. Unvisited(after, drawn, told) = Unvisited(g, drawn, told)
    BY <2>4 DEF Unvisited
  <2> HIDE DEF after, drawn, found, hits
  <2>6. walks = {Walk(after, n - found, drawn, Unvisited(g, drawn, told))}
    OBVIOUS
  <2> QED
    BY <2>2, <2>3, <2>5, <2>6, TheSingleton, Zenon
<1>2. n * AttemptsPerPoint \in Nat \ {0} /\ hits \in SUBSET (1 .. n * AttemptsPerPoint)
  BY HitsType
<1>3. Cardinality(hits) \in Nat
  BY <1>2, BelowFinite
<1>4. found \in Nat /\ found <= n /\ found <= Cardinality(hits)
  BY <1>3 DEF AtMost
<1>5. ASSUME NEW i \in 1 .. found
      PROVE  /\ Ith(hits, i) \in hits
             /\ \A j \in 1 .. found : Ith(hits, i) = Ith(hits, j) => i = j
  <2>1. 1 .. found \subseteq 1 .. Cardinality(hits)
    BY <1>3, <1>4
  <2> HIDE DEF found, hits
  <2> QED
    BY <1>2, <2>1, IthElement
<1>6. spent \in Nat \ {0}
  BY <1>2, <1>4, <1>5
<1>7. after \in Generator /\ after.cursor = g.cursor
  BY <1>6 DEF Generator, Free
<1> HIDE DEF after, found, hits
<1>8. NewPoints(drawn, n, told) /\ Len(drawn) = found
  <2>1. drawn \in Seq(Keys) /\ Len(drawn) = found /\ DOMAIN drawn = 1 .. found
    BY <1>4, AttemptType
  <2>2. ASSUME NEW i \in 1 .. found, NEW j \in 1 .. found, drawn[i] = drawn[j]
        PROVE  i = j
    <3>1. ASSUME NEW k \in hits, NEW l \in hits,
                 Attempt(g, told, k) = Attempt(g, told, l)
          PROVE  k = l
      <4>1. k \in Nat /\ l \in Nat /\ k >= 1 /\ l >= 1
        BY <1>2
      <4> QED
        BY <3>1, <4>1 DEF hits, Hits
    <3>2. Attempt(g, told, Ith(hits, i)) = Attempt(g, told, Ith(hits, j))
      BY <2>2
    <3> QED
      BY <1>5, <3>1, <3>2
  <2>3. ASSUME NEW i \in 1 .. found
        PROVE  drawn[i] \notin Seen(told)
    BY <1>5 DEF hits, Hits
  <2> HIDE DEF drawn
  <2> QED
    BY <1>4, <2>1, <2>2, <2>3 DEF NewPoints
<1> HIDE DEF drawn
<1>9. n - found \in Nat
  BY <1>4
<1>10. Batch(g, n, told) =
         Walk(after, n - Len(drawn), drawn, Unvisited(after, drawn, told))
  BY <1>1, <1>8, Zenon
<1>11. n - Len(drawn) \in Nat
  BY <1>8, <1>9
<1> QED
  BY <1>7, <1>8, <1>10, <1>11, Zenon

(***************************************************************************)
(* A proposed batch holds at most n points of the domain, none of which an *)
(* earlier trial holds and no two of which are equal, and the generator it *)
(* leaves is one that run.json can record (ProposalGenerator.propose).     *)
(***************************************************************************)
THEOREM BatchIsNew ==
    ASSUME CandidateAssumption,
           NEW g \in Generator, NEW n \in Nat \ {0}, NEW told
    PROVE  /\ NewPoints(Batch(g, n, told).points, n, told)
           /\ Batch(g, n, told).generator \in Generator
<1>0. \E after, drawn :
        /\ after \in Generator /\ after.cursor = g.cursor
        /\ NewPoints(drawn, n, told)
        /\ n - Len(drawn) \in Nat
        /\ Batch(g, n, told) =
             Walk(after, n - Len(drawn), drawn, Unvisited(after, drawn, told))
  BY BatchIsWalk, Zenon
<1>1. PICK after, drawn :
        /\ after \in Generator
        /\ NewPoints(drawn, n, told) /\ n - Len(drawn) \in Nat
        /\ Batch(g, n, told) =
             Walk(after, n - Len(drawn), drawn, Unvisited(after, drawn, told))
  BY <1>0, Zenon
<1> QED
  BY <1>1, WalkPoints, WalkGenerator

(***************************************************************************)
(* The enumerator leaves no point of the domain behind: what it passes has *)
(* been proposed before or is in the batch, and a batch that is shorter    *)
(* than asked for is short because the walk is at its end.                 *)
(***************************************************************************)
THEOREM BatchCovers ==
    ASSUME CandidateAssumption,
           NEW g \in Generator, NEW n \in Nat \ {0}, NEW told
    PROVE  LET answer == Batch(g, n, told)
           IN  /\ \A c \in g.cursor + 1 .. answer.generator.cursor :
                    \/ Enumeration[c] \in Seen(told)
                    \/ \E i \in DOMAIN answer.points : answer.points[i] = Enumeration[c]
               /\ Len(answer.points) < n => answer.generator.cursor = Len(Enumeration)
<1>0. \E after, drawn :
        /\ after \in Generator /\ after.cursor = g.cursor
        /\ NewPoints(drawn, n, told)
        /\ n - Len(drawn) \in Nat
        /\ Batch(g, n, told) =
             Walk(after, n - Len(drawn), drawn, Unvisited(after, drawn, told))
  BY BatchIsWalk, Zenon
<1>1. PICK after, drawn :
        /\ after \in Generator /\ after.cursor = g.cursor
        /\ NewPoints(drawn, n, told) /\ n - Len(drawn) \in Nat
        /\ Batch(g, n, told) =
             Walk(after, n - Len(drawn), drawn, Unvisited(after, drawn, told))
  BY <1>0, Zenon
<1> DEFINE w == Walk(after, n - Len(drawn), drawn, Unvisited(after, drawn, told))
<1>2. /\ \A c \in after.cursor + 1 .. w.generator.cursor :
           \/ Enumeration[c] \in Seen(told)
           \/ \E i \in DOMAIN w.points : w.points[i] = Enumeration[c]
      /\ Len(w.points) < n => w.generator.cursor = Len(Enumeration)
  BY <1>1, WalkCovers
<1> HIDE DEF w
<1>3. Batch(g, n, told) = w
  BY <1>1 DEF w
<1> QED
  BY <1>1, <1>2, <1>3
-----------------------------------------------------------------------------
(* The run: what holds at each point of the process.                       *)

Installing == {"install ledger", "install metadata", "install report"}

\* Beyond what is completed, the ledger holds a prefix of the pending batch.
LedgerInv ==
    /\ meta.completed <= Len(ledger)
    /\ Len(ledger) - meta.completed <= Len(meta.pending)
    /\ \A i \in 1 .. Len(ledger) - meta.completed :
          ledger[meta.completed + i].key = meta.pending[i]

\* A ledger is only missing before the run or while a pending batch is repaired.
FilesInv ==
    /\ ~metaFile /\ ~ledgerFile => meta = NewMetadata
    /\ metaFile /\ ~ledgerFile => meta.pending # <<>>

\* Ids count from zero; completed and pending keys are pairwise distinct.
DistinctInv ==
    /\ \A i \in DOMAIN ledger : ledger[i].id = i - 1
    /\ \A i \in DOMAIN trials : trials[i].id = i - 1
    /\ \A i, j \in 1 .. meta.completed : ledger[i].key = ledger[j].key => i = j
    /\ \A i, j \in DOMAIN meta.pending : meta.pending[i] = meta.pending[j] => i = j
    /\ \A i \in 1 .. meta.completed, j \in DOMAIN meta.pending :
          ledger[i].key # meta.pending[j]

\* A process that has not reached the loop holds nothing yet.
IdleInv ==
    pc \in Installing \cup {"idle"} =>
        /\ trials = <<>> /\ points = <<>> /\ batch = <<>> /\ batchEnds = <<>>
        /\ gen = NewGenerator /\ stagnation = 0

InstallInv ==
    pc \in Installing =>
        /\ meta = NewMetadata
        /\ ledgerFile <=> pc # "install ledger"
        /\ metaFile <=> pc = "install report"

\* In the loop, memory and disk agree.
LoopInv ==
    pc = "loop" =>
        /\ ledgerFile /\ metaFile
        /\ trials = ledger
        /\ meta = Metadata(<<>>)

\* A proposed batch follows from the committed search and the ledger.
RecordInv ==
    pc \in {"record", "recording"} =>
        /\ ledgerFile
        /\ metaFile <=> pc = "record"
        /\ trials = ledger
        /\ meta = [Metadata(<<>>) EXCEPT !.generator = meta.generator]
        /\ start = Len(trials)
        /\ points # <<>>
        /\ \E n \in 1 .. BatchSize :
             /\ points = Batch(meta.generator, n, trials).points
             /\ gen = Batch(meta.generator, n, trials).generator

\* The points to evaluate are the rest of the pending batch.
EvaluateInv ==
    pc = "evaluate" =>
        /\ metaFile
        /\ trials = Durable
        /\ meta.completed <= Len(trials)
        /\ start = meta.completed
        /\ gen = meta.generator
        /\ stagnation = meta.stagnation
        /\ batchEnds = meta.batchEnds
        /\ points # <<>>
        /\ Len(trials) + Len(points) = meta.completed + Len(meta.pending)
        /\ \A i \in DOMAIN points :
             points[i] = meta.pending[Len(trials) - meta.completed + i]

\* What the process is about to commit is the pending batch, observed whole.
Completes ==
    LET whole == SubSeq(trials, meta.completed + 1, Len(trials))
    IN  /\ meta.pending # <<>>
        /\ Len(trials) = meta.completed + Len(meta.pending)
        /\ \A i \in DOMAIN meta.pending :
             trials[meta.completed + i].key = meta.pending[i]
        /\ gen = Observe(meta.generator, Grew(whole))
        /\ stagnation = Stagnation(meta.stagnation, whole)
        /\ batchEnds = Append(meta.batchEnds, Len(trials))

AppendInv ==
    pc \in {"append", "repairing"} =>
        /\ Completes
        /\ metaFile
        /\ pc = "repairing" => ~ledgerFile
        /\ pc = "append" => meta.completed <= Len(Durable)
        /\ trials = (IF pc = "repairing" THEN ledger ELSE Durable) \o batch

CommitInv ==
    pc \in {"commit", "committing"} =>
        /\ Completes
        /\ ledgerFile
        /\ metaFile <=> pc = "commit"
        /\ trials = ledger

DiskInv == LedgerInv /\ FilesInv /\ DistinctInv /\ ReportIsCommitted

ProcessInv ==
    /\ IdleInv /\ InstallInv /\ LoopInv /\ RecordInv
    /\ EvaluateInv /\ AppendInv /\ CommitInv

IInv == TypeOK /\ DiskInv /\ ProcessInv

-----------------------------------------------------------------------------
(* Helpers.                                                                *)

\* Slicing a sequence from a position of it or just behind its end.
LEMMA SliceFrom ==
    ASSUME NEW S, NEW s \in Seq(S), NEW n \in 0 .. Len(s)
    PROVE  /\ Slice(s, n + 1, Len(s)) = SubSeq(s, n + 1, Len(s))
           /\ SubSeq(s, n + 1, Len(s)) \in Seq(S)
           /\ Len(SubSeq(s, n + 1, Len(s))) = Len(s) - n
           /\ \A i \in 1 .. Len(s) - n : SubSeq(s, n + 1, Len(s))[i] = s[n + i]
<1>1. Slice(s, n + 1, Len(s)) = SubSeq(s, n + 1, Len(s))
  BY DEF Slice, AtMost
<1> QED
  BY <1>1

\* The first n records of a sequence that has as many.
LEMMA SliceTo ==
    ASSUME NEW S, NEW s \in Seq(S), NEW n \in 0 .. Len(s)
    PROVE  /\ Slice(s, 1, n) \in Seq(S)
           /\ Len(Slice(s, 1, n)) = n
           /\ \A i \in 1 .. n : Slice(s, 1, n)[i] = s[i]
<1>1. Slice(s, 1, n) = SubSeq(s, 1, n)
  BY DEF Slice, AtMost
<1> QED
  BY <1>1

\* Two sequences that agree on their first n records have the same slice.
LEMMA SameSlice ==
    ASSUME NEW S, NEW s \in Seq(S), NEW t \in Seq(S), NEW n \in Nat,
           n <= Len(s), n <= Len(t), \A i \in 1 .. n : s[i] = t[i]
    PROVE  Slice(s, 1, n) = Slice(t, 1, n)
<1>1. Slice(s, 1, n) = SubSeq(s, 1, n) /\ Slice(t, 1, n) = SubSeq(t, 1, n)
  BY DEF Slice, AtMost
<1> QED
  BY <1>1

\* What the process finds on disk is a sequence of trials.
LEMMA DurableType ==
    ASSUME TypeOK
    PROVE  Durable \in Seq(Trial)
<1>1. ledger \in Seq(Trial)
  BY DEF TypeOK
<1> QED
  BY <1>1 DEF Durable

\* The generator stays one that run.json can record.
LEMMA ObserveType ==
    ASSUME NEW g \in Generator, NEW grew
    PROVE  Observe(g, grew) \in Generator
BY ProposalAssumption DEF Observe, Generator

LEMMA StagnationType ==
    ASSUME NEW before \in Nat, NEW ts \in Seq(Trial)
    PROVE  Stagnation(before, ts) \in Nat
BY DEF Stagnation

LEMMA NewGeneratorType == NewGenerator \in Generator /\ NewMetadata \in Checkpoints
BY ProposalAssumption DEF NewGenerator, Generator, NewMetadata, Checkpoints

\* Evaluating the points gives one trial each, numbered onwards.
LEMMA NewTrialsType ==
    ASSUME NEW first \in Nat, NEW keys \in Seq(Keys), NEW gains \in [DOMAIN keys -> BOOLEAN]
    PROVE  /\ NewTrials(first, keys, gains) \in Seq(Trial)
           /\ Len(NewTrials(first, keys, gains)) = Len(keys)
           /\ \A i \in DOMAIN keys :
                NewTrials(first, keys, gains)[i] =
                  [id |-> first + i - 1, key |-> keys[i], gain |-> gains[i]]
<1>1. ASSUME NEW i \in DOMAIN keys
      PROVE  [id |-> first + i - 1, key |-> keys[i], gain |-> gains[i]] \in Trial
  BY DEF Trial
<1>2. DOMAIN keys = 1 .. Len(keys) /\ Len(keys) \in Nat
  OBVIOUS
<1> QED
  BY <1>1, <1>2 DEF NewTrials

\* What the ledger holds beyond the completed trials is a prefix of the pending
\* batch.
LEMMA AheadIs ==
    ASSUME TypeOK, DiskInv, meta.completed <= Len(Durable)
    PROVE  /\ Ahead = SubSeq(Durable, meta.completed + 1, Len(Durable))
           /\ Ahead \in Seq(Trial)
           /\ Len(Ahead) = Len(Durable) - meta.completed
           /\ \A i \in 1 .. Len(Ahead) : Ahead[i] = Durable[meta.completed + i]
           /\ Len(Ahead) <= Len(meta.pending)
           /\ \A i \in 1 .. Len(Ahead) : Ahead[i].key = meta.pending[i]
<1>1. Durable \in Seq(Trial) /\ meta.completed \in Nat /\ meta.pending \in Seq(Keys)
  BY DurableType DEF TypeOK, Checkpoints
<1>2. meta.completed \in 0 .. Len(Durable)
  BY <1>1
<1>3. /\ Ahead = SubSeq(Durable, meta.completed + 1, Len(Durable))
      /\ Ahead \in Seq(Trial)
      /\ Len(Ahead) = Len(Durable) - meta.completed
      /\ \A i \in 1 .. Len(Ahead) : Ahead[i] = Durable[meta.completed + i]
  <2>1. Ahead = Slice(Durable, meta.completed + 1, Len(Durable))
    BY DEF Ahead
  <2> DEFINE d == Durable
             n == meta.completed
  <2>2. d \in Seq(Trial) /\ n \in 0 .. Len(d)
    BY <1>1, <1>2
  <2> HIDE DEF d, n
  <2>3. /\ Slice(d, n + 1, Len(d)) = SubSeq(d, n + 1, Len(d))
        /\ SubSeq(d, n + 1, Len(d)) \in Seq(Trial)
        /\ Len(SubSeq(d, n + 1, Len(d))) = Len(d) - n
        /\ \A i \in 1 .. Len(d) - n : SubSeq(d, n + 1, Len(d))[i] = d[n + i]
    BY <2>2, SliceFrom
  <2> QED
    BY <2>1, <2>3 DEF d, n
<1>4. /\ Len(Ahead) <= Len(meta.pending)
      /\ \A i \in 1 .. Len(Ahead) : Ahead[i].key = meta.pending[i]
  <2>1. CASE ledgerFile
    BY <1>1, <1>2, <1>3, <2>1 DEF DiskInv, LedgerInv, Durable
  <2>2. CASE ~ledgerFile
    <3>1. Len(Durable) = 0
      BY <2>2 DEF Durable
    <3>2. Len(Ahead) = 0
      BY <1>1, <1>2, <1>3, <3>1
    <3>3. Len(meta.pending) \in Nat
      BY <1>1
    <3> QED
      BY <3>2, <3>3
  <2> QED
    BY <2>1, <2>2
<1> QED
  BY <1>3, <1>4

\* What a resume reads and recomputes, without the singletons.
LEMMA RecoveryIs ==
    ASSUME NEW b
    PROVE  LET rebuilt  == Reconstruct(Committed, meta.batchEnds)
               replayed == Replay(rebuilt.generator, ToRecover(b))
           IN  Recovery(b) = [proposed |-> replayed.points, generator |-> replayed.generator,
                              refusal |-> Refusal(b, rebuilt, replayed)]
<1> DEFINE rebuilt == Reconstruct(Committed, meta.batchEnds)
           Result(before, replayed) ==
             [proposed |-> replayed.points, generator |-> replayed.generator,
              refusal |-> Refusal(b, before, replayed)]
           Results(before) ==
             {Result(before, replayed) : replayed \in {Replay(before.generator, ToRecover(b))}}
           TheResult(before) == The(Results(before))
<1>1. Recovery(b) = The({TheResult(before) : before \in {rebuilt}})
  BY Zenon DEF Recovery
<1>2. \A before : Results(before) = {Result(before, Replay(before.generator, ToRecover(b)))}
  OBVIOUS
<1> HIDE DEF rebuilt, Results
<1>3. {TheResult(before) : before \in {rebuilt}} = {TheResult(rebuilt)}
  OBVIOUS
<1>4. Recovery(b) = TheResult(rebuilt)
  BY <1>1, <1>3, TheSingleton, Zenon
<1>5. TheResult(rebuilt) = Result(rebuilt, Replay(rebuilt.generator, ToRecover(b)))
  BY <1>2, TheSingleton, Zenon
<1> QED
  BY <1>4, <1>5, Zenon DEF rebuilt

(***************************************************************************)
(* A resume that is not refused recovers exactly what run.json records: the*)
(* generator and the pending batch, of which the ledger holds a prefix.    *)
(***************************************************************************)
LEMMA Recovered ==
    ASSUME TypeOK, DiskInv, NEW b \in Budgets, Recovery(b).refusal = "none"
    PROVE  /\ metaFile
           /\ meta.completed <= Len(Durable)
           /\ Recovery(b).proposed = meta.pending
           /\ Recovery(b).generator = meta.generator
           /\ Ahead = SubSeq(Durable, meta.completed + 1, Len(Durable))
           /\ Ahead \in Seq(Trial)
           /\ Len(Ahead) = Len(Durable) - meta.completed
           /\ \A i \in 1 .. Len(Ahead) :
                /\ Durable[meta.completed + i] = Ahead[i]
                /\ Ahead[i].key = meta.pending[i]
<1> DEFINE rebuilt == Reconstruct(Committed, meta.batchEnds)
           replayed == Replay(rebuilt.generator, ToRecover(b))
<1>1. Recovery(b) = [proposed |-> replayed.points, generator |-> replayed.generator,
                     refusal |-> Refusal(b, rebuilt, replayed)]
  BY RecoveryIs, Zenon
<1> HIDE DEF rebuilt, replayed
<1>2. Refusal(b, rebuilt, replayed) = "none"
  BY <1>1
<1>3. /\ metaFile
      /\ ~(meta.completed > Len(Durable))
      /\ meta.pending # <<>> =>
           replayed.points = meta.pending /\ replayed.generator = meta.generator
      /\ meta.pending = <<>> => rebuilt.generator = meta.generator
  BY <1>2 DEF Refusal
<1>4. meta.completed <= Len(Durable)
  <2>1. Durable \in Seq(Trial) /\ meta.completed \in Nat
    BY DurableType DEF TypeOK, Checkpoints
  <2> QED
    BY <1>3, <2>1
<1>5. /\ Ahead = SubSeq(Durable, meta.completed + 1, Len(Durable))
      /\ Ahead \in Seq(Trial)
      /\ Len(Ahead) = Len(Durable) - meta.completed
      /\ \A i \in 1 .. Len(Ahead) : Ahead[i] = Durable[meta.completed + i]
      /\ Len(Ahead) <= Len(meta.pending)
      /\ \A i \in 1 .. Len(Ahead) : Ahead[i].key = meta.pending[i]
  BY <1>4, AheadIs
<1>6. meta.pending = <<>> => replayed = [points |-> <<>>, generator |-> rebuilt.generator]
  <2>1. meta.pending = <<>> => Ahead = <<>>
    BY <1>5
  <2> QED
    BY <2>1 DEF ToRecover, Replay, replayed
<1>7. replayed.points = meta.pending /\ replayed.generator = meta.generator
  BY <1>3, <1>6
<1> QED
  BY <1>1, <1>3, <1>4, <1>5, <1>7

-----------------------------------------------------------------------------
(* Types.                                                                  *)

\* What the type invariant says of the sequences a process works on.
LEMMA SequenceTypes ==
    ASSUME TypeOK
    PROVE  /\ ledger \in Seq(Trial) /\ trials \in Seq(Trial) /\ batch \in Seq(Trial)
           /\ points \in Seq(Keys) /\ batchEnds \in Seq(Nat \ {0})
           /\ Len(ledger) \in Nat /\ Len(trials) \in Nat
           /\ Len(batch) \in Nat /\ Len(points) \in Nat
<1>1. /\ ledger \in Seq(Trial) /\ trials \in Seq(Trial) /\ batch \in Seq(Trial)
      /\ points \in Seq(Keys) /\ batchEnds \in Seq(Nat \ {0})
  BY DEF TypeOK
<1> QED
  BY <1>1

\* And of the rest of the search and of the checkpoint.
LEMMA SearchTypes ==
    ASSUME TypeOK
    PROVE  /\ gen \in Generator /\ stagnation \in Nat /\ start \in Nat /\ budget \in Nat
           /\ meta.completed \in Nat /\ meta.stagnation \in Nat
           /\ meta.generator \in Generator /\ meta.batchEnds \in Seq(Nat \ {0})
           /\ meta.pending \in Seq(Keys) /\ Len(meta.pending) \in Nat
<1>1. /\ gen \in Generator /\ stagnation \in Nat /\ start \in Nat
      /\ budget \in Budgets \cup {0} /\ meta \in Checkpoints
  BY DEF TypeOK
<1>2. /\ meta.completed \in Nat /\ meta.stagnation \in Nat
      /\ meta.generator \in Generator /\ meta.batchEnds \in Seq(Nat \ {0})
      /\ meta.pending \in Seq(Keys)
  BY <1>1 DEF Checkpoints
<1> QED
  BY <1>1, <1>2, CheckpointAssumption

LEMMA InitType == Init => TypeOK
<1> SUFFICES ASSUME Init PROVE TypeOK
  OBVIOUS
<1>1. meta \in Checkpoints /\ gen \in Generator
  BY NewGeneratorType DEF Init
<1>2. /\ ledger \in Seq(Trial) /\ trials \in Seq(Trial) /\ batch \in Seq(Trial)
      /\ points \in Seq(Keys) /\ batchEnds \in Seq(Nat \ {0})
  BY DEF Init
<1>3. budget \in Budgets \cup {0} /\ faults \in 0 .. MaxFaults /\ report.count \in Nat
  BY CheckpointAssumption DEF Init
<1> QED
  BY <1>1, <1>2, <1>3 DEF Init, TypeOK

\* What a process that ends leaves in memory.
LEMMA IdleType ==
    ASSUME Idle
    PROVE  /\ pc' = "idle" /\ budget' = 0 /\ trials' \in Seq(Trial) /\ batch' \in Seq(Trial)
           /\ gen' \in Generator /\ stagnation' \in Nat /\ start' \in Nat
           /\ batchEnds' \in Seq(Nat \ {0}) /\ points' \in Seq(Keys)
BY NewGeneratorType DEF Idle

LEMMA FreshType ==
    ASSUME TypeOK, InstallLedger \/ InstallMetadata \/ InstallReport
    PROVE  TypeOK'
<1>1. CASE InstallLedger
  <2>1. ledger' \in Seq(Trial)
    <3>1. ledger' = <<>>
      BY <1>1 DEF InstallLedger
    <3> QED
      BY <3>1
  <2> QED
    BY <1>1, <2>1 DEF TypeOK, InstallLedger, search
<1>2. CASE InstallMetadata
  BY <1>2, NewGeneratorType DEF TypeOK, InstallMetadata, search
<1>3. CASE InstallReport
  BY <1>3 DEF TypeOK, InstallReport, search
<1> QED
  BY <1>1, <1>2, <1>3

\* The checkpoint that would be written now.
LEMMA MetadataType ==
    ASSUME TypeOK, NEW pending \in Seq(Keys)
    PROVE  Metadata(pending) \in Checkpoints
BY SequenceTypes, SearchTypes DEF Metadata, Checkpoints

LEMMA RecordType ==
    ASSUME CandidateAssumption, TypeOK, Propose \/ RecordBackup \/ RecordInstall
    PROVE  TypeOK'
<1>1. CASE Propose
  <2>1. Wanted \in Nat \ {0}
    <3>1. Len(trials) < budget
      BY <1>1 DEF Propose
    <3> QED
      BY <3>1, SequenceTypes, SearchTypes, CheckpointAssumption, SMTT(60) DEF Wanted, AtMost
  <2>2. points' \in Seq(Keys) /\ gen' \in Generator
    <3>1. /\ points' = Batch(gen, Wanted, trials).points
          /\ gen' = Batch(gen, Wanted, trials).generator
      BY <1>1 DEF Propose
    <3> QED
      BY <2>1, <3>1, SearchTypes, BatchIsNew DEF NewPoints
  <2>3. start' \in Nat
    BY <1>1, SequenceTypes DEF Propose
  <2> QED
    BY <1>1, <2>2, <2>3 DEF TypeOK, Propose, disk
<1>2. CASE RecordBackup
  BY <1>2 DEF TypeOK, RecordBackup, search
<1>3. CASE RecordInstall
  <2>1. meta' \in Checkpoints
    BY <1>3, MetadataType, SequenceTypes DEF RecordInstall
  <2> QED
    BY <1>3, <2>1 DEF TypeOK, RecordInstall, search
<1> QED
  BY <1>1, <1>2, <1>3

\* Evaluating the points of a batch extends the trials by as many.
LEMMA Evaluated ==
    ASSUME TypeOK, EvaluateInv, NEW gains \in [DOMAIN points -> BOOLEAN], Evaluate(gains)
    PROVE  /\ batch' = NewTrials(Len(trials), points, gains)
           /\ batch' \in Seq(Trial) /\ Len(batch') = Len(points)
           /\ trials' = trials \o batch'
           /\ trials' \in Seq(Trial) /\ Len(trials') = Len(trials) + Len(points)
           /\ \A i \in 1 .. Len(trials) : trials'[i] = trials[i]
           /\ \A i \in DOMAIN points :
                trials'[Len(trials) + i] =
                  [id |-> Len(trials) + i - 1, key |-> points[i], gain |-> gains[i]]
           /\ Len(points) >= 1
           /\ start <= Len(trials)
<1>1. /\ batch' = NewTrials(Len(trials), points, gains)
      /\ trials' = trials \o batch'
  BY DEF Evaluate
<1>2. /\ batch' \in Seq(Trial) /\ Len(batch') = Len(points)
      /\ \A i \in DOMAIN points :
           batch'[i] = [id |-> Len(trials) + i - 1, key |-> points[i], gain |-> gains[i]]
  BY <1>1, SequenceTypes, NewTrialsType
<1>3. /\ trials' \in Seq(Trial) /\ Len(trials') = Len(trials) + Len(batch')
      /\ \A i \in 1 .. Len(trials) + Len(batch') :
           trials'[i] = IF i <= Len(trials) THEN trials[i] ELSE batch'[i - Len(trials)]
  BY <1>1, <1>2, SequenceTypes, ConcatProperties
<1>4. DOMAIN points = 1 .. Len(points)
  BY SequenceTypes
<1>5. Len(points) >= 1
  BY SequenceTypes DEF EvaluateInv, Evaluate
<1>6. start <= Len(trials)
  BY DEF EvaluateInv, Evaluate
<1> QED
  BY <1>1, <1>2, <1>3, <1>4, <1>5, <1>6, SequenceTypes, SMTT(60)

LEMMA EvaluateType ==
    ASSUME TypeOK, EvaluateInv, NEW gains \in [DOMAIN points -> BOOLEAN], Evaluate(gains)
    PROVE  TypeOK'
<1> DEFINE whole == SubSeq(trials', start + 1, Len(trials'))
<1>1. /\ batch' \in Seq(Trial) /\ trials' \in Seq(Trial)
      /\ Len(trials') \in Nat \ {0} /\ start \in 0 .. Len(trials')
  BY Evaluated, SequenceTypes, SearchTypes, SMTT(30)
<1>2. whole \in Seq(Trial)
  BY <1>1, SliceFrom
<1>3. /\ gen' = Observe(gen, Grew(whole))
      /\ stagnation' = Stagnation(stagnation, whole)
      /\ batchEnds' = Append(batchEnds, Len(trials'))
      /\ points' = <<>>
  BY DEF Evaluate
<1> HIDE DEF whole
<1>4. gen' \in Generator /\ stagnation' \in Nat
  BY <1>2, <1>3, ObserveType, StagnationType, SearchTypes
<1>5. batchEnds' \in Seq(Nat \ {0}) /\ points' \in Seq(Keys)
  BY <1>1, <1>3, SequenceTypes, AppendProperties
<1> QED
  BY <1>1, <1>4, <1>5 DEF TypeOK, Evaluate, disk

\* What the append leaves is the ledger found, followed by the batch.
LEMMA AppendType ==
    ASSUME TypeOK, AppendDirect \/ RepairBackup \/ RepairInstall
    PROVE  TypeOK'
<1>1. CASE AppendDirect
  <2>1. ledger' \in Seq(Trial)
    BY <1>1, DurableType, SequenceTypes, ConcatProperties DEF AppendDirect, Appends
  <2>2. batch' \in Seq(Trial)
    <3>1. batch' = <<>>
      BY <1>1 DEF AppendDirect, Appends
    <3> QED
      BY <3>1
  <2> QED
    BY <1>1, <2>1, <2>2 DEF TypeOK, AppendDirect, Appends
<1>2. CASE RepairBackup
  BY <1>2 DEF TypeOK, RepairBackup, Appends, search
<1>3. CASE RepairInstall
  <2>1. ledger' \in Seq(Trial)
    BY <1>3, SequenceTypes, ConcatProperties DEF RepairInstall
  <2>2. batch' \in Seq(Trial)
    <3>1. batch' = <<>>
      BY <1>3 DEF RepairInstall
    <3> QED
      BY <3>1
  <2> QED
    BY <1>3, <2>1, <2>2 DEF TypeOK, RepairInstall
<1> QED
  BY <1>1, <1>2, <1>3

LEMMA CommitType ==
    ASSUME TypeOK, CommitBackup \/ CommitInstall
    PROVE  TypeOK'
<1>1. CASE CommitBackup
  BY <1>1 DEF TypeOK, CommitBackup, search
<1>2. CASE CommitInstall
  <2>1. <<>> \in Seq(Keys)
    OBVIOUS
  <2>2. meta' \in Checkpoints
    BY <1>2, <2>1, MetadataType DEF CommitInstall
  <2> QED
    BY <1>2, <2>2 DEF TypeOK, CommitInstall, search
<1> QED
  BY <1>1, <1>2

LEMMA FinishType ==
    ASSUME TypeOK, NEW reason, Finish(reason)
    PROVE  TypeOK'
<1>1. Idle /\ report'.count \in Nat
  BY SequenceTypes DEF Finish
<1> QED
  BY <1>1, IdleType DEF TypeOK, Finish

LEMMA FailureType ==
    ASSUME TypeOK, TooLarge \/ Interrupt \/ Crash \/ AppendCut \/ OperatorClears
    PROVE  TypeOK'
<1>0. Fault => faults' \in 0 .. MaxFaults
  <2>1. faults \in 0 .. MaxFaults
    BY DEF TypeOK
  <2> QED
    BY <2>1, CheckpointAssumption DEF Fault
<1>1. CASE TooLarge
  <2>1. Idle
    BY <1>1 DEF TooLarge
  <2> QED
    BY <1>1, <2>1, IdleType DEF TypeOK, TooLarge, disk
<1>2. CASE Interrupt
  <2>1. Idle /\ Fault /\ ledgerFile' \in BOOLEAN /\ metaFile' \in BOOLEAN
    BY <1>2 DEF Interrupt
  <2> QED
    BY <1>0, <1>2, <2>1, IdleType DEF TypeOK, Interrupt
<1>3. CASE Crash
  <2>1. Idle /\ Fault
    BY <1>3 DEF Crash
  <2> QED
    BY <1>0, <1>3, <2>1, IdleType DEF TypeOK, Crash, disk
<1>4. CASE AppendCut
  <2>1. /\ Idle /\ Fault /\ ledgerFile' = TRUE
        /\ claim' \in {"free", "abandoned"} /\ UNCHANGED <<metaFile, meta, report>>
    BY <1>4 DEF AppendCut, Appends
  <2>2. PICK k \in 0 .. Len(batch) : ledger' = Durable \o SubSeq(batch, 1, k)
    BY <1>4 DEF AppendCut, Appends
  <2>3. SubSeq(batch, 1, k) \in Seq(Trial)
    BY SequenceTypes
  <2>4. ledger' \in Seq(Trial)
    BY <2>2, <2>3, DurableType, ConcatProperties
  <2>5. tail' \in {"newline", "no newline", "fragment"}
    BY <1>4 DEF AppendCut, Appends
  <2> QED
    BY <1>0, <2>1, <2>4, <2>5, IdleType DEF TypeOK
<1>5. CASE OperatorClears
  BY <1>5 DEF TypeOK, OperatorClears, disk, search
<1> QED
  BY <1>1, <1>2, <1>3, <1>4, <1>5

(***************************************************************************)
(* What a resume does: nothing, or it takes over what is on disk and goes  *)
(* on with the commit, with the rest of the pending batch or with the loop.*)
(***************************************************************************)
ResumeSettles ==
    /\ pc' = "commit"
    /\ meta.pending # <<>> /\ Len(Ahead) = Len(meta.pending)
    /\ gen' = Observe(meta.generator, Grew(Ahead))
    /\ stagnation' = Stagnation(meta.stagnation, Ahead)
    /\ batchEnds' = Append(meta.batchEnds, Len(Durable))
    /\ start' = meta.completed
    /\ points' = <<>>

ResumeEvaluates ==
    /\ pc' = "evaluate"
    /\ Len(Ahead) < Len(meta.pending)
    /\ gen' = meta.generator
    /\ stagnation' = meta.stagnation
    /\ batchEnds' = meta.batchEnds
    /\ start' = meta.completed
    /\ points' = SubSeq(meta.pending, Len(Ahead) + 1, Len(meta.pending))

ResumeLoops ==
    /\ pc' = "loop"
    /\ meta.pending = <<>>
    /\ gen' = meta.generator
    /\ stagnation' = meta.stagnation
    /\ batchEnds' = meta.batchEnds
    /\ start' = Len(Durable)
    /\ points' = <<>>

ResumeTakesOver(b) ==
    /\ metaFile
    /\ meta.completed <= Len(Durable)
    /\ Ahead = SubSeq(Durable, meta.completed + 1, Len(Durable))
    /\ Ahead \in Seq(Trial)
    /\ Len(Ahead) = Len(Durable) - meta.completed
    /\ \A i \in 1 .. Len(Ahead) :
          /\ Durable[meta.completed + i] = Ahead[i]
          /\ Ahead[i].key = meta.pending[i]
    /\ claim' = "held" /\ budget' = b /\ trials' = Durable
    /\ UNCHANGED <<disk, batch, faults>>
    /\ ResumeSettles \/ ResumeEvaluates \/ ResumeLoops

LEMMA Resumed ==
    ASSUME TypeOK, DiskInv, NEW b \in Budgets, Resume(b)
    PROVE  \/ UNCHANGED <<disk, claim, pc, search, faults>>
           \/ pc = "idle" /\ ResumeTakesOver(b)
<1> DEFINE r == Recovery(b)
<1>1. pc = "idle"
  BY DEF Resume
<1>2. CASE ResumeRefused(r)
  BY <1>2 DEF ResumeRefused
<1>3. ASSUME Restore(b, r)
      PROVE  /\ r.proposed = meta.pending /\ r.generator = meta.generator
             /\ metaFile
             /\ meta.completed <= Len(Durable)
             /\ Ahead = SubSeq(Durable, meta.completed + 1, Len(Durable))
             /\ Ahead \in Seq(Trial)
             /\ Len(Ahead) = Len(Durable) - meta.completed
             /\ \A i \in 1 .. Len(Ahead) :
                   /\ Durable[meta.completed + i] = Ahead[i]
                   /\ Ahead[i].key = meta.pending[i]
             /\ claim' = "held" /\ budget' = b /\ trials' = Durable
             /\ UNCHANGED <<disk, batch, faults>>
  <2>1. r.refusal = "none"
    BY <1>3 DEF Restore
  <2>2. /\ claim' = "held" /\ budget' = b /\ trials' = Durable
        /\ UNCHANGED <<disk, batch, faults>>
    BY <1>3 DEF Restore
  <2> QED
    BY <2>1, <2>2, Recovered
<1> HIDE DEF r
<1>4. CASE ResumeSettled(b, r)
  <2>1. Restore(b, r)
    BY <1>4 DEF ResumeSettled
  <2>2. ResumeSettles
    BY <1>3, <1>4, <2>1 DEF ResumeSettled, ResumeSettles
  <2> QED
    BY <1>1, <1>3, <2>1, <2>2 DEF ResumeTakesOver
<1>5. CASE ResumeUnsettled(b, r)
  <2>1. Restore(b, r)
    BY <1>5 DEF ResumeUnsettled
  <2>2. ResumeEvaluates
    BY <1>3, <1>5, <2>1 DEF ResumeUnsettled, ResumeEvaluates
  <2> QED
    BY <1>1, <1>3, <2>1, <2>2 DEF ResumeTakesOver
<1>6. CASE ResumeClean(b, r)
  <2>1. Restore(b, r)
    BY <1>6 DEF ResumeClean
  <2>2. ResumeLoops
    BY <1>3, <1>6, <2>1 DEF ResumeClean, ResumeLoops
  <2> QED
    BY <1>1, <1>3, <2>1, <2>2 DEF ResumeTakesOver
<1> QED
  BY <1>2, <1>4, <1>5, <1>6 DEF Resume, r

LEMMA StartType ==
    ASSUME TypeOK, DiskInv, NEW b \in Budgets, StartFresh(b) \/ Resume(b)
    PROVE  TypeOK'
<1>1. CASE StartFresh(b)
  BY <1>1 DEF TypeOK, StartFresh, disk
<1>2. CASE UNCHANGED <<disk, claim, pc, search, faults>>
  BY <1>2, ZenonT(60) DEF TypeOK, disk, search
<1>3. CASE ResumeTakesOver(b)
  <2>1. /\ trials' \in Seq(Trial) /\ Ahead \in Seq(Trial)
        /\ Len(Durable) \in Nat /\ Len(Ahead) = Len(Durable) - meta.completed
        /\ Len(Ahead) \in Nat
    BY <1>3, DurableType DEF ResumeTakesOver
  <2>2. /\ gen' \in Generator /\ stagnation' \in Nat /\ start' \in Nat
        /\ batchEnds' \in Seq(Nat \ {0}) /\ points' \in Seq(Keys)
        /\ pc' \in {"commit", "evaluate", "loop"}
    <3>1. CASE ResumeSettles
      <4>1. Len(Durable) \in Nat \ {0}
        BY <2>1, <3>1, SearchTypes, SMTT(60) DEF ResumeSettles
      <4>2. batchEnds' \in Seq(Nat \ {0})
        BY <3>1, <4>1, SearchTypes, AppendProperties DEF ResumeSettles
      <4>3. gen' \in Generator /\ stagnation' \in Nat
        BY <2>1, <3>1, SearchTypes, ObserveType, StagnationType DEF ResumeSettles
      <4>4. points' \in Seq(Keys)
        <5>1. points' = <<>>
          BY <3>1 DEF ResumeSettles
        <5> QED
          BY <5>1
      <4> QED
        BY <3>1, <4>2, <4>3, <4>4, SearchTypes DEF ResumeSettles
    <3>2. CASE ResumeEvaluates
      <4>1. Len(Ahead) \in 0 .. Len(meta.pending)
        BY <2>1, <3>2, SearchTypes, SMTT(60) DEF ResumeEvaluates
      <4>2. points' \in Seq(Keys)
        BY <3>2, <4>1, SearchTypes, SliceFrom DEF ResumeEvaluates
      <4> QED
        BY <3>2, <4>2, SearchTypes DEF ResumeEvaluates
    <3>3. CASE ResumeLoops
      <4>1. points' \in Seq(Keys)
        <5>1. points' = <<>>
          BY <3>3 DEF ResumeLoops
        <5> QED
          BY <5>1
      <4> QED
        BY <2>1, <3>3, <4>1, SearchTypes DEF ResumeLoops
    <3> QED
      BY <1>3, <3>1, <3>2, <3>3 DEF ResumeTakesOver
  <2>3. claim' = "held" /\ budget' = b /\ UNCHANGED <<disk, batch, faults>>
    BY <1>3 DEF ResumeTakesOver
  <2> QED
    BY <2>1, <2>2, <2>3 DEF TypeOK, disk
<1> QED
  BY <1>1, <1>2, <1>3, Resumed

-----------------------------------------------------------------------------
(* The invariant.                                                          *)

LEMMA InitIInv == Init => IInv
<1> SUFFICES ASSUME Init PROVE IInv
  OBVIOUS
<1>1. TypeOK
  BY InitType
<1>2. LedgerInv /\ FilesInv /\ DistinctInv /\ ReportIsCommitted
  BY DEF Init, LedgerInv, FilesInv, DistinctInv, ReportIsCommitted, NewMetadata
<1>3. ProcessInv
  BY DEF Init, ProcessInv, IdleInv, InstallInv, LoopInv, RecordInv, EvaluateInv, AppendInv,
         CommitInv, Installing
<1> QED
  BY <1>1, <1>2, <1>3 DEF IInv, DiskInv

\* A step that leaves the disk alone keeps what is true of it.
LEMMA DiskKept ==
    ASSUME DiskInv, UNCHANGED disk, \A i \in DOMAIN trials' : trials'[i].id = i - 1
    PROVE  DiskInv'
<1>1. UNCHANGED <<ledgerFile, ledger, metaFile, meta, report>>
  BY DEF disk
<1>2. LedgerInv' /\ FilesInv' /\ ReportIsCommitted'
  BY <1>1 DEF DiskInv, LedgerInv, FilesInv, ReportIsCommitted
<1>3. DistinctInv'
  BY <1>1 DEF DiskInv, DistinctInv
<1> QED
  BY <1>2, <1>3 DEF DiskInv

\* The trials on disk count from zero as the ledger does.
LEMMA DurableIds ==
    ASSUME TypeOK, DiskInv
    PROVE  \A i \in DOMAIN Durable : Durable[i].id = i - 1
BY DEF DiskInv, DistinctInv, Durable

LEMMA StartIInv ==
    ASSUME IInv, NEW b \in Budgets, StartFresh(b) \/ Resume(b)
    PROVE  DiskInv' /\ ProcessInv'
<1> USE DEF IInv
<1>1. CASE StartFresh(b)
  <2>1. UNCHANGED disk /\ UNCHANGED trials /\ pc' = "install ledger"
    BY <1>1 DEF StartFresh
  <2>2. DiskInv'
    BY <2>1, DiskKept DEF DiskInv, DistinctInv
  <2>3. /\ pc = "idle" /\ ~ledgerFile /\ ~metaFile
        /\ UNCHANGED <<disk, trials, gen, stagnation, batchEnds, points, start, batch>>
    BY <1>1 DEF StartFresh
  <2>4. IdleInv' /\ InstallInv'
    <3>1. IdleInv'
      BY <2>3 DEF ProcessInv, IdleInv, Installing
    <3>2. meta = NewMetadata
      BY <2>3 DEF DiskInv, FilesInv
    <3>3. ledgerFile = FALSE /\ metaFile = FALSE
      BY <2>3 DEF TypeOK
    <3>4. InstallInv'
      BY <2>1, <3>2, <3>3 DEF InstallInv, Installing, disk
    <3> QED
      BY <3>1, <3>4
  <2>5. LoopInv' /\ RecordInv' /\ EvaluateInv' /\ AppendInv' /\ CommitInv'
    BY <2>1 DEF LoopInv, RecordInv, EvaluateInv, AppendInv, CommitInv
  <2> QED
    BY <2>2, <2>4, <2>5 DEF ProcessInv
<1>2. CASE UNCHANGED <<disk, claim, pc, search, faults>>
  <2>1. DiskInv'
    BY <1>2, DiskKept DEF DiskInv, DistinctInv, search
  <2>2. ProcessInv'
    BY <1>2 DEF ProcessInv, IdleInv, InstallInv, LoopInv, RecordInv, EvaluateInv, AppendInv,
                CommitInv, Completes, Durable, Metadata, disk, search
  <2> QED
    BY <2>1, <2>2
<1>3. CASE pc = "idle" /\ ResumeTakesOver(b)
  <2>1. /\ metaFile' = metaFile /\ ledgerFile' = ledgerFile /\ ledger' = ledger
        /\ meta' = meta /\ trials' = Durable /\ UNCHANGED disk /\ metaFile
    BY <1>3 DEF ResumeTakesOver, disk
  <2>2. DiskInv'
    BY <2>1, DurableIds, DiskKept
  <2>3. CASE ResumeSettles
    <3>1. ledgerFile /\ Durable = ledger
      <4>1. Len(Durable) # 0
        BY <1>3, <2>3, SearchTypes DEF ResumeTakesOver, ResumeSettles
      <4> QED
        BY <4>1 DEF Durable
    <3>2. Completes'
      <4>1. /\ meta'.pending # <<>>
            /\ Len(trials') = meta'.completed + Len(meta'.pending)
            /\ \A i \in DOMAIN meta'.pending :
                 trials'[meta'.completed + i].key = meta'.pending[i]
        <5>1. /\ meta.pending # <<>> /\ Len(Ahead) = Len(meta.pending)
              /\ Len(Ahead) = Len(Durable) - meta.completed
              /\ \A i \in 1 .. Len(Ahead) :
                   /\ Durable[meta.completed + i] = Ahead[i]
                   /\ Ahead[i].key = meta.pending[i]
          BY <1>3, <2>3 DEF ResumeTakesOver, ResumeSettles
        <5>2. DOMAIN meta.pending = 1 .. Len(meta.pending) /\ Len(Durable) \in Nat
          BY SearchTypes, DurableType
        <5>3. Len(Durable) = meta.completed + Len(meta.pending)
          BY <5>1, <5>2, SearchTypes
        <5>4. \A i \in DOMAIN meta.pending :
                Durable[meta.completed + i].key = meta.pending[i]
          BY <5>1, <5>2
        <5> QED
          BY <2>1, <5>1, <5>3, <5>4
      <4>2. Ahead = SubSeq(trials', meta'.completed + 1, Len(trials'))
        BY <1>3, <2>1 DEF ResumeTakesOver
      <4>3. /\ gen' = Observe(meta'.generator, Grew(Ahead))
            /\ stagnation' = Stagnation(meta'.stagnation, Ahead)
            /\ batchEnds' = Append(meta'.batchEnds, Len(trials'))
        BY <2>1, <2>3 DEF ResumeSettles
      <4> QED
        BY <4>1, <4>2, <4>3 DEF Completes
    <3>3. CommitInv'
      BY <2>1, <2>3, <3>1, <3>2 DEF CommitInv, ResumeSettles
    <3> QED
      BY <2>2, <2>3, <3>3
      DEF ResumeSettles, ProcessInv, IdleInv, InstallInv, LoopInv, RecordInv, EvaluateInv,
          AppendInv, Installing
  <2>4. CASE ResumeEvaluates
    <3>1. EvaluateInv'
      <4>1. /\ Len(Ahead) = Len(Durable) - meta.completed
            /\ meta.completed <= Len(Durable)
            /\ Len(Ahead) < Len(meta.pending)
            /\ points' = SubSeq(meta.pending, Len(Ahead) + 1, Len(meta.pending))
        BY <1>3, <2>4 DEF ResumeTakesOver, ResumeEvaluates
      <4>2. Len(Durable) \in Nat /\ Len(Ahead) \in 0 .. Len(meta.pending)
        BY <4>1, DurableType, SearchTypes, SMTT(60)
      <4>3. /\ points' \in Seq(Keys)
            /\ Len(points') = Len(meta.pending) - Len(Ahead)
            /\ \A i \in 1 .. Len(meta.pending) - Len(Ahead) :
                 points'[i] = meta.pending[Len(Ahead) + i]
        BY <4>1, <4>2, SearchTypes, SliceFrom, ZenonT(60)
      <4>4. /\ points' # <<>>
            /\ Len(Durable) + Len(points') = meta.completed + Len(meta.pending)
            /\ \A i \in DOMAIN points' :
                 points'[i] = meta.pending[Len(Durable) - meta.completed + i]
        <5>1. /\ Len(Durable) \in Nat /\ Len(meta.pending) \in Nat /\ meta.completed \in Nat
              /\ Len(Ahead) \in Nat
          BY <4>2, SearchTypes
        <5>2. Len(points') >= 1 /\ DOMAIN points' = 1 .. Len(points')
          BY <4>1, <4>3, <5>1
        <5>3. points' # <<>>
          BY <5>2
        <5>4. Len(Durable) + Len(points') = meta.completed + Len(meta.pending)
          <6>1. /\ Len(points') = Len(meta.pending) - Len(Ahead)
                /\ Len(Ahead) = Len(Durable) - meta.completed
            BY <4>1, <4>3
          <6> QED
            BY <5>1, <6>1
        <5> QED
          BY <4>1, <4>3, <5>2, <5>3, <5>4
      <4>5. Durable' = Durable
        BY <2>1 DEF Durable
      <4> QED
        BY <2>1, <2>4, <4>1, <4>4, <4>5 DEF EvaluateInv, ResumeEvaluates
    <3> QED
      BY <2>2, <2>4, <3>1
      DEF ResumeEvaluates, ProcessInv, IdleInv, InstallInv, LoopInv, RecordInv, CommitInv,
          AppendInv, Installing
  <2>5. CASE ResumeLoops
    <3>1. ledgerFile /\ Durable = ledger
      BY <2>1, <2>5 DEF ResumeLoops, DiskInv, FilesInv, Durable
    <3>2. LedgerInv /\ meta.pending = <<>>
      BY <2>5 DEF DiskInv, ResumeLoops
    <3>3. Len(ledger) = meta.completed
      BY <3>2, SequenceTypes, SearchTypes DEF LedgerInv
    <3>4. meta = Metadata(<<>>)'
      <4>1. meta = [completed |-> meta.completed, stagnation |-> meta.stagnation,
                    generator |-> meta.generator, batchEnds |-> meta.batchEnds,
                    pending |-> meta.pending]
        BY DEF TypeOK, Checkpoints
      <4> QED
        BY <2>1, <2>5, <3>1, <3>3, <4>1 DEF Metadata, ResumeLoops
    <3>5. LoopInv'
      BY <2>1, <2>5, <3>1, <3>4 DEF LoopInv, ResumeLoops
    <3> QED
      BY <2>2, <2>5, <3>5
      DEF ResumeLoops, ProcessInv, IdleInv, InstallInv, EvaluateInv, RecordInv, CommitInv,
          AppendInv, Installing
  <2> QED
    BY <1>3, <2>3, <2>4, <2>5 DEF ResumeTakesOver
<1> QED
  BY <1>1, <1>2, <1>3, Resumed

LEMMA FreshIInv ==
    ASSUME IInv, InstallLedger \/ InstallMetadata \/ InstallReport
    PROVE  DiskInv' /\ ProcessInv'
<1> USE DEF IInv
<1>1. /\ pc \in Installing /\ meta = NewMetadata /\ UNCHANGED search
      /\ pc' \in Installing \cup {"loop"} /\ meta' = meta
  BY DEF InstallLedger, InstallMetadata, InstallReport, Installing, ProcessInv, InstallInv
<1>2. Len(ledger) = 0
  BY <1>1, SequenceTypes DEF DiskInv, LedgerInv, NewMetadata
<1>3. ledger' = ledger
  <2>1. ledger = <<>>
    BY <1>2, SequenceTypes
  <2>2. ledger' = <<>> \/ ledger' = ledger
    BY DEF InstallLedger, InstallMetadata, InstallReport
  <2> QED
    BY <2>1, <2>2
<1>4. UNCHANGED <<trials, gen, stagnation, batchEnds, points, batch>>
  BY <1>1 DEF search
<1>5. IdleInv'
  BY <1>1, <1>4 DEF ProcessInv, IdleInv, Installing
<1>6. LedgerInv' /\ DistinctInv'
  BY <1>1, <1>3, <1>4 DEF DiskInv, LedgerInv, DistinctInv
<1>7. FilesInv' /\ ReportIsCommitted'
  <2>1. CASE InstallLedger
    BY <1>1, <2>1 DEF InstallLedger, DiskInv, FilesInv, ReportIsCommitted
  <2>2. CASE InstallMetadata
    <3>1. ledgerFile
      BY <1>1, <2>2 DEF InstallMetadata, ProcessInv, InstallInv
    <3> QED
      BY <1>1, <2>2, <3>1 DEF InstallMetadata, DiskInv, FilesInv, ReportIsCommitted
  <2>3. CASE InstallReport
    <3>1. ledgerFile /\ meta.completed = 0
      BY <1>1, <2>3 DEF InstallReport, ProcessInv, InstallInv, NewMetadata
    <3>2. report'.count = 0 /\ ledgerFile' = ledgerFile /\ meta'.completed = 0
      BY <1>1, <2>3, <3>1 DEF InstallReport
    <3> QED
      BY <3>1, <3>2 DEF FilesInv, ReportIsCommitted
  <2> QED
    BY <2>1, <2>2, <2>3
<1>8. InstallInv'
  <2>1. ledgerFile \in BOOLEAN /\ metaFile \in BOOLEAN
    BY DEF TypeOK
  <2> QED
    BY <1>1, <2>1
    DEF InstallLedger, InstallMetadata, InstallReport, ProcessInv, InstallInv, Installing
<1>9. LoopInv'
  <2>1. SUFFICES ASSUME InstallReport PROVE LoopInv'
    BY DEF InstallLedger, InstallMetadata, LoopInv
  <2>2. ledgerFile' /\ metaFile'
    BY <2>1 DEF InstallReport, ProcessInv, InstallInv, Installing
  <2>3. trials' = <<>> /\ ledger' = <<>>
    BY <1>1, <1>2, <1>3, <1>4, SequenceTypes DEF ProcessInv, IdleInv
  <2>4. meta' = Metadata(<<>>)'
    BY <1>1, <1>4, <2>3 DEF ProcessInv, IdleInv, Metadata, NewMetadata
  <2> QED
    BY <2>2, <2>3, <2>4 DEF LoopInv
<1>10. RecordInv' /\ EvaluateInv' /\ AppendInv' /\ CommitInv'
  BY <1>1 DEF RecordInv, EvaluateInv, AppendInv, CommitInv, Installing
<1> QED
  BY <1>5, <1>6, <1>7, <1>8, <1>9, <1>10 DEF DiskInv, ProcessInv

LEMMA ProposeIInv ==
    ASSUME IInv, Propose
    PROVE  DiskInv' /\ ProcessInv'
<1> USE DEF IInv
<1>1. /\ pc = "loop" /\ pc' = "record" /\ start' = Len(trials)
      /\ UNCHANGED <<disk, trials, stagnation, batchEnds, batch>>
      /\ Len(trials) < budget
      /\ points' = Batch(gen, Wanted, trials).points /\ points' # <<>>
      /\ gen' = Batch(gen, Wanted, trials).generator
  BY DEF Propose
<1>2. ledgerFile /\ metaFile /\ trials = ledger /\ meta = Metadata(<<>>)
  BY <1>1 DEF ProcessInv, LoopInv
<1>3. Wanted \in 1 .. BatchSize
  BY <1>1, SequenceTypes, SearchTypes, CheckpointAssumption, SMTT(60) DEF Wanted, AtMost
<1>4. DiskInv'
  BY <1>1, DiskKept DEF DiskInv, DistinctInv
<1>5. RecordInv'
  <2>1. UNCHANGED <<ledgerFile, metaFile, ledger, meta>>
    BY <1>1 DEF disk
  <2>2. meta' = [Metadata(<<>>)' EXCEPT !.generator = meta'.generator]
    BY <1>1, <1>2, <2>1 DEF Metadata
  <2>3. meta.generator = gen
    BY <1>2 DEF Metadata
  <2> QED
    BY <1>1, <1>2, <1>3, <2>1, <2>2, <2>3 DEF RecordInv
<1> QED
  BY <1>1, <1>4, <1>5
  DEF ProcessInv, IdleInv, InstallInv, LoopInv, EvaluateInv, AppendInv, CommitInv, Installing

LEMMA RecordBackupIInv ==
    ASSUME IInv, RecordBackup
    PROVE  DiskInv' /\ ProcessInv'
<1> USE DEF IInv
<1>1. /\ pc = "record" /\ pc' = "recording" /\ metaFile' = FALSE
      /\ UNCHANGED <<ledgerFile, ledger, meta, report, search>>
  BY DEF RecordBackup
<1>2. ledgerFile
  BY <1>1 DEF ProcessInv, RecordInv
<1>3. DiskInv'
  BY <1>1, <1>2
  DEF DiskInv, LedgerInv, FilesInv, DistinctInv, ReportIsCommitted, search
<1>4. RecordInv'
  BY <1>1 DEF ProcessInv, RecordInv, Metadata, search
<1> QED
  BY <1>1, <1>3, <1>4
  DEF ProcessInv, IdleInv, InstallInv, LoopInv, EvaluateInv, AppendInv, CommitInv, Installing

\* What is proposed becomes what run.json records: new, distinct points.
LEMMA RecordInstallIInv ==
    ASSUME CandidateAssumption, IInv, RecordInstall
    PROVE  DiskInv' /\ ProcessInv'
<1> USE DEF IInv
<1>1. /\ pc = "recording" /\ pc' = "evaluate" /\ metaFile' = TRUE
      /\ meta' = Metadata(points)
      /\ UNCHANGED <<ledgerFile, ledger, report, search>>
  BY DEF RecordInstall
<1>2. /\ ledgerFile /\ trials = ledger /\ points # <<>> /\ start = Len(trials)
      /\ meta = [Metadata(<<>>) EXCEPT !.generator = meta.generator]
  BY <1>1 DEF ProcessInv, RecordInv
<1>3. meta.completed = Len(trials)
  BY <1>2 DEF Metadata
<1>4. PICK n \in 1 .. BatchSize : points = Batch(meta.generator, n, trials).points
  BY <1>1 DEF ProcessInv, RecordInv
<1>5. NewPoints(points, n, trials)
  <2>1. n \in Nat \ {0} /\ meta.generator \in Generator
    BY SearchTypes, CheckpointAssumption
  <2> QED
    BY <1>4, <2>1, BatchIsNew
<1>6. /\ meta'.completed = Len(trials) /\ meta'.pending = points
      /\ meta'.generator = gen /\ meta'.stagnation = stagnation
      /\ meta'.batchEnds = batchEnds
  BY <1>1 DEF Metadata
<1>7. LedgerInv' /\ FilesInv' /\ ReportIsCommitted'
  BY <1>1, <1>2, <1>3, <1>6, SequenceTypes
  DEF LedgerInv, FilesInv, ReportIsCommitted, DiskInv
<1>8. DistinctInv'
  <2>1. \A i \in DOMAIN points, j \in DOMAIN ledger : points[i] # ledger[j].key
    BY <1>2, <1>5 DEF NewPoints, Seen
  <2>2. \A i, j \in DOMAIN points : points[i] = points[j] => i = j
    BY <1>5 DEF NewPoints
  <2>3. DOMAIN ledger = 1 .. Len(trials)
    BY <1>2, SequenceTypes
  <2> QED
    BY <1>1, <1>2, <1>3, <1>6, <2>1, <2>2, <2>3 DEF DiskInv, DistinctInv, search
<1>9. EvaluateInv'
  <2>1. UNCHANGED <<trials, gen, stagnation, batchEnds, points, start>>
    BY <1>1 DEF search
  <2>2. \A i \in DOMAIN points : points[i] = points[Len(trials) - Len(trials) + i]
    BY SequenceTypes
  <2> QED
    BY <1>1, <1>2, <1>6, <2>1, <2>2, SequenceTypes DEF EvaluateInv, Durable
<1> QED
  BY <1>1, <1>7, <1>8, <1>9
  DEF DiskInv, ProcessInv, IdleInv, InstallInv, LoopInv, RecordInv, AppendInv, CommitInv,
      Installing

\* Evaluating the rest of the pending batch makes it whole.
LEMMA EvaluateIInv ==
    ASSUME IInv, NEW gains \in [DOMAIN points -> BOOLEAN], Evaluate(gains)
    PROVE  DiskInv' /\ ProcessInv'
<1> USE DEF IInv
<1>1. /\ pc = "evaluate" /\ pc' = "append" /\ UNCHANGED disk
      /\ points' = <<>>
  BY DEF Evaluate
<1>2. EvaluateInv
  BY DEF ProcessInv
<1>3. /\ metaFile /\ trials = Durable /\ meta.completed <= Len(trials)
      /\ start = meta.completed
      /\ gen = meta.generator /\ stagnation = meta.stagnation /\ batchEnds = meta.batchEnds
      /\ Len(trials) + Len(points) = meta.completed + Len(meta.pending)
      /\ \A i \in DOMAIN points :
           points[i] = meta.pending[Len(trials) - meta.completed + i]
  BY <1>1, <1>2 DEF EvaluateInv
<1>4. /\ trials' = trials \o batch'
      /\ trials' \in Seq(Trial) /\ Len(trials') = Len(trials) + Len(points)
      /\ \A i \in 1 .. Len(trials) : trials'[i] = trials[i]
      /\ \A i \in DOMAIN points :
           trials'[Len(trials) + i] =
             [id |-> Len(trials) + i - 1, key |-> points[i], gain |-> gains[i]]
      /\ Len(points) >= 1
  BY <1>2, Evaluated
<1>5. /\ UNCHANGED <<ledgerFile, ledger, metaFile, meta>> /\ Durable' = Durable
  BY <1>1 DEF disk, Durable
<1>6. \A i \in DOMAIN trials' :
        \/ i \in 1 .. Len(trials) /\ trials'[i] = trials[i]
        \/ /\ i - Len(trials) \in DOMAIN points
           /\ trials'[i] = [id |-> i - 1, key |-> points[i - Len(trials)],
                            gain |-> gains[i - Len(trials)]]
  <2>1. ASSUME NEW i \in DOMAIN trials', ~(i \in 1 .. Len(trials))
        PROVE  /\ i - Len(trials) \in DOMAIN points
               /\ trials'[i] = [id |-> i - 1, key |-> points[i - Len(trials)],
                                gain |-> gains[i - Len(trials)]]
    <3>1. i \in 1 .. Len(trials) + Len(points)
      BY <1>4
    <3>2. i - Len(trials) \in DOMAIN points
      BY <2>1, <3>1, SequenceTypes
    <3>3. Len(trials) + (i - Len(trials)) = i
      BY <3>1, SequenceTypes
    <3> QED
      BY <1>4, <3>2, <3>3
  <2> QED
    BY <1>4, <2>1
<1>7. \A i \in DOMAIN trials' : trials'[i].id = i - 1
  <2>1. \A i \in 1 .. Len(trials) : trials[i].id = i - 1
    BY SequenceTypes DEF DiskInv, DistinctInv
  <2> QED
    BY <1>6, <2>1
<1>8. DiskInv'
  BY <1>1, <1>7, DiskKept
<1>9. Completes'
  <2>1. Len(trials') = meta.completed + Len(meta.pending) /\ Len(meta.pending) >= 1
    <3>1. /\ meta.completed <= Len(trials) /\ Len(points) >= 1
          /\ Len(trials) + Len(points) = meta.completed + Len(meta.pending)
          /\ Len(trials') = Len(trials) + Len(points)
      BY <1>3, <1>4
    <3>2. /\ Len(trials) \in Nat /\ Len(points) \in Nat
          /\ Len(meta.pending) \in Nat /\ meta.completed \in Nat
      BY SequenceTypes, SearchTypes
    <3> QED
      BY <3>1, <3>2
  <2>2. ASSUME NEW i \in DOMAIN meta.pending
        PROVE  trials'[meta.completed + i].key = meta.pending[i]
    <3> DEFINE k == meta.completed + i
    <3>1. k \in DOMAIN trials' /\ i \in 1 .. Len(meta.pending) /\ k - meta.completed = i
      <4>1. i \in 1 .. Len(meta.pending) /\ meta.completed \in Nat
        BY SearchTypes
      <4>2. DOMAIN trials' = 1 .. Len(trials')
        BY <1>4
      <4> QED
        BY <2>1, <4>1, <4>2
    <3>2. CASE k \in 1 .. Len(trials) /\ trials'[k] = trials[k]
      <4>1. ledgerFile /\ trials = ledger
        BY <1>3, <3>1, <3>2 DEF Durable
      <4>2. i \in 1 .. Len(ledger) - meta.completed
        BY <3>1, <3>2, <4>1, SequenceTypes, SearchTypes, SMTT(60)
      <4> QED
        BY <3>2, <4>1, <4>2 DEF DiskInv, LedgerInv
    <3>3. CASE /\ k - Len(trials) \in DOMAIN points
               /\ trials'[k] = [id |-> k - 1, key |-> points[k - Len(trials)],
                                gain |-> gains[k - Len(trials)]]
      <4>1. Len(trials) - meta.completed + (k - Len(trials)) = i
        BY <3>1, SequenceTypes, SearchTypes, SMTT(60)
      <4> QED
        BY <1>3, <3>3, <4>1
    <3> QED
      BY <1>6, <3>1, <3>2, <3>3
  <2>3. meta.pending # <<>>
    BY <2>1
  <2>4. /\ gen' = Observe(gen, Grew(SubSeq(trials', start + 1, Len(trials'))))
        /\ stagnation' = Stagnation(stagnation, SubSeq(trials', start + 1, Len(trials')))
        /\ batchEnds' = Append(batchEnds, Len(trials'))
    BY DEF Evaluate
  <2> QED
    BY <1>3, <1>5, <2>1, <2>2, <2>3, <2>4 DEF Completes
<1>10. AppendInv'
  BY <1>1, <1>3, <1>4, <1>5, <1>9 DEF AppendInv
<1> QED
  BY <1>1, <1>8, <1>10
  DEF ProcessInv, IdleInv, InstallInv, LoopInv, RecordInv, EvaluateInv, CommitInv, Installing

(***************************************************************************)
(* A ledger may grow along the pending batch, whole or in part, as long as *)
(* the completed trials stay.                                              *)
(***************************************************************************)
LEMMA LedgerGrows ==
    ASSUME TypeOK, DiskInv, UNCHANGED <<metaFile, meta, report>>, ledgerFile',
           ledger' \in Seq(Trial),
           meta.completed <= Len(ledger'),
           Len(ledger') <= meta.completed + Len(meta.pending),
           \A i \in 1 .. Len(ledger') - meta.completed :
              ledger'[meta.completed + i].key = meta.pending[i],
           \A i \in 1 .. meta.completed : ledger'[i] = ledger[i],
           \A i \in DOMAIN ledger' : ledger'[i].id = i - 1,
           \A i \in DOMAIN trials' : trials'[i].id = i - 1
    PROVE  DiskInv'
<1>1. LedgerInv'
  <2>1. /\ Len(ledger') \in Nat /\ meta.completed \in Nat /\ Len(meta.pending) \in Nat
        /\ meta' = meta
    BY SearchTypes
  <2>2. Len(ledger') - meta.completed <= Len(meta.pending)
    BY <2>1
  <2> QED
    BY <2>1, <2>2 DEF LedgerInv
<1>2. FilesInv' /\ ReportIsCommitted'
  BY DEF DiskInv, FilesInv, ReportIsCommitted
<1>3. DistinctInv'
  <2>1. meta' = meta
    OBVIOUS
  <2>2. /\ \A i, j \in 1 .. meta.completed : ledger'[i].key = ledger'[j].key => i = j
        /\ \A i \in 1 .. meta.completed, j \in DOMAIN meta.pending :
              ledger'[i].key # meta.pending[j]
    <3>1. \A i \in 1 .. meta.completed : ledger'[i] = ledger[i]
      OBVIOUS
    <3>2. /\ \A i, j \in 1 .. meta.completed : ledger[i].key = ledger[j].key => i = j
          /\ \A i \in 1 .. meta.completed, j \in DOMAIN meta.pending :
                ledger[i].key # meta.pending[j]
      BY DEF DiskInv, DistinctInv
    <3> QED
      BY <3>1, <3>2
  <2>3. \A i, j \in DOMAIN meta.pending : meta.pending[i] = meta.pending[j] => i = j
    BY DEF DiskInv, DistinctInv
  <2> QED
    BY <2>1, <2>2, <2>3 DEF DistinctInv
<1> QED
  BY <1>1, <1>2, <1>3 DEF DiskInv

\* What an append leaves, whole or cut, are the first of the process's trials.
LEMMA AppendGrows ==
    ASSUME IInv, pc \in {"append", "repairing"}, UNCHANGED <<metaFile, meta, report>>,
           ledgerFile', NEW k \in 0 .. Len(batch),
           ledger' = (IF pc = "repairing" THEN ledger ELSE Durable) \o SubSeq(batch, 1, k),
           \A i \in DOMAIN trials' : trials'[i].id = i - 1
    PROVE  /\ DiskInv'
           /\ k = Len(batch) => ledger' = trials
           /\ \A i \in 1 .. meta.completed : ledger'[i] = ledger[i]
<1> USE DEF IInv
<1> DEFINE found == IF pc = "repairing" THEN ledger ELSE Durable
           part == SubSeq(batch, 1, k)
<1>1. /\ found \in Seq(Trial) /\ Len(found) \in Nat
      /\ Len(batch) \in Nat /\ batch \in Seq(Trial)
      /\ part \in Seq(Trial) /\ Len(part) = k
      /\ \A i \in 1 .. k : part[i] = batch[i]
  BY SequenceTypes, DurableType
<1>2. Completes /\ trials = found \o batch
  BY DEF ProcessInv, AppendInv
<1>3. meta.completed <= Len(found)
  BY DEF ProcessInv, AppendInv, DiskInv, LedgerInv
<1>4. \A i \in 1 .. meta.completed : found[i] = ledger[i]
  <2>1. found = ledger \/ found = <<>>
    BY DEF Durable
  <2>2. found = <<>> => meta.completed = 0
    BY <1>3, SearchTypes
  <2> QED
    BY <2>1, <2>2
<1>5. ledger' = found \o part
  OBVIOUS
<1> HIDE DEF found, part
<1>6. /\ trials \in Seq(Trial) /\ ledger' \in Seq(Trial)
      /\ Len(trials) = Len(found) + Len(batch)
      /\ Len(ledger') = Len(found) + k
      /\ DOMAIN trials = 1 .. Len(found) + Len(batch)
      /\ DOMAIN ledger' = 1 .. Len(found) + k
  <2>1. trials \in Seq(Trial) /\ Len(trials) = Len(found) + Len(batch)
    BY <1>1, <1>2, ConcatProperties
  <2>2. ledger' \in Seq(Trial) /\ Len(ledger') = Len(found) + Len(part)
    BY <1>1, <1>5, ConcatProperties
  <2>3. Len(ledger') = Len(found) + k
    BY <1>1, <2>2
  <2>4. DOMAIN trials = 1 .. Len(trials) /\ DOMAIN ledger' = 1 .. Len(ledger')
    BY <2>1, <2>2, LenProperties
  <2> QED
    BY <2>1, <2>2, <2>3, <2>4
<1>7. /\ \A i \in 1 .. Len(found) + Len(batch) :
           trials[i] = IF i <= Len(found) THEN found[i] ELSE batch[i - Len(found)]
      /\ \A i \in 1 .. Len(found) + k :
           ledger'[i] = IF i <= Len(found) THEN found[i] ELSE part[i - Len(found)]
  <2>1. /\ \A i \in 1 .. Len(found) + Len(batch) : (found \o batch)[i] =
              IF i <= Len(found) THEN found[i] ELSE batch[i - Len(found)]
        /\ \A i \in 1 .. Len(found) + Len(part) : (found \o part)[i] =
              IF i <= Len(found) THEN found[i] ELSE part[i - Len(found)]
    BY <1>1, ConcatProperties
  <2> QED
    BY <1>1, <1>2, <1>5, <2>1
<1>8. /\ Len(trials) = meta.completed + Len(meta.pending)
      /\ \A i \in DOMAIN meta.pending : trials[meta.completed + i].key = meta.pending[i]
  BY <1>2 DEF Completes
<1>9. /\ k \in Nat /\ k <= Len(batch) /\ Len(batch) \in Nat
      /\ Len(found) \in Nat /\ meta.completed \in Nat /\ Len(meta.pending) \in Nat
      /\ meta.completed <= Len(found)
      /\ Len(found) + Len(batch) = meta.completed + Len(meta.pending)
  <2>1. Len(found) + Len(batch) = meta.completed + Len(meta.pending)
    BY <1>6, <1>8
  <2>2. k \in Nat /\ k <= Len(batch) /\ Len(found) \in Nat /\ Len(batch) \in Nat
    BY <1>1
  <2> QED
    BY <1>3, <2>1, <2>2, SearchTypes
<1>10. \A i \in DOMAIN ledger' : i \in DOMAIN trials /\ ledger'[i] = trials[i]
  <2> SUFFICES ASSUME NEW i \in DOMAIN ledger'
               PROVE  i \in DOMAIN trials /\ ledger'[i] = trials[i]
    OBVIOUS
  <2>1. i \in 1 .. Len(found) + k
    BY <1>6
  <2>2. /\ i \in 1 .. Len(found) + Len(batch)
        /\ ~(i <= Len(found)) => i - Len(found) \in 1 .. k
    BY <1>9, <2>1
  <2>3. i \in DOMAIN trials
    BY <1>6, <2>2
  <2>4. ledger'[i] = trials[i]
    <3>1. CASE i <= Len(found)
      BY <1>7, <2>1, <2>2, <3>1
    <3>2. CASE ~(i <= Len(found))
      <4>1. part[i - Len(found)] = batch[i - Len(found)]
        BY <1>1, <2>2, <3>2
      <4> QED
        BY <1>7, <2>1, <2>2, <3>2, <4>1
    <3> QED
      BY <3>1, <3>2
  <2> QED
    BY <2>3, <2>4
<1>11. /\ meta.completed <= Len(found) + k
       /\ Len(found) + k <= meta.completed + Len(meta.pending)
  BY <1>9
<1>12. \A i \in 1 .. Len(ledger') - meta.completed :
         ledger'[meta.completed + i].key = meta.pending[i]
  <2> SUFFICES ASSUME NEW i \in 1 .. Len(ledger') - meta.completed
               PROVE  ledger'[meta.completed + i].key = meta.pending[i]
    OBVIOUS
  <2>1. i \in 1 .. (Len(found) + k) - meta.completed
    BY <1>6
  <2>2. meta.completed + i \in 1 .. Len(found) + k /\ i \in 1 .. Len(meta.pending)
    BY <1>9, <1>11, <2>1, SMTT(60)
  <2>3. meta.completed + i \in DOMAIN ledger'
    BY <1>6, <2>2
  <2>4. i \in DOMAIN meta.pending
    BY <2>2, SearchTypes
  <2> QED
    BY <1>8, <1>10, <2>3, <2>4
<1>13. \A i \in 1 .. meta.completed : ledger'[i] = ledger[i]
  <2> SUFFICES ASSUME NEW i \in 1 .. meta.completed PROVE ledger'[i] = ledger[i]
    OBVIOUS
  <2>1. i \in 1 .. Len(found) + k /\ i <= Len(found)
    BY <1>3, <1>9
  <2> QED
    BY <1>4, <1>7, <2>1
<1>14. \A i \in DOMAIN ledger' : ledger'[i].id = i - 1
  BY <1>10 DEF DiskInv, DistinctInv
<1>15. DiskInv'
  BY <1>6, <1>11, <1>12, <1>13, <1>14, LedgerGrows
<1>16. k = Len(batch) => ledger' = trials
  <2> SUFFICES ASSUME k = Len(batch) PROVE ledger' = trials
    OBVIOUS
  <2>1. part = batch
    BY <1>1, SubSeqFull DEF part
  <2> QED
    BY <1>2, <1>5, <2>1
<1> QED
  BY <1>13, <1>15, <1>16

LEMMA AppendIInv ==
    ASSUME IInv, AppendDirect \/ RepairBackup \/ RepairInstall
    PROVE  DiskInv' /\ ProcessInv'
<1> USE DEF IInv
<1>1. CASE AppendDirect
  <2>1. /\ pc = "append" /\ pc' = "commit" /\ ledgerFile' = TRUE
        /\ ledger' = Durable \o batch
        /\ UNCHANGED <<metaFile, meta, report, trials, gen, stagnation, batchEnds>>
    BY <1>1 DEF AppendDirect, Appends
  <2>2. SubSeq(batch, 1, Len(batch)) = batch /\ Len(batch) \in 0 .. Len(batch)
    BY SequenceTypes, SubSeqFull
  <2>3. DiskInv' /\ ledger' = trials
    BY <2>1, <2>2, AppendGrows DEF DiskInv, DistinctInv
  <2>4. CommitInv'
    BY <2>1, <2>3 DEF ProcessInv, AppendInv, CommitInv, Completes
  <2> QED
    BY <2>1, <2>3, <2>4
    DEF ProcessInv, IdleInv, InstallInv, LoopInv, RecordInv, EvaluateInv, AppendInv, Installing
<1>2. CASE RepairBackup
  <2>1. /\ pc = "append" /\ pc' = "repairing" /\ ledgerFile /\ ledgerFile' = FALSE
        /\ UNCHANGED <<ledger, metaFile, meta, report, search>>
    BY <1>2 DEF RepairBackup, Appends
  <2>2. AppendInv'
    BY <2>1 DEF ProcessInv, AppendInv, Completes, Durable, search
  <2>3. DiskInv'
    <3>1. FilesInv'
      BY <2>1 DEF ProcessInv, AppendInv, Completes, FilesInv
    <3> QED
      BY <2>1, <3>1 DEF DiskInv, LedgerInv, DistinctInv, ReportIsCommitted, search
  <2> QED
    BY <2>1, <2>2, <2>3
    DEF ProcessInv, IdleInv, InstallInv, LoopInv, RecordInv, EvaluateInv, CommitInv, Installing
<1>3. CASE RepairInstall
  <2>1. /\ pc = "repairing" /\ pc' = "commit" /\ ledgerFile' = TRUE
        /\ ledger' = ledger \o batch
        /\ UNCHANGED <<metaFile, meta, report, trials, gen, stagnation, batchEnds>>
    BY <1>3 DEF RepairInstall
  <2>2. SubSeq(batch, 1, Len(batch)) = batch /\ Len(batch) \in 0 .. Len(batch)
    BY SequenceTypes, SubSeqFull
  <2>3. DiskInv' /\ ledger' = trials
    BY <2>1, <2>2, AppendGrows DEF DiskInv, DistinctInv
  <2>4. CommitInv'
    BY <2>1, <2>3 DEF ProcessInv, AppendInv, CommitInv, Completes
  <2> QED
    BY <2>1, <2>3, <2>4
    DEF ProcessInv, IdleInv, InstallInv, LoopInv, RecordInv, EvaluateInv, AppendInv, Installing
<1> QED
  BY <1>1, <1>2, <1>3

LEMMA CommitIInv ==
    ASSUME IInv, CommitBackup \/ CommitInstall
    PROVE  DiskInv' /\ ProcessInv'
<1> USE DEF IInv
<1>1. CASE CommitBackup
  <2>1. /\ pc = "commit" /\ pc' = "committing" /\ metaFile' = FALSE
        /\ UNCHANGED <<ledgerFile, ledger, meta, report, search>>
    BY <1>1 DEF CommitBackup
  <2>2. CommitInv'
    BY <2>1 DEF ProcessInv, CommitInv, Completes, search
  <2>3. DiskInv'
    <3>1. FilesInv'
      BY <2>1 DEF ProcessInv, CommitInv, FilesInv
    <3> QED
      BY <2>1, <3>1 DEF DiskInv, LedgerInv, DistinctInv, ReportIsCommitted, search
  <2> QED
    BY <2>1, <2>2, <2>3
    DEF ProcessInv, IdleInv, InstallInv, LoopInv, RecordInv, EvaluateInv, AppendInv, Installing
<1>2. CASE CommitInstall
  <2>1. /\ pc = "committing" /\ pc' = "loop" /\ metaFile' = TRUE
        /\ meta' = Metadata(<<>>)
        /\ UNCHANGED <<ledgerFile, ledger, report, search>>
    BY <1>2 DEF CommitInstall
  <2>2. ledgerFile /\ trials = ledger /\ Completes
    BY <2>1 DEF ProcessInv, CommitInv
  <2>3. /\ meta'.completed = Len(ledger) /\ meta'.pending = <<>>
    BY <2>1, <2>2 DEF Metadata
  <2>4. /\ Len(ledger) = meta.completed + Len(meta.pending)
        /\ \A i \in DOMAIN meta.pending : ledger[meta.completed + i].key = meta.pending[i]
    BY <2>2 DEF Completes
  <2>5. /\ Len(ledger) \in Nat /\ meta.completed \in Nat /\ Len(meta.pending) \in Nat
        /\ DOMAIN meta.pending = 1 .. Len(meta.pending)
    BY SequenceTypes, SearchTypes
  <2>6. LedgerInv' /\ FilesInv'
    BY <2>1, <2>2, <2>3, <2>5 DEF LedgerInv, FilesInv
  <2>7. ReportIsCommitted'
    <3>1. report.count \in Nat /\ report.count <= meta.completed
      BY DEF TypeOK, DiskInv, ReportIsCommitted
    <3> QED
      BY <2>1, <2>3, <2>4, <2>5, <3>1 DEF ReportIsCommitted
  <2>8. DistinctInv'
    <3>1. ASSUME NEW i \in 1 .. Len(ledger), NEW j \in 1 .. Len(ledger),
                 ledger[i].key = ledger[j].key
          PROVE  i = j
      <4>1. \A n \in 1 .. Len(ledger) :
              \/ n \in 1 .. meta.completed
              \/ /\ n - meta.completed \in DOMAIN meta.pending
                 /\ ledger[n].key = meta.pending[n - meta.completed]
        <5> SUFFICES ASSUME NEW n \in 1 .. Len(ledger), ~(n \in 1 .. meta.completed)
                     PROVE  /\ n - meta.completed \in DOMAIN meta.pending
                            /\ ledger[n].key = meta.pending[n - meta.completed]
          OBVIOUS
        <5>1. n - meta.completed \in DOMAIN meta.pending
          BY <2>4, <2>5
        <5>2. meta.completed + (n - meta.completed) = n
          BY <2>5
        <5> QED
          BY <2>4, <5>1, <5>2
      <4>2. /\ \A m, n \in 1 .. meta.completed : ledger[m].key = ledger[n].key => m = n
            /\ \A m, n \in DOMAIN meta.pending : meta.pending[m] = meta.pending[n] => m = n
            /\ \A m \in 1 .. meta.completed, n \in DOMAIN meta.pending :
                 ledger[m].key # meta.pending[n]
        BY DEF DiskInv, DistinctInv
      <4>3. i - meta.completed = j - meta.completed => i = j
        BY <2>5
      <4> QED
        BY <3>1, <4>1, <4>2, <4>3
    <3> QED
      BY <2>1, <2>3, <3>1 DEF DiskInv, DistinctInv, search
  <2>9. LoopInv'
    BY <2>1, <2>2 DEF LoopInv, Metadata, search
  <2> QED
    BY <2>1, <2>6, <2>7, <2>8, <2>9
    DEF DiskInv, ProcessInv, IdleInv, InstallInv, CommitInv, RecordInv, EvaluateInv,
        AppendInv, Installing
<1> QED
  BY <1>1, <1>2

\* A process that ends leaves nothing behind in memory.
LEMMA IdleIInv ==
    ASSUME Idle
    PROVE  ProcessInv' /\ \A i \in DOMAIN trials' : trials'[i].id = i - 1
<1>1. /\ pc' = "idle" /\ trials' = <<>> /\ points' = <<>> /\ batch' = <<>>
      /\ batchEnds' = <<>> /\ gen' = NewGenerator /\ stagnation' = 0
  BY DEF Idle
<1> QED
  BY <1>1 DEF ProcessInv, IdleInv, InstallInv, LoopInv, RecordInv, EvaluateInv, AppendInv,
              CommitInv, Installing

LEMMA FinishIInv ==
    ASSUME IInv, NEW reason, Finish(reason)
    PROVE  DiskInv' /\ ProcessInv'
<1> USE DEF IInv
<1>1. /\ pc = "loop" /\ Idle /\ report'.count = Len(trials)
      /\ UNCHANGED <<ledgerFile, ledger, metaFile, meta>>
  BY DEF Finish
<1>2. meta.completed = Len(trials)
  BY <1>1 DEF ProcessInv, LoopInv, Metadata
<1>3. ReportIsCommitted'
  BY <1>1, <1>2, SequenceTypes DEF ReportIsCommitted
<1>4. LedgerInv' /\ FilesInv'
  BY <1>1 DEF DiskInv, LedgerInv, FilesInv
<1>5. DistinctInv'
  BY <1>1, IdleIInv DEF DiskInv, DistinctInv
<1> QED
  BY <1>1, <1>3, <1>4, <1>5, IdleIInv DEF DiskInv

LEMMA FailureIInv ==
    ASSUME IInv, TooLarge \/ Interrupt \/ Crash \/ AppendCut \/ OperatorClears
    PROVE  DiskInv' /\ ProcessInv'
<1> USE DEF IInv
<1>1. CASE TooLarge \/ Crash
  <2>1. Idle /\ UNCHANGED disk
    BY <1>1 DEF TooLarge, Crash
  <2> QED
    BY <2>1, IdleIInv, DiskKept
<1>2. CASE Interrupt
  <2>1. /\ Idle /\ UNCHANGED <<ledger, meta, report>>
        /\ LET fresh == pc \in Installing
           IN  /\ ledgerFile' = (~fresh /\ (ledgerFile \/ pc = "repairing"))
               /\ metaFile' = (~fresh /\ (metaFile \/ pc \in {"recording", "committing"}))
    BY <1>2 DEF Interrupt, Installing
  <2>2. FilesInv'
    <3>1. CASE pc \in Installing
      BY <2>1, <3>1 DEF ProcessInv, InstallInv, FilesInv
    <3>2. CASE pc \notin Installing
      <4>1. ~metaFile' /\ ~ledgerFile' => ~metaFile /\ ~ledgerFile
        BY <2>1, <3>2
      <4>2. metaFile' /\ ~ledgerFile' => metaFile /\ ~ledgerFile
        BY <2>1, <3>2 DEF ProcessInv, RecordInv, CommitInv
      <4> QED
        BY <2>1, <4>1, <4>2 DEF DiskInv, FilesInv
    <3> QED
      BY <3>1, <3>2
  <2>3. LedgerInv' /\ ReportIsCommitted'
    BY <2>1 DEF DiskInv, LedgerInv, ReportIsCommitted
  <2>4. DistinctInv'
    BY <2>1, IdleIInv DEF DiskInv, DistinctInv
  <2> QED
    BY <2>1, <2>2, <2>3, <2>4, IdleIInv DEF DiskInv
<1>3. CASE AppendCut
  <2>1. /\ pc = "append" /\ Idle /\ ledgerFile' = TRUE
        /\ UNCHANGED <<metaFile, meta, report>>
    BY <1>3 DEF AppendCut, Appends
  <2>2. PICK k \in 0 .. Len(batch) : ledger' = Durable \o SubSeq(batch, 1, k)
    BY <1>3 DEF AppendCut, Appends
  <2> QED
    BY <2>1, <2>2, IdleIInv, AppendGrows
<1>4. CASE OperatorClears
  <2>1. UNCHANGED <<disk, pc, search>>
    BY <1>4 DEF OperatorClears
  <2>2. DiskInv'
    BY <2>1, DiskKept DEF DiskInv, DistinctInv, search
  <2>3. ProcessInv'
    BY <2>1
    DEF ProcessInv, IdleInv, InstallInv, LoopInv, RecordInv, EvaluateInv, AppendInv,
        CommitInv, Completes, Durable, Metadata, disk, search
  <2> QED
    BY <2>2, <2>3
<1> QED
  BY <1>1, <1>2, <1>3, <1>4

\* Every step keeps the invariant.
LEMMA NextIInv ==
    ASSUME CandidateAssumption, IInv, Next
    PROVE  IInv'
<1>1. TypeOK /\ DiskInv /\ EvaluateInv
  BY DEF IInv, ProcessInv
<1>2. ASSUME NEW b \in Budgets, StartFresh(b) \/ Resume(b)
      PROVE  IInv'
  BY <1>1, <1>2, StartType, StartIInv DEF IInv
<1>3. CASE InstallLedger \/ InstallMetadata \/ InstallReport
  BY <1>1, <1>3, FreshType, FreshIInv DEF IInv
<1>4. CASE Propose \/ RecordBackup \/ RecordInstall
  <2>1. TypeOK'
    BY <1>1, <1>4, RecordType
  <2> QED
    BY <1>4, <2>1, ProposeIInv, RecordBackupIInv, RecordInstallIInv DEF IInv
<1>5. ASSUME NEW gains \in [DOMAIN points -> BOOLEAN], Evaluate(gains)
      PROVE  IInv'
  BY <1>1, <1>5, EvaluateType, EvaluateIInv DEF IInv
<1>6. CASE AppendDirect \/ RepairBackup \/ RepairInstall
  BY <1>1, <1>6, AppendType, AppendIInv DEF IInv
<1>7. CASE CommitBackup \/ CommitInstall
  BY <1>1, <1>7, CommitType, CommitIInv DEF IInv
<1>8. CASE \E reason : Finish(reason)
  BY <1>1, <1>8, FinishType, FinishIInv DEF IInv
<1>9. CASE TooLarge \/ Interrupt \/ Crash \/ AppendCut \/ OperatorClears
  BY <1>1, <1>9, FailureType, FailureIInv DEF IInv
<1>10. FinishBudget \/ FinishWallTime \/ FinishStagnation \/ FinishEmpty
         => \E reason : Finish(reason)
  BY DEF FinishBudget, FinishWallTime, FinishStagnation, FinishEmpty
<1> QED
  BY <1>2, <1>3, <1>4, <1>5, <1>6, <1>7, <1>8, <1>9, <1>10 DEF Next, Step

LEMMA StutterIInv ==
    ASSUME IInv, UNCHANGED vars
    PROVE  IInv'
<1>1. UNCHANGED <<disk, claim, pc, search, faults>>
  BY DEF vars
<1>2. TypeOK'
  BY <1>1, ZenonT(60) DEF IInv, TypeOK, disk, search
<1>3. DiskInv'
  BY <1>1, DiskKept DEF IInv, DiskInv, DistinctInv, search
<1>4. ProcessInv'
  BY <1>1
  DEF IInv, ProcessInv, IdleInv, InstallInv, LoopInv, RecordInv, EvaluateInv, AppendInv,
      CommitInv, Completes, Durable, Metadata, disk, search
<1> QED
  BY <1>2, <1>3, <1>4 DEF IInv

LEMMA Invariance ==
    ASSUME CandidateAssumption
    PROVE  Spec => []IInv
<1>1. Init => IInv
  BY InitIInv
<1>2. IInv /\ [Next]_vars => IInv'
  BY NextIInv, StutterIInv
<1> QED
  BY <1>1, <1>2, PTL DEF Spec

-----------------------------------------------------------------------------
(* What a step may do to the committed run.                                *)

\* A step keeps run.json and the completed trials, records a batch or commits it.
CommittedKept ==
    /\ meta' = meta
    /\ Slice(ledger', 1, meta.completed) = Slice(ledger, 1, meta.completed)

LEMMA CommittedStep ==
    ASSUME IInv, IInv', [Next]_vars
    PROVE  CommittedKept \/ RecordInstall \/ CommitInstall
<1>1. /\ ledger \in Seq(Trial) /\ ledger' \in Seq(Trial) /\ meta.completed \in Nat
      /\ meta.completed <= Len(ledger) /\ meta'.completed <= Len(ledger')
  <2>1. TypeOK /\ TypeOK' /\ LedgerInv /\ LedgerInv'
    BY DEF IInv, DiskInv
  <2>2. ledger' \in Seq(Trial)
    BY <2>1 DEF TypeOK
  <2> QED
    BY <2>1, <2>2, SequenceTypes, SearchTypes DEF LedgerInv
<1>2. ASSUME meta' = meta, \A i \in 1 .. meta.completed : ledger'[i] = ledger[i]
      PROVE  CommittedKept
  BY <1>1, <1>2, SameSlice DEF CommittedKept
<1>3. ASSUME meta' = meta, ledger' = ledger
      PROVE  CommittedKept
  BY <1>3 DEF CommittedKept
<1>4. CASE UNCHANGED vars
  BY <1>3, <1>4 DEF vars, disk
<1>5. ASSUME NEW b \in Budgets, StartFresh(b) \/ Resume(b)
      PROVE  CommittedKept
  <2>1. UNCHANGED disk
    BY <1>5, Resumed DEF StartFresh, ResumeTakesOver, IInv
  <2> QED
    BY <1>3, <2>1 DEF disk
<1>6. CASE InstallLedger
  <2>1. meta' = meta /\ meta = NewMetadata
    BY <1>6 DEF InstallLedger, IInv, ProcessInv, InstallInv, Installing
  <2>2. meta.completed = 0
    BY <2>1 DEF NewMetadata
  <2> QED
    BY <1>2, <2>1, <2>2
<1>7. CASE InstallMetadata
  BY <1>3, <1>7 DEF InstallMetadata, IInv, ProcessInv, InstallInv, Installing
<1>8. CASE InstallReport \/ RecordBackup \/ RepairBackup \/ CommitBackup
  BY <1>3, <1>8 DEF InstallReport, RecordBackup, RepairBackup, Appends, CommitBackup
<1>9. CASE Propose \/ TooLarge \/ Crash \/ OperatorClears
  BY <1>3, <1>9 DEF Propose, TooLarge, Crash, OperatorClears, disk
<1>10. ASSUME NEW gains, Evaluate(gains)
       PROVE  CommittedKept
  BY <1>3, <1>10 DEF Evaluate, disk
<1>11. CASE AppendDirect \/ RepairInstall
  <2>1. /\ pc \in {"append", "repairing"} /\ ledgerFile'
        /\ UNCHANGED <<metaFile, meta, report, trials>>
        /\ ledger' = (IF pc = "repairing" THEN ledger ELSE Durable) \o batch
    BY <1>11 DEF AppendDirect, Appends, RepairInstall
  <2>2. SubSeq(batch, 1, Len(batch)) = batch /\ Len(batch) \in 0 .. Len(batch)
    BY SequenceTypes, SubSeqFull DEF IInv
  <2>3. \A i \in DOMAIN trials' : trials'[i].id = i - 1
    BY <2>1 DEF IInv, DiskInv, DistinctInv
  <2> QED
    BY <1>2, <2>1, <2>2, <2>3, AppendGrows
<1>12. CASE AppendCut
  <2>1. /\ pc = "append" /\ ledgerFile' /\ Idle /\ UNCHANGED <<metaFile, meta, report>>
    BY <1>12 DEF AppendCut, Appends
  <2>2. PICK k \in 0 .. Len(batch) : ledger' = Durable \o SubSeq(batch, 1, k)
    BY <1>12 DEF AppendCut, Appends
  <2> QED
    BY <1>2, <2>1, <2>2, IdleIInv, AppendGrows
<1>13. CASE Interrupt
  BY <1>3, <1>13 DEF Interrupt
<1>14. CASE FinishBudget \/ FinishWallTime \/ FinishStagnation \/ FinishEmpty
  BY <1>3, <1>14 DEF FinishBudget, FinishWallTime, FinishStagnation, FinishEmpty, Finish
<1> QED
  BY <1>4, <1>5, <1>6, <1>7, <1>8, <1>9, <1>10, <1>11, <1>12, <1>13, <1>14 DEF Next, Step

\* Recording a batch offers it, computed from the committed search alone.
LEMMA RecordStep ==
    ASSUME IInv, RecordInstall
    PROVE  /\ ledger' = ledger
           /\ meta.pending = <<>> /\ meta'.pending # <<>>
           /\ meta.completed = Len(ledger) /\ meta'.completed = Len(ledger)
           /\ meta'.stagnation = meta.stagnation
           /\ meta'.batchEnds = meta.batchEnds
           /\ Slice(ledger, 1, meta.completed) = ledger
           /\ \E n \in 1 .. BatchSize :
                /\ meta'.pending = Batch(meta.generator, n, ledger).points
                /\ meta'.generator = Batch(meta.generator, n, ledger).generator
<1>1. RecordInv /\ pc = "recording" /\ meta' = Metadata(points) /\ ledger' = ledger
  BY DEF IInv, ProcessInv, RecordInstall
<1>2. /\ trials = ledger /\ points # <<>>
      /\ meta = [Metadata(<<>>) EXCEPT !.generator = meta.generator]
      /\ \E n \in 1 .. BatchSize :
           /\ points = Batch(meta.generator, n, trials).points
           /\ gen = Batch(meta.generator, n, trials).generator
  BY <1>1 DEF RecordInv
<1>3. /\ meta.completed = Len(ledger) /\ meta.pending = <<>> /\ meta.stagnation = stagnation
      /\ meta'.completed = Len(ledger) /\ meta'.pending = points
      /\ meta'.stagnation = stagnation /\ meta'.generator = gen
      /\ meta.batchEnds = batchEnds /\ meta'.batchEnds = batchEnds
  BY <1>1, <1>2 DEF Metadata
<1>4. Slice(ledger, 1, Len(ledger)) = ledger
  BY SequenceTypes, SubSeqFull DEF IInv, Slice, AtMost
<1> QED
  BY <1>1, <1>2, <1>3, <1>4

\* Committing completes the recorded batch with the trials the ledger holds.
LEMMA CommitStep ==
    ASSUME IInv, CommitInstall
    PROVE  LET evaluated == SubSeq(ledger, meta.completed + 1, Len(ledger))
           IN  /\ ledger' = ledger
               /\ meta.pending # <<>> /\ meta'.pending = <<>>
               /\ meta'.completed = meta.completed + Len(meta.pending)
               /\ meta'.completed = Len(ledger)
               /\ meta'.generator = Observe(meta.generator, Grew(evaluated))
               /\ meta'.stagnation = Stagnation(meta.stagnation, evaluated)
               /\ meta'.batchEnds = Append(meta.batchEnds, Len(ledger))
               /\ evaluated \in Seq(Trial) /\ Len(evaluated) = Len(meta.pending)
               /\ \A i \in 1 .. Len(meta.pending) :
                    /\ evaluated[i] = ledger[meta.completed + i]
                    /\ evaluated[i].key = meta.pending[i]
<1> DEFINE evaluated == SubSeq(ledger, meta.completed + 1, Len(ledger))
<1>1. CommitInv /\ pc = "committing" /\ meta' = Metadata(<<>>) /\ ledger' = ledger
  BY DEF IInv, ProcessInv, CommitInstall
<1>2. Completes /\ trials = ledger
  BY <1>1 DEF CommitInv
<1>3. /\ meta.pending # <<>> /\ Len(ledger) = meta.completed + Len(meta.pending)
      /\ \A i \in DOMAIN meta.pending : ledger[meta.completed + i].key = meta.pending[i]
      /\ gen = Observe(meta.generator, Grew(evaluated))
      /\ stagnation = Stagnation(meta.stagnation, evaluated)
      /\ batchEnds = Append(meta.batchEnds, Len(ledger))
  BY <1>2 DEF Completes
<1>4. /\ meta'.completed = Len(ledger) /\ meta'.pending = <<>>
      /\ meta'.generator = gen /\ meta'.stagnation = stagnation
      /\ meta'.batchEnds = batchEnds
  BY <1>1, <1>2 DEF Metadata
<1>5. /\ meta.completed \in 0 .. Len(ledger) /\ meta.completed \in Nat
      /\ Len(meta.pending) \in Nat /\ ledger \in Seq(Trial)
      /\ DOMAIN meta.pending = 1 .. Len(meta.pending)
      /\ Len(ledger) - meta.completed = Len(meta.pending)
  <2>1. /\ meta.completed \in Nat /\ Len(meta.pending) \in Nat /\ ledger \in Seq(Trial)
        /\ DOMAIN meta.pending = 1 .. Len(meta.pending)
    BY SequenceTypes, SearchTypes DEF IInv
  <2>2. Len(ledger) = meta.completed + Len(meta.pending)
    BY <1>3
  <2> QED
    BY <2>1, <2>2
<1>6. /\ evaluated \in Seq(Trial)
      /\ Len(evaluated) = Len(ledger) - meta.completed
      /\ \A i \in 1 .. Len(ledger) - meta.completed :
           evaluated[i] = ledger[meta.completed + i]
  BY <1>5, SliceFrom
<1> HIDE DEF evaluated
<1>7. \A i \in 1 .. Len(meta.pending) :
        evaluated[i] = ledger[meta.completed + i] /\ evaluated[i].key = meta.pending[i]
  BY <1>3, <1>5, <1>6
<1> QED
  BY <1>1, <1>3, <1>4, <1>5, <1>6, <1>7 DEF evaluated

-----------------------------------------------------------------------------
(* The theorems.                                                           *)

(***************************************************************************)
(* Type correctness: in particular the records of the ledger, of run.json  *)
(* and of the process stay sequences of trials and of domain points.       *)
(***************************************************************************)
THEOREM TypeCorrect ==
    ASSUME CandidateAssumption
    PROVE  Spec => []TypeOK
<1>1. IInv => TypeOK
  BY DEF IInv
<1> QED
  BY <1>1, Invariance, PTL

(***************************************************************************)
(* Whatever fails, the ledger covers what run.json calls completed, and    *)
(* what it holds beyond is a prefix of the batch recorded as pending       *)
(* (engine.py resumes from exactly this).                                  *)
(***************************************************************************)
THEOREM LedgerMatches ==
    ASSUME CandidateAssumption
    PROVE  Spec => []LedgerMatchesCheckpoint
<1>1. IInv => LedgerMatchesCheckpoint
  <2> SUFFICES ASSUME IInv PROVE LedgerMatchesCheckpoint
    OBVIOUS
  <2> DEFINE ahead == SubSeq(ledger, meta.completed + 1, Len(ledger))
  <2>1. LedgerInv
    BY DEF IInv, DiskInv
  <2>2. /\ ledger \in Seq(Trial) /\ meta.completed \in 0 .. Len(ledger)
        /\ Len(ledger) - meta.completed \in Nat
    BY <2>1, SequenceTypes, SearchTypes, SMTT(60) DEF IInv, LedgerInv
  <2>3. /\ ahead \in Seq(Trial) /\ Len(ahead) = Len(ledger) - meta.completed
        /\ \A i \in 1 .. Len(ledger) - meta.completed : ahead[i] = ledger[meta.completed + i]
    BY <2>2, SliceFrom
  <2> HIDE DEF ahead
  <2>4. DOMAIN ahead = 1 .. Len(ledger) - meta.completed
    BY <2>3, LenProperties
  <2>5. /\ Len(KeysOf(ahead)) = Len(ledger) - meta.completed
        /\ DOMAIN KeysOf(ahead) = 1 .. Len(ledger) - meta.completed
        /\ \A i \in 1 .. Len(ledger) - meta.completed :
             KeysOf(ahead)[i] = ledger[meta.completed + i].key
    BY <2>2, <2>3, <2>4 DEF KeysOf
  <2>6. IsPrefixOf(KeysOf(ahead), meta.pending)
    BY <2>1, <2>5 DEF LedgerInv, IsPrefixOf
  <2> QED
    BY <2>1, <2>6 DEF LedgerMatchesCheckpoint, LedgerInv, ahead
<1> QED
  BY <1>1, Invariance, PTL

(***************************************************************************)
(* No point is recorded twice and the ids count from zero, however often   *)
(* the run is interrupted, resumed and repaired.                           *)
(***************************************************************************)
THEOREM DistinctTrials ==
    ASSUME CandidateAssumption
    PROVE  Spec => []TrialsAreDistinct
<1>1. IInv => TrialsAreDistinct
  <2> SUFFICES ASSUME IInv PROVE TrialsAreDistinct
    OBVIOUS
  <2>1. LedgerInv /\ DistinctInv
    BY DEF IInv, DiskInv
  <2>2. /\ meta.completed \in Nat /\ Len(meta.pending) \in Nat /\ Len(ledger) \in Nat
        /\ DOMAIN ledger = 1 .. Len(ledger) /\ DOMAIN meta.pending = 1 .. Len(meta.pending)
    BY SequenceTypes, SearchTypes DEF IInv
  <2>3. ASSUME NEW i \in DOMAIN ledger, ~(i \in 1 .. meta.completed)
        PROVE  /\ i - meta.completed \in DOMAIN meta.pending
               /\ ledger[i].key = meta.pending[i - meta.completed]
    <3>1. /\ i - meta.completed \in 1 .. Len(ledger) - meta.completed
          /\ meta.completed + (i - meta.completed) = i
      BY <2>2, <2>3
    <3>2. Len(ledger) - meta.completed <= Len(meta.pending)
      BY <2>1 DEF LedgerInv
    <3>3. i - meta.completed \in DOMAIN meta.pending
      BY <2>2, <3>1, <3>2
    <3> QED
      BY <2>1, <3>1, <3>3 DEF LedgerInv
  <2>4. ASSUME NEW i \in DOMAIN ledger, NEW j \in 1 .. i - 1, ledger[j].key = ledger[i].key
        PROVE  FALSE
    <3>1. /\ j \in DOMAIN ledger /\ i \in Nat /\ j \in Nat /\ j < i
          /\ i - meta.completed # j - meta.completed
      BY <2>2
    <3>2. /\ \A m, n \in 1 .. meta.completed : ledger[m].key = ledger[n].key => m = n
          /\ \A m, n \in DOMAIN meta.pending : meta.pending[m] = meta.pending[n] => m = n
          /\ \A m \in 1 .. meta.completed, n \in DOMAIN meta.pending :
               ledger[m].key # meta.pending[n]
      BY <2>1 DEF DistinctInv
    <3> QED
      BY <2>3, <2>4, <3>1, <3>2
  <2>5. \A i \in DOMAIN ledger : ledger[i].id = i - 1
    BY <2>1 DEF DistinctInv
  <2> QED
    BY <2>4, <2>5 DEF TrialsAreDistinct
<1> QED
  BY <1>1, Invariance, PTL

(***************************************************************************)
(* A report never describes a trial that run.json does not call completed. *)
(***************************************************************************)
THEOREM ReportsAreCommitted ==
    ASSUME CandidateAssumption
    PROVE  Spec => []ReportIsCommitted
<1>1. IInv => ReportIsCommitted
  BY DEF IInv, DiskInv
<1> QED
  BY <1>1, Invariance, PTL

(***************************************************************************)
(* Completed trials are never taken back, reordered or rewritten.          *)
(***************************************************************************)
THEOREM CommittedTrialsAreFinal ==
    ASSUME CandidateAssumption
    PROVE  Spec => CommittedIsFinal
<1>1. ASSUME IInv, IInv', [Next]_vars
      PROVE  /\ meta.completed <= meta'.completed
             /\ Slice(ledger', 1, meta.completed) = Slice(ledger, 1, meta.completed)
  <2>1. meta.completed \in Nat /\ Len(meta.pending) \in Nat
    BY <1>1, SearchTypes DEF IInv
  <2>2. CASE CommittedKept
    BY <2>1, <2>2 DEF CommittedKept
  <2>3. CASE RecordInstall
    BY <1>1, <2>1, <2>3, RecordStep
  <2>4. CASE CommitInstall
    <3>1. meta'.completed = meta.completed + Len(meta.pending) /\ ledger' = ledger
      BY <1>1, <2>4, CommitStep
    <3> QED
      BY <2>1, <3>1
  <2> QED
    BY <1>1, <2>2, <2>3, <2>4, CommittedStep
<1> QED
  BY <1>1, Invariance, PTL DEF Spec, CommittedIsFinal

(***************************************************************************)
(* A pending batch is only ever replaced by its own completion, point for  *)
(* point: no resume, with whatever budget, drops or reorders one.          *)
(***************************************************************************)
THEOREM PendingBatchesAreFinished ==
    ASSUME CandidateAssumption
    PROVE  Spec => PendingIsFinished
<1>1. ASSUME IInv, IInv', [Next]_vars, meta.pending # <<>>, meta' # meta
      PROVE  /\ meta'.completed = meta.completed + Len(meta.pending)
             /\ KeysOf(Slice(ledger', meta.completed + 1, meta'.completed)) = meta.pending
  <2> DEFINE evaluated == SubSeq(ledger, meta.completed + 1, Len(ledger))
  <2>1. CommitInstall
    BY <1>1, CommittedStep, RecordStep DEF CommittedKept
  <2>2. /\ ledger' = ledger
        /\ meta'.completed = meta.completed + Len(meta.pending)
        /\ meta'.completed = Len(ledger)
        /\ evaluated \in Seq(Trial) /\ Len(evaluated) = Len(meta.pending)
        /\ \A i \in 1 .. Len(meta.pending) : evaluated[i].key = meta.pending[i]
    BY <1>1, <2>1, CommitStep
  <2>3. Slice(ledger', meta.completed + 1, meta'.completed) = evaluated
    <3>1. Len(ledger) \in Nat
      BY <1>1, SequenceTypes DEF IInv
    <3> QED
      BY <2>2, <3>1 DEF Slice, AtMost
  <2> HIDE DEF evaluated
  <2>4. meta.pending \in [1 .. Len(meta.pending) -> Keys]
    BY <1>1, SearchTypes, LenProperties DEF IInv
  <2>5. DOMAIN evaluated = 1 .. Len(meta.pending)
    BY <2>2, LenProperties
  <2>6. KeysOf(evaluated) = meta.pending
    BY <2>2, <2>4, <2>5 DEF KeysOf
  <2> QED
    BY <2>2, <2>3, <2>6
<1> QED
  BY <1>1, Invariance, PTL DEF Spec, PendingIsFinished

-----------------------------------------------------------------------------
(* Refinement.                                                             *)

\* A new run maps to a new search.
LEMMA InitRefines ==
    ASSUME Init
    PROVE  Uninterrupted!SearchInit
<1>1. ledger = <<>> /\ meta = NewMetadata
  BY DEF Init
<1>2. /\ meta.completed = 0 /\ meta.generator = NewGenerator
      /\ meta.stagnation = 0 /\ meta.pending = <<>>
  BY <1>1 DEF NewMetadata
<1>3. Slice(ledger, 1, meta.completed) = <<>>
  BY <1>1, <1>2 DEF Slice, AtMost
<1> QED
  BY <1>2, <1>3 DEF Uninterrupted!SearchInit

\* Recording a pending batch maps to the offer of that batch.
LEMMA RecordRefines ==
    ASSUME IInv, RecordInstall
    PROVE  Uninterrupted!Offer
<1>1. /\ ledger' = ledger
      /\ meta.pending = <<>> /\ meta'.pending # <<>>
      /\ meta.completed = Len(ledger) /\ meta'.completed = Len(ledger)
      /\ meta'.stagnation = meta.stagnation
      /\ Slice(ledger, 1, meta.completed) = ledger
  BY RecordStep
<1>2. PICK n \in 1 .. BatchSize :
        /\ meta'.pending = Batch(meta.generator, n, ledger).points
        /\ meta'.generator = Batch(meta.generator, n, ledger).generator
  BY RecordStep
<1>3. Slice(ledger', 1, meta'.completed) = Slice(ledger, 1, meta.completed)
  BY <1>1
<1> QED
  BY <1>1, <1>2, <1>3 DEF Uninterrupted!Offer

\* Committing it maps to its completion, by the trials the ledger holds.
LEMMA CommitRefines ==
    ASSUME IInv, IInv', CommitInstall
    PROVE  Uninterrupted!Complete
<1> DEFINE evaluated == SubSeq(ledger, meta.completed + 1, Len(ledger))
           history == Slice(ledger, 1, meta.completed)
           gains == [i \in DOMAIN meta.pending |-> evaluated[i].gain]
<1>1. /\ ledger' = ledger
      /\ meta.pending # <<>> /\ meta'.pending = <<>>
      /\ meta'.completed = meta.completed + Len(meta.pending)
      /\ meta'.completed = Len(ledger)
      /\ meta'.generator = Observe(meta.generator, Grew(evaluated))
      /\ meta'.stagnation = Stagnation(meta.stagnation, evaluated)
      /\ evaluated \in Seq(Trial) /\ Len(evaluated) = Len(meta.pending)
  BY CommitStep
<1>2. \A i \in 1 .. Len(meta.pending) :
        evaluated[i] = ledger[meta.completed + i] /\ evaluated[i].key = meta.pending[i]
  BY CommitStep
<1>3. /\ ledger \in Seq(Trial) /\ Len(ledger) \in Nat /\ meta.completed \in Nat
      /\ Len(meta.pending) \in Nat /\ DOMAIN meta.pending = 1 .. Len(meta.pending)
      /\ \A i \in DOMAIN ledger : ledger[i].id = i - 1
  BY SequenceTypes, SearchTypes DEF IInv, DiskInv, DistinctInv
<1>4. meta.completed \in 0 .. Len(ledger)
  BY <1>1, <1>3
<1>5. Len(history) = meta.completed /\ history = SubSeq(ledger, 1, meta.completed)
  BY <1>3, <1>4, SliceTo DEF Slice, AtMost
<1> HIDE DEF evaluated, history
<1>6. DOMAIN evaluated = DOMAIN meta.pending /\ evaluated \in [DOMAIN meta.pending -> Trial]
  BY <1>1, <1>3, LenProperties
<1>7. gains \in [DOMAIN meta.pending -> BOOLEAN]
  BY <1>6 DEF Trial
<1>8. NewTrials(Len(history), meta.pending, gains) = evaluated
  <2>1. ASSUME NEW i \in DOMAIN meta.pending
        PROVE  evaluated[i] = [id |-> Len(history) + i - 1, key |-> meta.pending[i],
                               gain |-> gains[i]]
    <3>1. evaluated[i] \in Trial /\ evaluated[i].key = meta.pending[i]
      BY <1>2, <1>3, <1>6
    <3>2. evaluated[i].id = Len(history) + i - 1
      <4>1. meta.completed + i \in DOMAIN ledger
        <5>1. meta.completed + i \in 1 .. Len(ledger)
          BY <1>1, <1>3
        <5> QED
          BY <1>3, <5>1
      <4> QED
        BY <1>2, <1>3, <1>5, <4>1
    <3> QED
      BY <3>1, <3>2 DEF Trial
  <2> QED
    BY <1>6, <2>1 DEF NewTrials
<1>9. Slice(ledger', 1, meta'.completed) = history \o evaluated
  <2>1. Slice(ledger, 1, Len(ledger)) = ledger
    BY <1>3, SubSeqFull DEF Slice, AtMost
  <2>2. SubSeq(ledger, 1, Len(ledger)) = history \o evaluated
    <3>1. /\ 1 \in 1 .. Len(ledger) + 1
          /\ meta.completed \in 1 - 1 .. Len(ledger)
          /\ Len(ledger) \in meta.completed .. Len(ledger)
      BY <1>3, <1>4
    <3>2. SubSeq(ledger, 1, meta.completed) \o SubSeq(ledger, meta.completed + 1, Len(ledger))
            = SubSeq(ledger, 1, Len(ledger))
      BY <1>3, <3>1, ConcatAdjacentSubSeq
    <3> QED
      BY <1>5, <3>2 DEF evaluated
  <2> QED
    BY <1>1, <1>3, <2>1, <2>2, SubSeqFull
<1> HIDE DEF gains
<1> QED
  BY <1>1, <1>7, <1>8, <1>9 DEF Uninterrupted!Complete, history

(***************************************************************************)
(* The committed run is one an uninterrupted search could have made: every *)
(* step of the program, whatever fails, maps to an offer of the next batch,*)
(* to the completion of the batch on offer, or to no step at all.          *)
(***************************************************************************)
THEOREM RefinesSearch ==
    ASSUME CandidateAssumption
    PROVE  Spec => ImplementsSearch
<1>1. Init => Uninterrupted!SearchInit
  BY InitRefines
<1>2. ASSUME IInv, IInv', [Next]_vars
      PROVE  [Uninterrupted!SearchNext]_Uninterrupted!searchVars
  <2>1. CASE CommittedKept
    BY <2>1 DEF CommittedKept, Uninterrupted!searchVars
  <2>2. CASE RecordInstall
    BY <1>2, <2>2, RecordRefines DEF Uninterrupted!SearchNext
  <2>3. CASE CommitInstall
    BY <1>2, <2>3, CommitRefines DEF Uninterrupted!SearchNext
  <2> QED
    BY <1>2, <2>1, <2>2, <2>3, CommittedStep
<1> QED
  BY <1>1, <1>2, Invariance, PTL DEF Spec, ImplementsSearch, Uninterrupted!SearchSpec
-----------------------------------------------------------------------------
(***************************************************************************)
(* What the committed run is worth to a resume: that it can be replayed,   *)
(* that its stagnation counter counts, and that an evaluated batch can be  *)
(* committed.                                                              *)
(*                                                                         *)
(* The invariant is about the committed history and run.json alone.  Most  *)
(* steps of the program leave both as they are; a batch that is recorded   *)
(* and a batch that is committed are what is left to prove.                *)
(***************************************************************************)

\* The trials run.json calls completed, and the keys it records as pending.
History == Slice(ledger, 1, meta.completed)

Pending == {meta.pending[i] : i \in DOMAIN meta.pending}

\* Every point of the domain has been proposed.
Exhausted == \A k \in Keys : k \in Seen(History) \cup Pending

\* The walk over the domain has left no point behind.
CursorInv ==
    \A c \in 1 .. meta.generator.cursor : Enumeration[c] \in Seen(History) \cup Pending

\* The batch ends recorded are positions in the history, the last one its end.
EndsInv ==
    /\ BoundariesAccepted
    /\ \A i \in DOMAIN meta.batchEnds : meta.batchEnds[i] <= meta.completed

\* Replaying the history gives back what run.json records.
Reproduces ==
    LET rebuilt  == Reconstruct(History, meta.batchEnds)
        replayed == Batch(rebuilt.generator, Len(meta.pending), History)
    IN  /\ rebuilt.reproduced = TRUE
        /\ rebuilt.stagnation = meta.stagnation
        /\ meta.pending = <<>> => rebuilt.generator = meta.generator
        /\ meta.pending # <<>> =>
             replayed.points = meta.pending /\ replayed.generator = meta.generator

ReplayInv == Enumeration # <<>> => Exhausted \/ Reproduces

RefusedInv ==
    refused \in Irreproducible => pc = "idle" /\ (Enumeration # <<>> => Exhausted)

CountInv ==
    LET since == meta.completed - LastGain(History)
    IN  meta.stagnation <= since /\ since < meta.stagnation + BatchSize

\* A batch is recorded as pending only when it fits.
RoomInv ==
    /\ Len(meta.pending) <= BatchSize
    /\ Nodes(meta) <= MaxNodes
    /\ pc = "recording" => Nodes(Metadata(points)) <= MaxNodes

ResumeInv == CursorInv /\ EndsInv /\ ReplayInv /\ RefusedInv /\ CountInv /\ RoomInv
-----------------------------------------------------------------------------
(* What replaying a history gives: the function Reconstruct defines by     *)
(* recursion exists, is unique, and goes on with the next batch.           *)

Fresh == [generator |-> NewGenerator, stagnation |-> 0, reproduced |-> TRUE]

\* f holds the search after each of the first m batches.
Unfolds(f, m, ts, ends) ==
    f = [i \in 0 .. m |-> IF i = 0 THEN Fresh ELSE ReplayBatch(f[i - 1], i, ts, ends)]

LEMMA UnfoldsIs ==
    ASSUME NEW f, NEW m \in Nat, NEW ts, NEW ends, Unfolds(f, m, ts, ends)
    PROVE  /\ f[0] = Fresh
           /\ \A i \in 1 .. m : f[i] = ReplayBatch(f[i - 1], i, ts, ends)
<1>1. f = [i \in 0 .. m |-> IF i = 0 THEN Fresh ELSE ReplayBatch(f[i - 1], i, ts, ends)]
  BY DEF Unfolds
<1>2. ASSUME NEW i \in 0 .. m
      PROVE  f[i] = IF i = 0 THEN Fresh ELSE ReplayBatch(f[i - 1], i, ts, ends)
  BY <1>1, Zenon
<1>3. f[0] = Fresh
  <2>1. 0 \in 0 .. m
    OBVIOUS
  <2> QED
    BY <1>2, <2>1, Zenon
<1>4. ASSUME NEW i \in 1 .. m
      PROVE  f[i] = ReplayBatch(f[i - 1], i, ts, ends)
  <2>1. i \in 0 .. m /\ i # 0
    OBVIOUS
  <2> QED
    BY <1>2, <2>1, Zenon
<1> QED
  BY <1>3, <1>4

\* One batch more.
LEMMA UnfoldsOn ==
    ASSUME NEW f, NEW m \in Nat, NEW ts, NEW ends, Unfolds(f, m, ts, ends)
    PROVE  \E g : Unfolds(g, m + 1, ts, ends)
<1> DEFINE last == ReplayBatch(f[m], m + 1, ts, ends)
           g == [i \in 0 .. m + 1 |-> IF i = m + 1 THEN last ELSE f[i]]
<1>1. f[0] = Fresh /\ \A i \in 1 .. m : f[i] = ReplayBatch(f[i - 1], i, ts, ends)
  BY UnfoldsIs
<1>2. \A i \in 0 .. m : g[i] = f[i]
  OBVIOUS
<1>3. g[m + 1] = last
  OBVIOUS
<1>4. ASSUME NEW i \in 0 .. m + 1
      PROVE  g[i] = IF i = 0 THEN Fresh ELSE ReplayBatch(g[i - 1], i, ts, ends)
  <2> HIDE DEF g, last
  <2>1. CASE i = 0
    <3>1. 0 \in 0 .. m
      OBVIOUS
    <3> QED
      BY <1>1, <1>2, <2>1, <3>1, Zenon
  <2>2. CASE i \in 1 .. m
    <3>1. i \in 0 .. m /\ i - 1 \in 0 .. m /\ i # 0
      BY <2>2
    <3>2. g[i] = ReplayBatch(f[i - 1], i, ts, ends)
      BY <1>1, <1>2, <2>2, <3>1, Zenon
    <3> QED
      BY <1>2, <3>1, <3>2, Zenon
  <2>3. CASE i = m + 1
    <3>1. i - 1 = m /\ m \in 0 .. m /\ i # 0
      BY <2>3
    <3>2. g[i] = ReplayBatch(f[i - 1], i, ts, ends)
      BY <1>3, <2>3, <3>1, Zenon DEF last
    <3> QED
      BY <1>2, <3>1, <3>2, Zenon
  <2> QED
    BY <2>1, <2>2, <2>3
<1>5. g = [i \in 0 .. m + 1 |->
             IF i = 0 THEN Fresh ELSE ReplayBatch(g[i - 1], i, ts, ends)]
  <2>1. g = [i \in 0 .. m + 1 |-> g[i]]
    OBVIOUS
  <2> HIDE DEF g
  <2> DEFINE h == [i \in 0 .. m + 1 |->
                     IF i = 0 THEN Fresh ELSE ReplayBatch(g[i - 1], i, ts, ends)]
  <2>2. [i \in 0 .. m + 1 |-> g[i]] = h
    BY <1>4, Zenon
  <2> QED
    BY <2>1, <2>2, Zenon
<1> QED
  BY <1>5, Zenon DEF Unfolds

\* It unfolds to any number of batches: there is no least one it fails at.
LEMMA UnfoldsTo ==
    ASSUME NEW n \in Nat, NEW ts, NEW ends
    PROVE  \E f : Unfolds(f, n, ts, ends)
<1> DEFINE Good(m) == \E f : Unfolds(f, m, ts, ends)
           failed == {m \in 1 .. n : ~Good(m)}
<1>1. Good(0)
  <2> DEFINE f == [i \in 0 .. 0 |-> Fresh]
  <2>1. f = [i \in 0 .. 0 |->
               IF i = 0 THEN Fresh ELSE ReplayBatch(f[i - 1], i, ts, ends)]
    <3>1. \A i \in 0 .. 0 : i = 0
      OBVIOUS
    <3> QED
      BY <3>1, Zenon
  <2> QED
    BY <2>1, Zenon DEF Unfolds
<1>2. ASSUME NEW m \in Nat, Good(m) PROVE Good(m + 1)
  BY <1>2, UnfoldsOn
<1> HIDE DEF Good
<1>3. failed = {}
  <2> SUFFICES ASSUME failed # {} PROVE FALSE
    OBVIOUS
  <2>1. PICK m \in failed : \A k \in failed : m <= k
    BY Extremes
  <2>2. m - 1 \in Nat /\ (m - 1 = 0 \/ m - 1 \in 1 .. n) /\ m - 1 + 1 = m
    BY <2>1
  <2>3. Good(m - 1)
    BY <1>1, <2>1, <2>2
  <2>4. Good(m - 1 + 1)
    BY <1>2, <2>2, <2>3
  <2> QED
    BY <2>1, <2>2, <2>4
<1>4. n = 0 \/ n \in 1 .. n
  OBVIOUS
<1>5. Good(n)
  BY <1>1, <1>3, <1>4
<1> QED
  BY <1>5 DEF Good

LEMMA ReconstructIs ==
    ASSUME NEW ts, NEW ends \in Seq(Nat)
    PROVE  \E f : /\ Unfolds(f, Len(ends), ts, ends)
                  /\ Reconstruct(ts, ends) = f[Len(ends)]
<1> DEFINE f == CHOOSE f : f = [i \in 0 .. Len(ends) |->
                  IF i = 0 THEN Fresh ELSE ReplayBatch(f[i - 1], i, ts, ends)]
<1>1. Reconstruct(ts, ends) = f[Len(ends)]
  BY Zenon DEF Reconstruct, Fresh
<1>2. \E h : h = [i \in 0 .. Len(ends) |->
                 IF i = 0 THEN Fresh ELSE ReplayBatch(h[i - 1], i, ts, ends)]
  <2>1. Len(ends) \in Nat
    OBVIOUS
  <2>2. \E h : Unfolds(h, Len(ends), ts, ends)
    BY <2>1, UnfoldsTo
  <2> QED
    BY <2>2, Zenon DEF Unfolds
<1>3. Unfolds(f, Len(ends), ts, ends)
  BY <1>2, Zenon DEF Unfolds
<1> QED
  BY <1>1, <1>3, Zenon
\* The later history ts2 continues ts: it holds the same first records.
Continues(ts2, ts) ==
    /\ ts \in Seq(Trial) /\ ts2 \in Seq(Trial)
    /\ Len(ts) <= Len(ts2)
    /\ \A i \in 1 .. Len(ts) : ts2[i] = ts[i]

\* A slice of the records both hold is the same slice.
LEMMA SliceContinues ==
    ASSUME NEW ts, NEW ts2, Continues(ts2, ts),
           NEW first \in Nat \ {0}, NEW last \in 0 .. Len(ts)
    PROVE  Slice(ts2, first, last) = Slice(ts, first, last)
<1>1. /\ Len(ts) \in Nat /\ Len(ts2) \in Nat /\ last \in Nat
      /\ last <= Len(ts) /\ last <= Len(ts2)
  BY DEF Continues
<1>2. Slice(ts2, first, last) = SubSeq(ts2, first, last)
  BY <1>1 DEF Slice, AtMost
<1>3. Slice(ts, first, last) = SubSeq(ts, first, last)
  BY <1>1 DEF Slice, AtMost
<1>4. \A i \in first .. last : ts2[i] = ts[i]
  BY <1>1 DEF Continues
<1>5. SubSeq(ts2, first, last) = SubSeq(ts, first, last)
  <2>1. ts \in Seq(Trial) /\ ts2 \in Seq(Trial)
    BY DEF Continues
  <2> QED
    BY <1>1, <1>4, <2>1
<1> QED
  BY <1>2, <1>3, <1>5

LEMMA ReplayBatchIs ==
    ASSUME NEW before, NEW i, NEW ts, NEW ends
    PROVE  ReplayBatch(before, i, ts, ends) = AfterBatch(before, i, ts, ends)
<1> DEFINE After(x) == AfterBatch(x, i, ts, ends)
<1> HIDE DEF After
<1>1. {After(x) : x \in {before}} = {After(before)}
  BY Zenon
<1>2. The({After(x) : x \in {before}}) = After(before)
  BY <1>1, TheSingleton, Zenon
<1> QED
  BY <1>2, Zenon DEF ReplayBatch, After

\* Replaying a batch reads nothing beyond the end of the batch.
LEMMA ReplayContinues ==
    ASSUME NEW ts, NEW ts2, Continues(ts2, ts),
           NEW ends \in Seq(Nat \ {0}), NEW ends2 \in Seq(Nat \ {0}),
           NEW i \in 1 .. Len(ends), NEW before,
           \A k \in 1 .. Len(ends) : ends2[k] = ends[k] /\ ends[k] <= Len(ts)
    PROVE  ReplayBatch(before, i, ts2, ends2) = ReplayBatch(before, i, ts, ends)
<1> DEFINE cursor == IF i = 1 THEN 0 ELSE ends[i - 1]
<1>1. cursor = IF i = 1 THEN 0 ELSE ends2[i - 1]
  BY SMT
<1>2. Len(ts) \in Nat
  BY DEF Continues
<1>3. ends2[i] = ends[i] /\ ends[i] \in 0 .. Len(ts)
  BY <1>2
<1>4. cursor \in 0 .. Len(ts)
  BY <1>2, SMT
<1>5. cursor + 1 \in Nat \ {0} /\ 1 \in Nat \ {0}
  BY <1>4
<1> HIDE DEF cursor
<1>6. /\ Slice(ts2, cursor + 1, ends[i]) = Slice(ts, cursor + 1, ends[i])
      /\ Slice(ts2, 1, cursor) = Slice(ts, 1, cursor)
  BY <1>3, <1>4, <1>5, SliceContinues
<1> DEFINE Replayed(actual, done, n) ==
             LET replay == Batch(before.generator, n, done)
             IN  [generator  |-> Observe(replay.generator, Grew(actual)),
                  stagnation |-> Stagnation(before.stagnation, actual),
                  reproduced |-> before.reproduced /\ replay.points = KeysOf(actual)]
<1>7. ReplayBatch(before, i, ts, ends) =
        Replayed(Slice(ts, cursor + 1, ends[i]), Slice(ts, 1, cursor), ends[i] - cursor)
  BY ReplayBatchIs, Zenon DEF AfterBatch, cursor
<1>8. ReplayBatch(before, i, ts2, ends2) =
        Replayed(Slice(ts2, cursor + 1, ends2[i]), Slice(ts2, 1, cursor), ends2[i] - cursor)
  BY <1>1, ReplayBatchIs, Zenon DEF AfterBatch
<1> HIDE DEF Replayed
<1> QED
  BY <1>3, <1>6, <1>7, <1>8

\* Replaying a batch, with the position it starts behind given.
LEMMA ReplayIs ==
    ASSUME NEW before, NEW i, NEW ts, NEW ends, NEW cursor,
           i = 1 => cursor = 0, i # 1 => cursor = ends[i - 1]
    PROVE  LET actual == Slice(ts, cursor + 1, ends[i])
               replay == Batch(before.generator, ends[i] - cursor, Slice(ts, 1, cursor))
           IN  ReplayBatch(before, i, ts, ends) =
                 [generator  |-> Observe(replay.generator, Grew(actual)),
                  stagnation |-> Stagnation(before.stagnation, actual),
                  reproduced |-> before.reproduced /\ replay.points = KeysOf(actual)]
<1>1. cursor = IF i = 1 THEN 0 ELSE ends[i - 1]
  OBVIOUS
<1> QED
  BY <1>1, ReplayBatchIs, Zenon DEF AfterBatch

\* So the searches after each batch are those of the shorter history.
LEMMA UnfoldsAgree ==
    ASSUME NEW ts, NEW ts2, Continues(ts2, ts),
           NEW ends \in Seq(Nat \ {0}), NEW ends2 \in Seq(Nat \ {0}),
           \A k \in 1 .. Len(ends) : ends2[k] = ends[k] /\ ends[k] <= Len(ts),
           NEW f, Unfolds(f, Len(ends), ts, ends),
           NEW g, NEW n \in Nat, Unfolds(g, n, ts2, ends2), Len(ends) <= n
    PROVE  f[Len(ends)] = g[Len(ends)]
<1> DEFINE m == Len(ends)
           failed == {i \in 1 .. m : f[i] # g[i]}
<1>1. m \in Nat
  OBVIOUS
<1>2. f[0] = g[0]
  BY <1>1, UnfoldsIs
<1>3. ASSUME NEW i \in 1 .. m, f[i - 1] = g[i - 1]
      PROVE  f[i] = g[i]
  <2>1. f[i] = ReplayBatch(f[i - 1], i, ts, ends)
    BY <1>1, UnfoldsIs
  <2>2. i \in 1 .. n
    BY <1>1
  <2>3. g[i] = ReplayBatch(g[i - 1], i, ts2, ends2)
    BY <2>2, UnfoldsIs
  <2>4. ReplayBatch(f[i - 1], i, ts2, ends2) = ReplayBatch(f[i - 1], i, ts, ends)
    BY ReplayContinues
  <2> QED
    BY <1>3, <2>1, <2>3, <2>4
<1> HIDE DEF m
<1>4. failed = {}
  <2> SUFFICES ASSUME failed # {} PROVE FALSE
    OBVIOUS
  <2>1. PICK i \in failed : \A k \in failed : i <= k
    BY <1>1, Extremes
  <2>2. i \in 1 .. m /\ (i - 1 = 0 \/ i - 1 \in 1 .. m) /\ ~(i <= i - 1)
    BY <1>1, <2>1
  <2>3. f[i - 1] = g[i - 1]
    BY <1>2, <2>1, <2>2
  <2> QED
    BY <1>3, <2>1, <2>2, <2>3
<1>5. m = 0 \/ m \in 1 .. m
  BY <1>1
<1> QED
  BY <1>2, <1>4, <1>5 DEF m

(***************************************************************************)
(* Replaying a history and one batch more is replaying the history and     *)
(* then the batch.                                                         *)
(***************************************************************************)
LEMMA ReconstructAppend ==
    ASSUME NEW ts, NEW ts2, Continues(ts2, ts),
           NEW ends \in Seq(Nat \ {0}), NEW e \in Nat \ {0},
           \A k \in 1 .. Len(ends) : ends[k] <= Len(ts)
    PROVE  Reconstruct(ts2, Append(ends, e)) =
             ReplayBatch(Reconstruct(ts, ends), Len(ends) + 1, ts2, Append(ends, e))
<1> DEFINE ends2 == Append(ends, e)
           m == Len(ends)
<1>1. /\ ends2 \in Seq(Nat \ {0}) /\ Len(ends2) = m + 1 /\ m \in Nat
      /\ \A k \in 1 .. m : ends2[k] = ends[k]
  OBVIOUS
<1>2. ends \in Seq(Nat) /\ ends2 \in Seq(Nat)
  OBVIOUS
<1> HIDE DEF ends2
<1>3. PICK f : Unfolds(f, m, ts, ends) /\ Reconstruct(ts, ends) = f[m]
  BY <1>2, ReconstructIs
<1>4. PICK g : Unfolds(g, m + 1, ts2, ends2) /\ Reconstruct(ts2, ends2) = g[m + 1]
  BY <1>1, <1>2, ReconstructIs, Zenon
<1>5. m + 1 \in Nat /\ m <= m + 1 /\ m + 1 \in 1 .. m + 1 /\ m + 1 - 1 = m
  BY <1>1
<1>6. f[m] = g[m]
  BY <1>1, <1>3, <1>4, <1>5, UnfoldsAgree
<1>7. g[m + 1] = ReplayBatch(g[m], m + 1, ts2, ends2)
  BY <1>4, <1>5, UnfoldsIs
<1> QED
  BY <1>3, <1>4, <1>6, <1>7 DEF ends2
-----------------------------------------------------------------------------
(* The stagnation counter.                                                 *)

\* LastGain is the position of the last trial that changed the frontier.
LEMMA LastGainIs ==
    ASSUME NEW ts \in Seq(Trial)
    PROVE  /\ LastGain(ts) \in 0 .. Len(ts)
           /\ LastGain(ts) # 0 => ts[LastGain(ts)].gain
           /\ \A i \in 1 .. Len(ts) : ts[i].gain => i <= LastGain(ts)
<1>1. Len(ts) \in Nat /\ DOMAIN ts = 1 .. Len(ts)
  OBVIOUS
<1> DEFINE at == {i \in DOMAIN ts : ts[i].gain}
<1>a. /\ at \in SUBSET (1 .. Len(ts))
      /\ \A i \in at : ts[i].gain
      /\ \A i \in 1 .. Len(ts) : ts[i].gain => i \in at
  BY <1>1, Zenon
<1>2. CASE at = {}
  <2>1. LastGain(ts) = 0
    BY <1>2 DEF LastGain
  <2> HIDE DEF at
  <2>2. 0 \in 0 .. Len(ts)
    BY <1>1
  <2> QED
    BY <1>2, <1>a, <2>1, <2>2, Zenon
<1>3. CASE at # {}
  <2>4. LastGain(ts) = CHOOSE i \in at : \A j \in at : j <= i
    BY <1>3, Zenon DEF LastGain
  <2> HIDE DEF at
  <2>5. \E i \in at : \A j \in at : j <= i
    BY <1>1, <1>3, <1>a, Extremes
  <2>6. LastGain(ts) \in at /\ \A j \in at : j <= LastGain(ts)
    BY <2>4, <2>5
  <2>7. LastGain(ts) \in 0 .. Len(ts)
    <3>1. LastGain(ts) \in 1 .. Len(ts)
      BY <1>a, <2>6, Zenon
    <3> QED
      BY <1>1, <3>1
  <2> QED
    BY <1>a, <2>6, <2>7, Zenon
<1> QED
  BY <1>2, <1>3

\* A history that goes on with a batch: the batch decides when it grew.
LEMMA LastGainContinues ==
    ASSUME NEW ts, NEW ts2, Continues(ts2, ts), NEW more \in Seq(Trial),
           Len(ts2) = Len(ts) + Len(more),
           \A i \in 1 .. Len(more) : more[i] = ts2[Len(ts) + i]
    PROVE  /\ Grew(more) => LastGain(ts2) > Len(ts)
           /\ ~Grew(more) => LastGain(ts2) = LastGain(ts)
<1>1. /\ ts \in Seq(Trial) /\ ts2 \in Seq(Trial)
      /\ Len(ts) \in Nat /\ Len(ts2) \in Nat /\ Len(more) \in Nat
      /\ DOMAIN more = 1 .. Len(more)
      /\ \A i \in 1 .. Len(ts) : ts2[i] = ts[i]
  BY DEF Continues
<1>2. /\ LastGain(ts) \in 0 .. Len(ts) /\ LastGain(ts2) \in 0 .. Len(ts2)
      /\ LastGain(ts) # 0 => ts[LastGain(ts)].gain
      /\ LastGain(ts2) # 0 => ts2[LastGain(ts2)].gain
      /\ \A i \in 1 .. Len(ts) : ts[i].gain => i <= LastGain(ts)
      /\ \A i \in 1 .. Len(ts2) : ts2[i].gain => i <= LastGain(ts2)
  BY <1>1, LastGainIs
<1>3. ASSUME Grew(more)
      PROVE  LastGain(ts2) > Len(ts)
  <2>1. PICK i \in 1 .. Len(more) : more[i].gain
    BY <1>1, <1>3 DEF Grew
  <2>2. Len(ts) + i \in 1 .. Len(ts2) /\ Len(ts) + i > Len(ts)
    BY <1>1
  <2>3. ts2[Len(ts) + i].gain
    BY <2>1
  <2>4. Len(ts) + i <= LastGain(ts2)
    BY <1>2, <2>2, <2>3
  <2> QED
    BY <1>1, <1>2, <2>2, <2>4
<1>4. ASSUME ~Grew(more)
      PROVE  LastGain(ts2) = LastGain(ts)
  <2>1. \A i \in 1 .. Len(more) : ~ts2[Len(ts) + i].gain
    BY <1>1, <1>4 DEF Grew
  <2>2. LastGain(ts2) \in 0 .. Len(ts)
    <3> SUFFICES ASSUME LastGain(ts2) > Len(ts) PROVE FALSE
      BY <1>1, <1>2
    <3>1. /\ LastGain(ts2) - Len(ts) \in 1 .. Len(more)
          /\ Len(ts) + (LastGain(ts2) - Len(ts)) = LastGain(ts2)
          /\ LastGain(ts2) # 0
      BY <1>1, <1>2
    <3> QED
      BY <1>2, <2>1, <3>1
  <2>3. LastGain(ts2) <= LastGain(ts)
    <3>1. CASE LastGain(ts2) = 0
      BY <1>2, <3>1
    <3>2. CASE LastGain(ts2) # 0
      <4>1. LastGain(ts2) \in 1 .. Len(ts)
        BY <1>1, <2>2, <3>2
      <4>2. ts[LastGain(ts2)].gain
        BY <1>1, <1>2, <3>2, <4>1
      <4> QED
        BY <1>2, <4>1, <4>2
    <3> QED
      BY <3>1, <3>2
  <2>4. LastGain(ts) <= LastGain(ts2)
    <3>1. CASE LastGain(ts) = 0
      BY <1>2, <3>1
    <3>2. CASE LastGain(ts) # 0
      <4>1. LastGain(ts) \in 1 .. Len(ts) /\ LastGain(ts) \in 1 .. Len(ts2)
        BY <1>1, <1>2, <3>2
      <4>2. ts2[LastGain(ts)].gain
        BY <1>1, <1>2, <3>2, <4>1
      <4> QED
        BY <1>2, <4>1, <4>2
    <3> QED
      BY <3>1, <3>2
  <2> QED
    BY <1>1, <1>2, <2>3, <2>4
<1> QED
  BY <1>3, <1>4
-----------------------------------------------------------------------------
(* The committed history, and what a step does to it.                      *)

\* The history is the completed part of the ledger.
LEMMA HistoryIs ==
    ASSUME IInv
    PROVE  /\ History \in Seq(Trial)
           /\ Len(History) = meta.completed
           /\ DOMAIN History = 1 .. meta.completed
           /\ \A i \in 1 .. meta.completed : History[i] = ledger[i]
<1>1. /\ ledger \in Seq(Trial) /\ Len(ledger) \in Nat /\ meta.completed \in Nat
      /\ meta.completed <= Len(ledger)
  BY SequenceTypes, SearchTypes DEF IInv, DiskInv, LedgerInv
<1>2. meta.completed \in 0 .. Len(ledger)
  BY <1>1
<1>3. /\ History \in Seq(Trial) /\ Len(History) = meta.completed
      /\ \A i \in 1 .. meta.completed : History[i] = ledger[i]
  BY <1>1, <1>2, SliceTo DEF History
<1>4. DOMAIN History = 1 .. Len(History)
  BY <1>3
<1> QED
  BY <1>3, <1>4

\* Recording a batch leaves the history as it is.
LEMMA RecordHistory ==
    ASSUME IInv, RecordInstall
    PROVE  /\ History' = History /\ History = ledger
           /\ Pending = {}
           /\ Pending' = {meta'.pending[i] : i \in DOMAIN meta'.pending}
<1>1. /\ ledger' = ledger /\ meta.pending = <<>>
      /\ meta.completed = Len(ledger) /\ meta'.completed = Len(ledger)
      /\ Slice(ledger, 1, meta.completed) = ledger
  BY RecordStep
<1>2. Pending = {}
  BY <1>1 DEF Pending
<1> QED
  BY <1>1, <1>2 DEF History, Pending

\* A commit makes the batch evaluated the last part of the history.
LEMMA CommitHistory ==
    ASSUME IInv, IInv', CommitInstall
    PROVE  LET evaluated == SubSeq(ledger, meta.completed + 1, Len(ledger))
           IN  /\ Continues(History', History)
               /\ History' = ledger
               /\ Len(History') = Len(History) + Len(evaluated)
               /\ \A i \in 1 .. Len(evaluated) : evaluated[i] = (History')[Len(History) + i]
               /\ Seen(History') = Seen(History) \cup Pending
               /\ Pending' = {}
<1> DEFINE evaluated == SubSeq(ledger, meta.completed + 1, Len(ledger))
           later == History'
<1>1. /\ ledger' = ledger /\ meta'.pending = <<>>
      /\ meta'.completed = meta.completed + Len(meta.pending)
      /\ meta'.completed = Len(ledger)
      /\ Len(evaluated) = Len(meta.pending)
      /\ \A i \in 1 .. Len(meta.pending) :
            evaluated[i] = ledger[meta.completed + i] /\ evaluated[i].key = meta.pending[i]
  BY CommitStep
<1>2. /\ ledger \in Seq(Trial) /\ Len(ledger) \in Nat /\ meta.completed \in Nat
      /\ Len(meta.pending) \in Nat /\ DOMAIN meta.pending = 1 .. Len(meta.pending)
      /\ DOMAIN ledger = 1 .. Len(ledger)
  BY SequenceTypes, SearchTypes DEF IInv
<1>3. /\ History \in Seq(Trial) /\ Len(History) = meta.completed
      /\ DOMAIN History = 1 .. meta.completed
      /\ \A i \in 1 .. meta.completed : History[i] = ledger[i]
  BY HistoryIs
<1>4. later = ledger
  <2>1. later = Slice(ledger, 1, Len(ledger))
    BY <1>1 DEF History
  <2>2. Slice(ledger, 1, Len(ledger)) = ledger
    BY <1>2, SubSeqFull DEF Slice, AtMost
  <2> QED
    BY <2>1, <2>2
<1>5. Pending' = {}
  BY <1>1 DEF Pending
<1> HIDE DEF evaluated, later
<1>6. Continues(ledger, History)
  BY <1>1, <1>2, <1>3 DEF Continues
<1>7. Seen(ledger) = Seen(History) \cup Pending
  <2>1. ASSUME NEW i \in DOMAIN ledger
        PROVE  ledger[i].key \in Seen(History) \cup Pending
    <3>1. CASE i <= meta.completed
      BY <1>2, <1>3, <3>1 DEF Seen
    <3>2. CASE ~(i <= meta.completed)
      <4>1. /\ i - meta.completed \in 1 .. Len(meta.pending)
            /\ meta.completed + (i - meta.completed) = i
        BY <1>1, <1>2, <3>2
      <4>2. ledger[i].key = meta.pending[i - meta.completed]
        BY <1>1, <4>1
      <4> QED
        BY <1>2, <4>1, <4>2 DEF Pending
    <3> QED
      BY <3>1, <3>2
  <2>2. ASSUME NEW i \in DOMAIN History
        PROVE  History[i].key \in Seen(ledger)
    <3>1. i \in DOMAIN ledger /\ History[i] = ledger[i]
      BY <1>1, <1>2, <1>3
    <3> QED
      BY <3>1 DEF Seen
  <2>3. ASSUME NEW i \in DOMAIN meta.pending
        PROVE  meta.pending[i] \in Seen(ledger)
    <3>1. meta.completed + i \in DOMAIN ledger
      BY <1>1, <1>2
    <3>2. ledger[meta.completed + i].key = meta.pending[i]
      BY <1>1, <1>2
    <3> QED
      BY <3>1, <3>2 DEF Seen
  <2>4. Seen(ledger) \subseteq Seen(History) \cup Pending
    BY <2>1, Zenon DEF Seen
  <2>5. Seen(History) \subseteq Seen(ledger)
    BY <2>2, Zenon DEF Seen
  <2>6. Pending \subseteq Seen(ledger)
    BY <2>3, Zenon DEF Pending
  <2> QED
    BY <2>4, <2>5, <2>6
<1>8. /\ Continues(later, History) /\ later = ledger
      /\ Len(later) = Len(History) + Len(evaluated)
      /\ \A i \in 1 .. Len(evaluated) : evaluated[i] = later[Len(History) + i]
      /\ Seen(later) = Seen(History) \cup Pending
  BY <1>1, <1>2, <1>3, <1>4, <1>6, <1>7
<1> QED
  BY <1>5, <1>8 DEF later, evaluated

\* What has been proposed stays so.
LEMMA ProposedStays ==
    ASSUME IInv, IInv', [Next]_vars
    PROVE  Seen(History) \cup Pending \subseteq (Seen(History) \cup Pending)'
<1>1. CASE CommittedKept
  BY <1>1 DEF CommittedKept, History, Pending
<1>2. CASE RecordInstall
  BY <1>2, RecordHistory
<1>3. CASE CommitInstall
  BY <1>3, CommitHistory
<1> QED
  BY <1>1, <1>2, <1>3, CommittedStep
-----------------------------------------------------------------------------
(* The two steps keep the invariant.                                       *)

\* The batch that is recorded: a short one leaves nothing to propose.
LEMMA RecordBatch ==
    ASSUME CandidateAssumption, IInv, RecordInstall
    PROVE  /\ meta'.pending \in Seq(Keys)
           /\ Len(meta'.pending) \in 1 .. BatchSize
           /\ \A c \in meta.generator.cursor + 1 .. meta'.generator.cursor :
                Enumeration[c] \in Seen(History) \cup Pending'
           /\ \/ meta'.generator.cursor = Len(Enumeration)
              \/ /\ meta'.pending = Batch(meta.generator, Len(meta'.pending), History).points
                 /\ meta'.generator =
                      Batch(meta.generator, Len(meta'.pending), History).generator
<1>1. PICK n \in 1 .. BatchSize :
        /\ meta'.pending = Batch(meta.generator, n, History).points
        /\ meta'.generator = Batch(meta.generator, n, History).generator
  BY RecordStep, RecordHistory
<1>2. n \in Nat \ {0} /\ n <= BatchSize /\ meta.generator \in Generator
  BY SearchTypes, CheckpointAssumption DEF IInv
<1> DEFINE proposal == Batch(meta.generator, n, History)
<1>3. NewPoints(proposal.points, n, History)
  BY <1>2, BatchIsNew
<1>4. /\ \A c \in meta.generator.cursor + 1 .. proposal.generator.cursor :
           \/ Enumeration[c] \in Seen(History)
           \/ \E i \in DOMAIN proposal.points : proposal.points[i] = Enumeration[c]
      /\ Len(proposal.points) < n => proposal.generator.cursor = Len(Enumeration)
  BY <1>2, BatchCovers
<1>5. proposal.points = meta'.pending /\ proposal.generator = meta'.generator
  BY <1>1
<1> HIDE DEF proposal
<1>6. /\ meta'.pending \in Seq(Keys) /\ Len(meta'.pending) <= n
      /\ Len(meta'.pending) \in Nat
  BY <1>3, <1>5 DEF NewPoints
<1>7. meta'.pending # <<>>
  BY RecordStep
<1>8. Len(meta'.pending) \in 1 .. BatchSize
  BY <1>2, <1>6, <1>7, CheckpointAssumption
<1>9. \A i \in DOMAIN meta'.pending : meta'.pending[i] \in Pending'
  BY DEF Pending
<1>10. \A c \in meta.generator.cursor + 1 .. meta'.generator.cursor :
         Enumeration[c] \in Seen(History) \cup Pending'
  BY <1>4, <1>5, <1>9
<1>11. Len(meta'.pending) = n \/ Len(meta'.pending) < n
  BY <1>2, <1>6
<1> QED
  BY <1>1, <1>4, <1>5, <1>6, <1>8, <1>10, <1>11

LEMMA CursorStep ==
    ASSUME CandidateAssumption, IInv, IInv', [Next]_vars, CursorInv
    PROVE  CursorInv'
<1>1. Seen(History) \cup Pending \subseteq (Seen(History) \cup Pending)'
  BY ProposedStays
<1>2. meta.generator.cursor \in Nat /\ meta'.generator.cursor \in Nat
  <2>1. meta.generator \in Generator /\ meta'.generator \in Generator
    <3>1. meta' \in Checkpoints
      BY DEF IInv, TypeOK
    <3> QED
      BY <3>1, SearchTypes DEF IInv, Checkpoints
  <2> QED
    BY <2>1, ProposalAssumption DEF Generator
<1>3. \A c \in 1 .. meta.generator.cursor : Enumeration[c] \in (Seen(History) \cup Pending)'
  BY <1>1 DEF CursorInv
<1>4. CASE meta'.generator.cursor = meta.generator.cursor
  BY <1>3, <1>4 DEF CursorInv
<1>5. CASE CommittedKept
  BY <1>4, <1>5 DEF CommittedKept
<1>6. CASE CommitInstall
  <2>1. meta.generator \in Generator
    BY SearchTypes DEF IInv
  <2>2. \A grew : Observe(meta.generator, grew).cursor = meta.generator.cursor
    BY <2>1 DEF Observe, Generator
  <2> QED
    BY <1>4, <1>6, <2>2, CommitStep
<1>7. CASE RecordInstall
  <2>1. \A c \in meta.generator.cursor + 1 .. meta'.generator.cursor :
          Enumeration[c] \in (Seen(History) \cup Pending)'
    BY <1>7, RecordBatch, RecordHistory
  <2>2. \A c \in 1 .. meta'.generator.cursor :
          c \in 1 .. meta.generator.cursor
          \/ c \in meta.generator.cursor + 1 .. meta'.generator.cursor
    BY <1>2
  <2> QED
    BY <1>3, <2>1, <2>2 DEF CursorInv
<1> QED
  BY <1>5, <1>6, <1>7, CommittedStep

\* Once the walk is at the end of the domain, the domain is exhausted.
LEMMA WalkedIsExhausted ==
    ASSUME IInv, CursorInv, Enumeration # <<>>, meta.generator.cursor = Len(Enumeration)
    PROVE  Exhausted
<1>1. DOMAIN Enumeration = 1 .. Len(Enumeration)
  BY ProposalAssumption
<1>2. \A k \in Keys : \E i \in 1 .. Len(Enumeration) : Enumeration[i] = k
  BY <1>1, ProposalAssumption, Zenon
<1>3. \A c \in 1 .. Len(Enumeration) : Enumeration[c] \in Seen(History) \cup Pending
  BY Zenon DEF CursorInv
<1> QED
  BY <1>2, <1>3, Zenon DEF Exhausted

\* The ends recorded are where batches of the history end.
LEMMA EndsStep ==
    ASSUME IInv, IInv', [Next]_vars, EndsInv
    PROVE  EndsInv'
<1>1. /\ meta.completed \in Nat /\ Len(meta.pending) \in Nat
      /\ meta.batchEnds \in Seq(Nat \ {0})
  BY SearchTypes DEF IInv
<1>2. CASE CommittedKept
  BY <1>2 DEF CommittedKept, EndsInv, BoundariesAccepted
<1>3. CASE RecordInstall
  <2>1. meta'.batchEnds = meta.batchEnds /\ meta'.completed = meta.completed
    BY <1>3, RecordStep
  <2> QED
    BY <2>1 DEF EndsInv, BoundariesAccepted
<1>4. CASE CommitInstall
  <2>1. /\ meta'.batchEnds = Append(meta.batchEnds, Len(ledger))
        /\ meta'.completed = Len(ledger) /\ meta.completed <= Len(ledger)
    <3>1. /\ meta'.batchEnds = Append(meta.batchEnds, Len(ledger))
          /\ meta'.completed = Len(ledger)
          /\ meta'.completed = meta.completed + Len(meta.pending)
      BY <1>4, CommitStep, Zenon
    <3>2. meta.completed <= meta.completed + Len(meta.pending)
      BY <1>1
    <3> QED
      BY <3>1, <3>2, Zenon
  <2>2. Len(ledger) \in Nat
    BY SequenceTypes DEF IInv
  <2> DEFINE ends == Append(meta.batchEnds, Len(ledger))
  <2>3. /\ DOMAIN ends = 1 .. Len(meta.batchEnds) + 1
        /\ Len(ends) = Len(meta.batchEnds) + 1 /\ ends # <<>>
        /\ ends[Len(meta.batchEnds) + 1] = Len(ledger)
        /\ \A i \in 1 .. Len(meta.batchEnds) : ends[i] = meta.batchEnds[i]
    BY <1>1
  <2>4. \A i \in 1 .. Len(meta.batchEnds) : meta.batchEnds[i] <= meta.completed
    BY <1>1 DEF EndsInv
  <2>5. \A i \in 1 .. Len(meta.batchEnds) : meta.batchEnds[i] \in Nat
    BY <1>1
  <2> HIDE DEF ends
  <2>6. Len(meta.batchEnds) \in Nat
    BY <1>1
  <2>7. ASSUME NEW i \in DOMAIN ends
        PROVE  ends[i] <= Len(ledger)
    <3>1. CASE i = Len(meta.batchEnds) + 1
      BY <2>2, <2>3, <3>1
    <3>2. CASE i \in 1 .. Len(meta.batchEnds)
      <4>1. ends[i] = meta.batchEnds[i] /\ meta.batchEnds[i] <= meta.completed
        BY <2>3, <2>4, <3>2
      <4> QED
        BY <1>1, <2>1, <2>2, <2>5, <3>2, <4>1
    <3> QED
      BY <2>3, <2>6, <3>1, <3>2
  <2>8. ASSUME NEW i \in DOMAIN ends, NEW j \in DOMAIN ends, i < j
        PROVE  ends[i] < ends[j]
    <3>1. i \in 1 .. Len(meta.batchEnds)
      BY <2>3, <2>6, <2>8
    <3>2. CASE j = Len(meta.batchEnds) + 1
      <4>1. ends[i] = meta.batchEnds[i] /\ meta.batchEnds[i] <= meta.completed
        BY <2>3, <2>4, <3>1
      <4>2. meta.completed < Len(ledger)
        BY <1>1, <1>4, CommitStep
      <4>3. ends[i] < Len(ledger)
        BY <1>1, <2>2, <2>5, <3>1, <4>1, <4>2
      <4> QED
        BY <2>3, <3>2, <4>3
    <3>3. CASE j \in 1 .. Len(meta.batchEnds)
      <4>1. meta.batchEnds[i] < meta.batchEnds[j]
        BY <1>1, <2>8, <3>1, <3>3 DEF EndsInv, BoundariesAccepted
      <4> QED
        BY <2>3, <3>1, <3>3, <4>1
    <3> QED
      BY <2>3, <2>6, <3>2, <3>3
  <2>9. meta'.batchEnds = ends
    BY <2>1 DEF ends
  <2>10. /\ \A i \in DOMAIN ends, j \in DOMAIN ends : i < j => ends[i] < ends[j]
         /\ ends # <<>> /\ meta'.completed = ends[Len(ends)]
    BY <2>1, <2>3, <2>8
  <2>11. BoundariesAccepted'
    BY <2>9, <2>10 DEF BoundariesAccepted
  <2> QED
    BY <2>1, <2>7, <2>9, <2>11 DEF EndsInv
<1> QED
  BY <1>2, <1>3, <1>4, CommittedStep
\* The counter grows with every batch that changed nothing, and starts over.
LEMMA CountStep ==
    ASSUME IInv, IInv', [Next]_vars, CountInv, RoomInv
    PROVE  CountInv'
<1>1. CASE CommittedKept
  BY <1>1 DEF CommittedKept, CountInv, History
<1>2. CASE RecordInstall
  <2>1. /\ meta'.stagnation = meta.stagnation /\ meta'.completed = meta.completed
        /\ History' = History
    BY <1>2, RecordStep, RecordHistory
  <2> QED
    BY <2>1 DEF CountInv
<1>3. CASE CommitInstall
  <2> DEFINE evaluated == SubSeq(ledger, meta.completed + 1, Len(ledger))
             m == Len(meta.pending)
             later == History'
  <2>1. /\ meta'.completed = meta.completed + m
        /\ meta'.stagnation = Stagnation(meta.stagnation, evaluated)
        /\ evaluated \in Seq(Trial) /\ Len(evaluated) = m
        /\ meta.pending # <<>>
    BY <1>3, CommitStep
  <2>2. /\ Continues(later, History)
        /\ Len(later) = Len(History) + Len(evaluated)
        /\ \A i \in 1 .. Len(evaluated) : evaluated[i] = later[Len(History) + i]
    BY <1>3, CommitHistory
  <2>3. /\ meta.completed \in Nat /\ m \in Nat /\ m # 0 /\ m <= BatchSize
        /\ meta.stagnation \in Nat /\ BatchSize \in Nat
        /\ History \in Seq(Trial) /\ Len(History) = meta.completed
    BY <2>1, SearchTypes, HistoryIs, CheckpointAssumption DEF IInv, RoomInv
  <2>4. later \in Seq(Trial)
    BY <2>2 DEF Continues
  <2> HIDE DEF evaluated, m, later
  <2>5. /\ Grew(evaluated) => LastGain(later) > Len(History)
        /\ ~Grew(evaluated) => LastGain(later) = LastGain(History)
    BY <2>1, <2>2, LastGainContinues
  <2>6. LastGain(later) \in 0 .. Len(later) /\ LastGain(History) \in 0 .. Len(History)
    BY <2>3, <2>4, LastGainIs
  <2>7. /\ meta.stagnation <= meta.completed - LastGain(History)
        /\ meta.completed - LastGain(History) < meta.stagnation + BatchSize
    BY DEF CountInv
  <2>8. CASE Grew(evaluated)
    <3>1. meta'.stagnation = 0 /\ LastGain(later) > meta.completed
      BY <2>1, <2>3, <2>5, <2>8 DEF Stagnation
    <3>2. LastGain(later) \in 0 .. meta.completed + m
      BY <2>1, <2>2, <2>3, <2>6
    <3>3. /\ meta'.stagnation <= meta'.completed - LastGain(later)
          /\ meta'.completed - LastGain(later) < meta'.stagnation + BatchSize
      BY <2>1, <2>3, <3>1, <3>2
    <3> QED
      BY <3>3 DEF CountInv, later
  <2>9. CASE ~Grew(evaluated)
    <3>1. meta'.stagnation = meta.stagnation + m /\ LastGain(later) = LastGain(History)
      BY <2>1, <2>5, <2>9 DEF Stagnation
    <3>2. /\ meta'.stagnation <= meta'.completed - LastGain(later)
          /\ meta'.completed - LastGain(later) < meta'.stagnation + BatchSize
      BY <2>1, <2>3, <2>6, <2>7, <3>1
    <3> QED
      BY <3>2 DEF CountInv, later
  <2> QED
    BY <2>8, <2>9
<1> QED
  BY <1>1, <1>2, <1>3, CommittedStep

\* A full batch can be proposed again from the history it follows.
LEMMA ReproducesRecord ==
    ASSUME CandidateAssumption, IInv, RecordInstall, Reproduces,
           meta'.generator.cursor # Len(Enumeration)
    PROVE  Reproduces'
<1> DEFINE rebuilt == Reconstruct(History, meta.batchEnds)
<1>1. /\ rebuilt.reproduced = TRUE
      /\ rebuilt.stagnation = meta.stagnation
      /\ meta.pending = <<>> => rebuilt.generator = meta.generator
  BY DEF Reproduces
<1>2. /\ meta.pending = <<>> /\ meta'.pending # <<>>
      /\ meta'.stagnation = meta.stagnation /\ meta'.batchEnds = meta.batchEnds
      /\ History' = History
  BY RecordStep, RecordHistory
<1>3. /\ meta'.pending = Batch(meta.generator, Len(meta'.pending), History).points
      /\ meta'.generator = Batch(meta.generator, Len(meta'.pending), History).generator
  BY RecordBatch
<1>4. Reconstruct(History', meta'.batchEnds) = rebuilt
  BY <1>2
<1> HIDE DEF rebuilt
<1> QED
  BY <1>1, <1>2, <1>3, <1>4 DEF Reproduces

\* What is committed is what replaying the pending batch gives.
LEMMA ReproducesCommit ==
    ASSUME IInv, IInv', CommitInstall, EndsInv, Reproduces
    PROVE  Reproduces'
<1> DEFINE evaluated == SubSeq(ledger, meta.completed + 1, Len(ledger))
           rebuilt == Reconstruct(History, meta.batchEnds)
           replayed == Batch(rebuilt.generator, Len(meta.pending), History)
           ends == Append(meta.batchEnds, Len(ledger))
           m == Len(meta.batchEnds)
<1>1. /\ rebuilt.reproduced = TRUE
      /\ rebuilt.stagnation = meta.stagnation
      /\ meta.pending # <<>> =>
           replayed.points = meta.pending /\ replayed.generator = meta.generator
  BY DEF Reproduces
<1>2. /\ meta.pending # <<>> /\ meta'.pending = <<>>
      /\ Len(ledger) = meta.completed + Len(meta.pending)
      /\ meta'.generator = Observe(meta.generator, Grew(evaluated))
      /\ meta'.stagnation = Stagnation(meta.stagnation, evaluated)
      /\ meta'.batchEnds = ends
      /\ evaluated \in Seq(Trial) /\ Len(evaluated) = Len(meta.pending)
      /\ \A i \in 1 .. Len(meta.pending) : evaluated[i].key = meta.pending[i]
  BY CommitStep
<1>3. Continues(History', History) /\ History' = ledger
  BY CommitHistory
<1>4. /\ meta.completed \in Nat /\ Len(meta.pending) \in Nat
      /\ meta.pending \in Seq(Keys) /\ meta.batchEnds \in Seq(Nat \ {0})
      /\ Len(History) = meta.completed /\ History \in Seq(Trial)
      /\ ledger \in Seq(Trial) /\ Len(ledger) \in Nat
  BY SequenceTypes, SearchTypes, HistoryIs DEF IInv
<1>5. Len(ledger) \in Nat \ {0}
  BY <1>2, <1>4
<1>6. \A k \in 1 .. m : meta.batchEnds[k] <= Len(History)
  BY <1>4 DEF EndsInv
<1>7. Reconstruct(History', ends) = ReplayBatch(rebuilt, m + 1, ledger, ends)
  BY <1>3, <1>4, <1>5, <1>6, ReconstructAppend
<1> DEFINE i == m + 1
           cursor == meta.completed
<1>8. /\ i = 1 => cursor = 0
      /\ i # 1 => cursor = ends[i - 1]
  <2>1. i - 1 = m /\ (i = 1 => m = 0) /\ (i # 1 => m # 0)
    BY <1>4
  <2>2. /\ m = 0 => meta.batchEnds = <<>>
        /\ m # 0 => meta.batchEnds # <<>> /\ ends[m] = meta.batchEnds[m]
    BY <1>4
  <2>3. cursor = IF meta.batchEnds = <<>> THEN 0 ELSE meta.batchEnds[m]
    BY DEF EndsInv, BoundariesAccepted
  <2> HIDE DEF m, ends, i, cursor
  <2> QED
    BY <2>1, <2>2, <2>3, Zenon
<1>9. ends[m + 1] = Len(ledger) /\ Len(ledger) - meta.completed = Len(meta.pending)
  <2>1. ends[m + 1] = Len(ledger)
    BY <1>4
  <2>2. Len(ledger) - meta.completed = Len(meta.pending)
    BY <1>2, <1>4
  <2> QED
    BY <2>1, <2>2
<1>10. /\ Slice(ledger, meta.completed + 1, Len(ledger)) = evaluated
       /\ Slice(ledger, 1, meta.completed) = History
  <2>1. meta.completed \in 0 .. Len(ledger)
    BY <1>2, <1>4
  <2> QED
    BY <1>4, <2>1, SliceFrom DEF History
<1>11. KeysOf(evaluated) = meta.pending
  <2>1. meta.pending \in [1 .. Len(meta.pending) -> Keys]
    BY <1>4, LenProperties
  <2>2. DOMAIN evaluated = 1 .. Len(meta.pending)
    BY <1>2, LenProperties
  <2> HIDE DEF evaluated
  <2> QED
    BY <1>2, <2>1, <2>2 DEF KeysOf
<1> HIDE DEF evaluated, rebuilt, replayed, ends, m, i, cursor
<1>12. LET actual == Slice(ledger, cursor + 1, ends[i])
           replay == Batch(rebuilt.generator, ends[i] - cursor, Slice(ledger, 1, cursor))
       IN  ReplayBatch(rebuilt, i, ledger, ends) =
             [generator  |-> Observe(replay.generator, Grew(actual)),
              stagnation |-> Stagnation(rebuilt.stagnation, actual),
              reproduced |-> rebuilt.reproduced /\ replay.points = KeysOf(actual)]
  BY <1>8, ReplayIs
<1>13. /\ Slice(ledger, cursor + 1, ends[i]) = evaluated
       /\ Batch(rebuilt.generator, ends[i] - cursor, Slice(ledger, 1, cursor)) = replayed
  BY <1>9, <1>10 DEF replayed, i, cursor
<1>14. ReplayBatch(rebuilt, i, ledger, ends) =
         [generator  |-> Observe(replayed.generator, Grew(evaluated)),
          stagnation |-> Stagnation(rebuilt.stagnation, evaluated),
          reproduced |-> rebuilt.reproduced /\ replayed.points = KeysOf(evaluated)]
  BY <1>12, <1>13, Zenon
<1>15. rebuilt.reproduced /\ replayed.points = KeysOf(evaluated)
  BY <1>1, <1>2, <1>11
<1> DEFINE later == Reconstruct(History', meta'.batchEnds)
<1>16. later = [generator  |-> Observe(replayed.generator, Grew(evaluated)),
                stagnation |-> Stagnation(rebuilt.stagnation, evaluated),
                reproduced |-> rebuilt.reproduced /\ replayed.points = KeysOf(evaluated)]
  BY <1>2, <1>7, <1>14, Zenon DEF i, later
<1> HIDE DEF later
<1>17. /\ later.generator = Observe(replayed.generator, Grew(evaluated))
       /\ later.stagnation = Stagnation(rebuilt.stagnation, evaluated)
       /\ later.reproduced = (rebuilt.reproduced /\ replayed.points = KeysOf(evaluated))
  BY <1>16, Zenon
<1>18. /\ later.reproduced = TRUE
       /\ later.generator = meta'.generator
       /\ later.stagnation = meta'.stagnation
  BY <1>1, <1>2, <1>15, <1>17, Zenon
<1> QED
  BY <1>2, <1>18, Zenon DEF Reproduces, later

LEMMA ReplayStep ==
    ASSUME CandidateAssumption, IInv, IInv', [Next]_vars, ReplayInv, EndsInv, CursorInv'
    PROVE  ReplayInv'
<1> SUFFICES ASSUME Enumeration # <<>>
             PROVE  (Exhausted \/ Reproduces)'
  BY DEF ReplayInv
<1>1. CASE Exhausted
  BY <1>1, ProposedStays DEF Exhausted
<1>2. CASE Reproduces
  <2>1. CASE CommittedKept
    <3>1. meta' = meta /\ History' = History
      BY <2>1 DEF CommittedKept, History
    <3> QED
      BY <1>2, <3>1 DEF Reproduces
  <2>2. CASE CommitInstall
    BY <1>2, <2>2, ReproducesCommit
  <2>3. CASE RecordInstall
    <3>1. CASE meta'.generator.cursor # Len(Enumeration)
      BY <1>2, <2>3, <3>1, ReproducesRecord
    <3>2. CASE meta'.generator.cursor = Len(Enumeration)
      <4>1. \A k \in Keys : \E i \in 1 .. Len(Enumeration) : Enumeration[i] = k
        <5>1. DOMAIN Enumeration = 1 .. Len(Enumeration)
          BY ProposalAssumption
        <5> QED
          BY <5>1, ProposalAssumption, Zenon
      <4>2. \A c \in 1 .. Len(Enumeration) : Enumeration[c] \in (Seen(History) \cup Pending)'
        BY <3>2 DEF CursorInv
      <4> QED
        BY <4>1, <4>2 DEF Exhausted
    <3> QED
      BY <3>1, <3>2
  <2> QED
    BY <2>1, <2>2, <2>3, CommittedStep
<1> QED
  BY <1>1, <1>2 DEF ReplayInv
\* A process is started or resumed only where none is, and checks the size of
\* run.json before it starts to replace it.
LEMMA StepKinds ==
    ASSUME [Next]_vars
    PROVE  \/ UNCHANGED <<pc, search, refused>>
           \/ \E b \in Budgets : StartFresh(b) \/ Resume(b)
           \/ /\ pc # "idle" /\ refused' = refused
              /\ pc' = "recording" => RecordBackup
<1> DEFINE Goes == /\ pc # "idle" /\ refused' = refused
                   /\ pc' = "recording" => RecordBackup
<1>1. CASE UNCHANGED vars
  BY <1>1 DEF vars
<1>2. CASE OperatorClears
  BY <1>2 DEF OperatorClears
<1>3. CASE InstallLedger \/ InstallMetadata \/ InstallReport
  BY <1>3, Zenon DEF InstallLedger, InstallMetadata, InstallReport
<1>4. CASE Propose \/ RecordInstall
  BY <1>4, Zenon DEF Propose, RecordInstall
<1>5. CASE RecordBackup
  BY <1>5, Zenon DEF RecordBackup
<1>6. ASSUME NEW gains, Evaluate(gains)
      PROVE  Goes
  BY <1>6, Zenon DEF Evaluate
<1>7. CASE AppendDirect \/ RepairBackup \/ RepairInstall
  BY <1>7, Zenon DEF AppendDirect, Appends, RepairBackup, RepairInstall
<1>8. CASE CommitBackup \/ CommitInstall
  BY <1>8, Zenon DEF CommitBackup, CommitInstall
<1>9. CASE FinishBudget \/ FinishWallTime \/ FinishStagnation \/ FinishEmpty
  <2>1. ASSUME NEW reason, Finish(reason)
        PROVE  Goes
    BY <2>1, Zenon DEF Finish, Idle
  <2> QED
    BY <1>9, <2>1, Zenon DEF FinishBudget, FinishWallTime, FinishStagnation, FinishEmpty
<1>10. CASE TooLarge
  BY <1>10, Zenon DEF TooLarge, Idle
<1>11. CASE Interrupt
  BY <1>11, Zenon DEF Interrupt, Idle
<1>12. CASE Crash \/ AppendCut
  BY <1>12, Zenon DEF Crash, AppendCut, Appends, Idle
<1> QED
  BY <1>1, <1>2, <1>3, <1>4, <1>5, <1>6, <1>7, <1>8, <1>9, <1>10, <1>11, <1>12
  DEF Next, Step

LEMMA RoomStep ==
    ASSUME CandidateAssumption, IInv, IInv', [Next]_vars, RoomInv
    PROVE  RoomInv'
<1>1. /\ meta.batchEnds \in Seq(Nat \ {0}) /\ Len(meta.batchEnds) \in Nat
      /\ Len(meta.pending) \in Nat /\ MaxNodes \in Nat /\ BatchSize \in Nat \ {0}
  BY SearchTypes, CheckpointAssumption DEF IInv
<1>2. Len(meta'.pending) <= BatchSize /\ Nodes(meta') <= MaxNodes
  <2>1. CASE CommittedKept
    BY <2>1 DEF CommittedKept, RoomInv
  <2>2. CASE RecordInstall
    <3>1. Len(meta'.pending) \in 1 .. BatchSize
      BY <2>2, RecordBatch
    <3>2. pc = "recording" /\ meta' = Metadata(points)
      BY <2>2 DEF RecordInstall
    <3> QED
      BY <1>1, <3>1, <3>2 DEF RoomInv
  <2>3. CASE CommitInstall
    <3>1. /\ meta.pending # <<>> /\ meta'.pending = <<>>
          /\ meta'.batchEnds = Append(meta.batchEnds, Len(ledger))
      BY <2>3, CommitStep
    <3>2. Len(meta.pending) \in Nat \ {0}
      BY <3>1, SearchTypes DEF IInv
    <3>a. Len(meta'.pending) = 0
      BY <3>1
    <3>3. Len(meta'.batchEnds) = Len(meta.batchEnds) + 1
      BY <1>1, <3>1
    <3>4. Len(meta.batchEnds) + Len(meta.pending) <= MaxNodes
      BY DEF RoomInv, Nodes
    <3>5. Nodes(meta') = Len(meta.batchEnds) + 1 + 0
      BY <3>a, <3>3, Zenon DEF Nodes
    <3>6. Len(meta.batchEnds) + 1 + 0 <= MaxNodes /\ 0 <= BatchSize
      <4> DEFINE ends == Len(meta.batchEnds)
                 rest == Len(meta.pending)
      <4>1. ends \in Nat /\ MaxNodes \in Nat /\ BatchSize \in Nat
        BY <1>1
      <4>2. rest \in Nat \ {0} /\ ends + rest <= MaxNodes
        BY <3>2, <3>4, Zenon
      <4> HIDE DEF ends, rest
      <4>3. ends + 1 + 0 <= MaxNodes /\ 0 <= BatchSize
        BY <4>1, <4>2
      <4> QED
        BY <4>3, Zenon DEF ends
    <3> QED
      BY <3>a, <3>5, <3>6, Zenon
  <2> QED
    BY <2>1, <2>2, <2>3, CommittedStep
<1>3. ASSUME pc' = "recording"
      PROVE  Nodes(Metadata(points))' <= MaxNodes
  <2>1. CASE UNCHANGED <<pc, search, refused>>
    BY <1>3, <2>1 DEF RoomInv, Nodes, Metadata, search
  <2>2. CASE RecordBackup
    BY <2>2 DEF RecordBackup, Nodes, Metadata, search
  <2>3. ASSUME NEW b \in Budgets, StartFresh(b) \/ Resume(b)
        PROVE  FALSE
    <3>1. pc = "idle" /\ Resume(b)
      BY <1>3, <2>3 DEF StartFresh, Resume
    <3> QED
      BY <1>3, <3>1, Resumed
      DEF IInv, ResumeTakesOver, ResumeSettles, ResumeEvaluates, ResumeLoops
  <2> QED
    BY <1>3, <2>1, <2>2, <2>3, StepKinds
<1> QED
  BY <1>2, <1>3 DEF RoomInv
(***************************************************************************)
(* As long as the history can be replayed, no resume is refused as         *)
(* irreproducible.                                                         *)
(***************************************************************************)
LEMMA NotRefused ==
    ASSUME IInv, Reproduces, NEW b \in Budgets
    PROVE  Recovery(b).refusal \notin Irreproducible
<1> SUFFICES ASSUME Recovery(b).refusal \in Irreproducible PROVE FALSE
  OBVIOUS
<1> DEFINE rebuilt == Reconstruct(Committed, meta.batchEnds)
           replayed == Replay(rebuilt.generator, ToRecover(b))
           again == Batch(rebuilt.generator, Len(meta.pending), Committed)
<1>1. Recovery(b).refusal = Refusal(b, rebuilt, replayed)
  <2>1. Recovery(b) = [proposed |-> replayed.points, generator |-> replayed.generator,
                       refusal |-> Refusal(b, rebuilt, replayed)]
    BY RecoveryIs, Zenon
  <2> HIDE DEF rebuilt, replayed
  <2> QED
    BY <2>1
<1>2. Durable \in Seq(Trial) /\ Len(Durable) \in Nat /\ meta.completed \in Nat
  <2>1. Durable \in Seq(Trial)
    BY DurableType DEF IInv
  <2> QED
    BY <2>1, SearchTypes DEF IInv
<1>3. ~(meta.completed > Len(Durable))
  BY <1>1 DEF Refusal, Irreproducible
<1>4. meta.completed <= Len(Durable)
  BY <1>2, <1>3
<1>5. /\ Ahead \in Seq(Trial)
      /\ Len(Ahead) <= Len(meta.pending)
      /\ \A i \in 1 .. Len(Ahead) : Ahead[i].key = meta.pending[i]
  BY <1>4, AheadIs DEF IInv
<1>6. Committed = History
  <2>1. CASE ledgerFile
    BY <2>1 DEF Committed, History, Durable
  <2>2. CASE ~ledgerFile
    <3>1. Durable = <<>> /\ meta.completed = 0
      BY <1>2, <1>4, <2>2 DEF Durable
    <3>2. Slice(ledger, 1, 0) = <<>> /\ Slice(<<>>, 1, 0) = <<>>
      <4>1. ledger \in Seq(Trial) /\ Len(ledger) \in Nat
        BY SequenceTypes DEF IInv
      <4>2. AtMost(0, Len(ledger)) = 0 /\ AtMost(0, Len(<<>>)) = 0
        BY <4>1 DEF AtMost
      <4> QED
        BY <4>1, <4>2 DEF Slice
    <3> QED
      BY <3>1, <3>2 DEF Committed, History
  <2> QED
    BY <2>1, <2>2
<1>7. /\ rebuilt.reproduced = TRUE
      /\ rebuilt.stagnation = meta.stagnation
      /\ meta.pending = <<>> => rebuilt.generator = meta.generator
      /\ meta.pending # <<>> =>
           again.points = meta.pending /\ again.generator = meta.generator
  BY <1>6, Zenon DEF Reproduces
<1>8. meta.pending # <<>> => replayed = again
  <2>1. meta.pending # <<>> => Len(meta.pending) # 0
    BY SearchTypes DEF IInv
  <2> QED
    BY <2>1, Zenon DEF ToRecover, Replay
<1>9. meta.pending = <<>> => replayed = [points |-> <<>>, generator |-> rebuilt.generator]
  <2>1. meta.pending = <<>> => Ahead = <<>>
    BY <1>5
  <2> QED
    BY <2>1, Zenon DEF ToRecover, Replay
<1> HIDE DEF rebuilt, replayed, again
<1>10. /\ meta.pending # <<>> =>
            replayed.points = meta.pending /\ replayed.generator = meta.generator
       /\ meta.pending = <<>> => replayed.points = meta.pending
  BY <1>7, <1>8, <1>9
<1>11. IsPrefixOf(KeysOf(Ahead), replayed.points)
  <2>1. replayed.points = meta.pending
    BY <1>10, Zenon
  <2>2. DOMAIN Ahead = 1 .. Len(Ahead) /\ Len(Ahead) \in Nat
    BY <1>5
  <2>3. /\ KeysOf(Ahead) = [i \in 1 .. Len(Ahead) |-> Ahead[i].key]
        /\ Len(KeysOf(Ahead)) = Len(Ahead)
    BY <2>2 DEF KeysOf
  <2>4. \A i \in DOMAIN KeysOf(Ahead) : KeysOf(Ahead)[i] = meta.pending[i]
    BY <1>5, <2>3
  <2> QED
    BY <1>5, <2>1, <2>3, <2>4, Zenon DEF IsPrefixOf
<1> DEFINE reason == Refusal(b, rebuilt, replayed)
<1>12. reason \in {"no metadata", "ledger is short", "budget", "none"}
  <2>1. reason # "sequence not reproducible"
    BY <1>7 DEF Refusal
  <2>2. reason # "pending not reproducible"
    BY <1>10 DEF Refusal
  <2>3. reason # "state disagrees"
    BY <1>7, <1>10 DEF Refusal
  <2>4. reason # "tail disagrees"
    BY <1>11 DEF Refusal
  <2>5. reason \in {"no metadata", "ledger is short", "sequence not reproducible",
                    "pending not reproducible", "state disagrees", "budget",
                    "tail disagrees", "none"}
    BY DEF Refusal
  <2> HIDE DEF reason
  <2> QED
    BY <2>1, <2>2, <2>3, <2>4, <2>5
<1> HIDE DEF reason
<1> QED
  BY <1>1, <1>12 DEF Irreproducible, reason

LEMMA RefusedStep ==
    ASSUME IInv, IInv', [Next]_vars, ReplayInv, RefusedInv
    PROVE  RefusedInv'
<1>1. Exhausted => Exhausted'
  BY ProposedStays DEF Exhausted
<1>2. CASE UNCHANGED <<pc, search, refused>>
  BY <1>1, <1>2 DEF RefusedInv
<1>3. CASE pc # "idle" /\ refused' = refused
  BY <1>3 DEF RefusedInv
<1>4. "none" \notin Irreproducible
  BY DEF Irreproducible
<1>5. ASSUME NEW b \in Budgets, StartFresh(b)
      PROVE  RefusedInv'
  BY <1>4, <1>5 DEF StartFresh, RefusedInv
<1>6. ASSUME NEW b \in Budgets, Resume(b)
      PROVE  RefusedInv'
  <2>1. CASE ResumeRefused(Recovery(b))
    <3>1. pc = "idle" /\ pc' = pc /\ refused' = Recovery(b).refusal
      BY <1>6, <2>1 DEF Resume, ResumeRefused
    <3>2. Reproduces => refused' \notin Irreproducible
      BY <3>1, NotRefused
    <3> QED
      BY <1>1, <3>1, <3>2 DEF RefusedInv, ReplayInv
  <2>2. CASE Restore(b, Recovery(b))
    BY <1>4, <2>2 DEF Restore, RefusedInv
  <2> QED
    BY <1>6, <2>1, <2>2 DEF Resume, ResumeSettled, ResumeUnsettled, ResumeClean
<1> QED
  BY <1>2, <1>3, <1>5, <1>6, StepKinds
-----------------------------------------------------------------------------
(* The theorems.                                                           *)

LEMMA InitResume == Init => ResumeInv
<1> SUFFICES ASSUME Init PROVE ResumeInv
  OBVIOUS
<1>1. /\ ledger = <<>> /\ meta = NewMetadata /\ pc = "idle" /\ refused = "none"
  BY DEF Init
<1>2. /\ meta.completed = 0 /\ meta.stagnation = 0 /\ meta.generator = NewGenerator
      /\ meta.batchEnds = <<>> /\ meta.pending = <<>>
  BY <1>1 DEF NewMetadata
<1>3. History = <<>>
  BY <1>1, <1>2 DEF History, Slice, AtMost
<1>4. CursorInv
  BY <1>2 DEF CursorInv, NewGenerator
<1>5. EndsInv
  BY <1>2 DEF EndsInv, BoundariesAccepted
<1>6. Reproduces
  <2> DEFINE rebuilt == Reconstruct(<<>>, <<>>)
  <2>1. PICK f : Unfolds(f, Len(<<>>), <<>>, <<>>) /\ rebuilt = f[Len(<<>>)]
    <3>1. <<>> \in Seq(Nat)
      OBVIOUS
    <3> QED
      BY <3>1, ReconstructIs, Zenon
  <2>2. Len(<<>>) = 0 /\ 0 \in Nat
    OBVIOUS
  <2>3. rebuilt = Fresh
    BY <2>1, <2>2, UnfoldsIs
  <2> HIDE DEF rebuilt
  <2>4. /\ rebuilt.reproduced = TRUE /\ rebuilt.stagnation = 0
        /\ rebuilt.generator = NewGenerator
    BY <2>3 DEF Fresh
  <2> QED
    BY <1>2, <1>3, <2>4, Zenon DEF Reproduces, rebuilt
<1>7. ReplayInv
  BY <1>6 DEF ReplayInv
<1>8. RefusedInv
  BY <1>1 DEF RefusedInv, Irreproducible
<1>9. CountInv
  <2>1. LastGain(<<>>) = 0
    BY DEF LastGain
  <2> QED
    BY <1>2, <1>3, <2>1, CheckpointAssumption DEF CountInv
<1>10. RoomInv
  BY <1>1, <1>2, CheckpointAssumption DEF RoomInv, Nodes
<1> QED
  BY <1>4, <1>5, <1>7, <1>8, <1>9, <1>10 DEF ResumeInv

LEMMA ResumeInvariance ==
    ASSUME CandidateAssumption
    PROVE  Spec => [](IInv /\ ResumeInv)
<1>1. Init => ResumeInv
  BY InitResume
<1>2. ASSUME IInv, IInv', [Next]_vars, ResumeInv
      PROVE  ResumeInv'
  <2>1. CursorInv'
    BY <1>2, CursorStep DEF ResumeInv
  <2>2. EndsInv' /\ CountInv' /\ RoomInv' /\ RefusedInv'
    BY <1>2, EndsStep, CountStep, RoomStep, RefusedStep DEF ResumeInv
  <2>3. ReplayInv'
    BY <1>2, <2>1, ReplayStep DEF ResumeInv
  <2> QED
    BY <2>1, <2>2, <2>3 DEF ResumeInv
<1> QED
  BY <1>1, <1>2, Invariance, PTL DEF Spec

(***************************************************************************)
(* An evaluated batch can be committed: the size of run.json is checked    *)
(* with the pending keys, before the evaluation, and the batch end that    *)
(* replaces them needs no more room (write_metadata).                      *)
(***************************************************************************)
THEOREM CommitsFit ==
    ASSUME CandidateAssumption
    PROVE  Spec => []CommitFits
<1>1. IInv /\ ResumeInv => CommitFits
  <2> SUFFICES ASSUME IInv, RoomInv, pc \in {"append", "repairing", "commit"}
               PROVE  Nodes(Metadata(<<>>)) <= MaxNodes
    BY DEF CommitFits, ResumeInv
  <2>1. Completes
    BY DEF IInv, ProcessInv, AppendInv, CommitInv
  <2>2. meta.pending # <<>> /\ batchEnds = Append(meta.batchEnds, Len(trials))
    BY <2>1 DEF Completes
  <2> DEFINE ends == Len(meta.batchEnds)
             rest == Len(meta.pending)
  <2>3. ends \in Nat /\ rest \in Nat \ {0} /\ MaxNodes \in Nat
    BY <2>2, SearchTypes, CheckpointAssumption DEF IInv
  <2>4. ends + rest <= MaxNodes
    BY DEF RoomInv, Nodes
  <2>5. Len(batchEnds) = ends + 1
    BY <2>2, SearchTypes DEF IInv
  <2>6. Nodes(Metadata(<<>>)) = Len(batchEnds) + 0
    BY DEF Nodes, Metadata
  <2> HIDE DEF ends, rest
  <2> QED
    BY <2>3, <2>4, <2>5, <2>6
<1> QED
  BY <1>1, ResumeInvariance, PTL

(***************************************************************************)
(* The batch ends a run records increase and end with what is completed,   *)
(* so that no resume ever refuses run.json for them: what the model of the *)
(* refusals leaves out cannot happen (_require_metadata).                  *)
(***************************************************************************)
THEOREM BoundariesAreAccepted ==
    ASSUME CandidateAssumption
    PROVE  Spec => []BoundariesAccepted
<1>1. IInv /\ ResumeInv => BoundariesAccepted
  BY DEF ResumeInv, EndsInv
<1> QED
  BY <1>1, ResumeInvariance, PTL

(***************************************************************************)
(* The stagnation counter run.json records counts the evaluations since    *)
(* the last frontier change, short of at most the batch that changed it,   *)
(* whatever was interrupted, resumed or evaluated again in between.        *)
(***************************************************************************)
THEOREM StagnationIsCounted ==
    ASSUME CandidateAssumption
    PROVE  Spec => []StagnationCounts
<1>1. IInv /\ ResumeInv => StagnationCounts
  BY Zenon DEF ResumeInv, CountInv, StagnationCounts, History
<1> QED
  BY <1>1, ResumeInvariance, PTL

(***************************************************************************)
(* In a domain that can be enumerated, a resume is refused as              *)
(* irreproducible only when every point has been proposed: a batch that is *)
(* not the last can be proposed again, with the size it has, from the      *)
(* history it follows (_reconstruct_generator, _optimize_coordinated).     *)
(***************************************************************************)
THEOREM RefusalMeansExhaustion ==
    ASSUME CandidateAssumption
    PROVE  Spec => []RefusedOnlyWhenExhausted
<1>1. IInv /\ ResumeInv => RefusedOnlyWhenExhausted
  <2> SUFFICES ASSUME IInv, RefusedInv, Enumeration # <<>>, refused \in Irreproducible,
                      NEW k \in Keys
               PROVE  \/ k \in Seen(ledger)
                      \/ \E i \in DOMAIN meta.pending : meta.pending[i] = k
    BY DEF ResumeInv, RefusedOnlyWhenExhausted
  <2>1. k \in Seen(History) \/ k \in Pending
    BY DEF RefusedInv, Exhausted
  <2>2. CASE k \in Pending
    BY <2>2 DEF Pending
  <2>3. CASE k \in Seen(History)
    <3>1. PICK i \in 1 .. meta.completed : ledger[i].key = k
      BY <2>3, HistoryIs DEF Seen
    <3>2. i \in DOMAIN ledger
      BY SequenceTypes, SearchTypes DEF IInv, DiskInv, LedgerInv
    <3> QED
      BY <3>1, <3>2 DEF Seen
  <2> QED
    BY <2>1, <2>2, <2>3
<1> QED
  BY <1>1, ResumeInvariance, PTL
=============================================================================
