---------------------------- MODULE SearchSpace ----------------------------
(***************************************************************************)
(* The walk over a finite domain, biasweave/search_space.py, between the   *)
(* points that random draws find first.  A strategy takes the end of the   *)
(* walk for the proof that every point was evaluated, though a draw can    *)
(* produce any coordinates and the walk knows one representative per       *)
(* value.                                                                  *)
(***************************************************************************)
EXTENDS Encoding

CONSTANTS
    Documents,      \* the tables of the variables of a problem
    Coordinates(_), \* the coordinates a draw may yield for a variable
    MaxEnumerable,  \* MAX_ENUMERABLE_POINTS
    MaxDraws        \* a bound on the random draws of a behaviour

VARIABLES
    variables,  \* the variables of the problem
    axes,       \* one sequence of representatives per free variable, or NotFinite
    cursor,     \* how far the product of the axes was walked
    seen,       \* the points the search was given
    draws       \* how many of them were drawn

vars == <<variables, axes, cursor, seen, draws>>

NotFinite == <<>>

Product(sequence) == FoldLeft(LAMBDA product, n : product * n, 1, sequence)

Enumerable(v) == v.kind # "real" \/ v.quantum > 0

\* An upper bound on the number of values; _quantized_axis_size() for a real.
AxisSize(v) ==
    CASE v.kind = "real" -> Ceiling(v.high - v.low, v.quantum) + 2
      [] v.kind = "integer" -> v.high - v.low + 1
      [] v.kind = "choice" -> Len(v.values)

\* Mutation: a last level that is not a whole one is forgotten.
MaximumLevel_Whole(v) == Max({0, (v.high - v.low) \div v.quantum - 1})

\* The last level of the quantum that a value below the upper bound rounds to.
MaximumLevel(v) == Max({0, Ceiling(2 * (v.high - v.low) + v.quantum, 2 * v.quantum) - 1})

\* The middles of the intervals of coordinates that round to one level.
Middles(v) ==
    LET span == v.high - v.low
        Lower(level) == Max({0, (2 * level - 1) * v.quantum})
        Upper(level) == Min({2 * span, (2 * level + 1) * v.quantum})
    IN  FoldLeft(LAMBDA middles, level :
                    IF Upper(level) > Lower(level)
                    THEN Append(middles, <<Lower(level) + Upper(level), 4 * span>>) ELSE middles,
                 <<>>, [i \in 1 .. MaximumLevel(v) + 1 |-> i - 1])

Candidates(v) ==
    CASE v.kind = "real" -> <<<<0, 1>>, <<1, 1>>>> \o Middles(v)
      [] v.kind = "integer" /\ v.high = v.low -> <<<<1, 2>>>>
      [] v.kind = "integer" /\ v.high # v.low ->
            [i \in 1 .. v.high - v.low + 1 |-> <<i - 1, v.high - v.low>>]
      [] v.kind = "choice" -> [i \in DOMAIN v.values |-> <<2 * i - 1, 2 * Len(v.values)>>]

\* The first candidate for each value.
Representatives(v) ==
    FoldLeft(LAMBDA axis, c :
                IF \E i \in DOMAIN axis : DecodeVariable(v, axis[i]) = DecodeVariable(v, c)
                THEN axis ELSE Append(axis, c),
             <<>>, Candidates(v))

(***************************************************************************)
(* Documents are typed, and their size is limited: a choice has fewer      *)
(* values than there are floats.  A draw yields fractions: among them one  *)
(* for every value that a variable with finitely many has.                 *)
(***************************************************************************)
ASSUME SearchSpaceAssumption ==
    /\ MaxEnumerable \in Nat
    /\ Documents \subseteq Seq(Tables)
    /\ \A tables \in Documents : Accepted(tables) =>
          \A i \in DOMAIN tables : tables[i].kind # "linked" =>
              LET v == Variable(tables[i])
              IN  /\ v.kind = "choice" => Len(v.values) < Precision
                  /\ Coordinates(v) \subseteq Int \X (Nat \ {0})
                  /\ Enumerable(v) =>
                        \A c \in ToSet(Candidates(v)) : \E d \in Coordinates(v) :
                            DecodeVariable(v, d) = DecodeVariable(v, c)

FiniteAxes(variableSeq) ==
    LET frees == FreeVariables(variableSeq)
    IN  IF /\ \A i \in DOMAIN frees : Enumerable(frees[i])
           /\ Product([i \in DOMAIN frees |-> AxisSize(frees[i])]) <= MaxEnumerable
        THEN [i \in DOMAIN frees |-> Representatives(frees[i])]
        ELSE NotFinite

Cardinal == Product([i \in DOMAIN axes |-> Len(axes[i])])

\* The point of an index below that: the last axis moves fastest.
PointAt(index) ==
    LET Faster(i) == Product([j \in 1 .. Len(axes) - i |-> Len(axes[i + j])])
    IN  Decode(variables,
               [i \in DOMAIN axes |-> axes[i][((index \div Faster(i)) % Len(axes[i])) + 1]])

\* The values of the free variables that some coordinates decode to.
FreeValues(v) == {DecodeVariable(v, c) : c \in Coordinates(v)}

\* The points that some coordinates decode to.
Decodable ==
    LET frees == FreeVariables(variables)
        Witness(v, value) == CHOOSE c \in Coordinates(v) : DecodeVariable(v, c) = value
    IN  {Decode(variables, [i \in DOMAIN frees |-> Witness(frees[i], choice[i])]) :
            choice \in {f \in [DOMAIN frees -> UNION {FreeValues(frees[i]) : i \in DOMAIN frees}] :
                            \A i \in DOMAIN frees : f[i] \in FreeValues(frees[i])}}
-----------------------------------------------------------------------------
Init ==
    /\ \E tables \in Documents :
            /\ Accepted(tables)
            /\ variables = [i \in DOMAIN tables |-> Variable(tables[i])]
            /\ axes = FiniteAxes(variables)
    /\ cursor = 0
    /\ seen = {}
    /\ draws = 0

\* The first point of most strategies.
DrawDefault ==
    /\ seen = {}
    /\ Refused \notin Range(DefaultCoordinates(variables))
    /\ seen' = {Decode(variables, DefaultCoordinates(variables))}
    /\ UNCHANGED <<variables, axes, cursor, draws>>

\* A draw yields a point that nobody has seen.
Draw ==
    /\ draws < MaxDraws
    /\ \E point \in Decodable \ seen : seen' = seen \union {point}
    /\ draws' = draws + 1
    /\ UNCHANGED <<variables, axes, cursor>>

\* next_unseen() skips the points that were seen, and returns another one ...
NextUnseen ==
    /\ axes # NotFinite
    /\ \E index \in cursor .. Cardinal - 1 :
            /\ \A earlier \in cursor .. index - 1 : PointAt(earlier) \in seen
            /\ PointAt(index) \notin seen
            /\ cursor' = index + 1
            /\ seen' = seen \union {PointAt(index)}
    /\ UNCHANGED <<variables, axes, draws>>

\* ... or none, when the rest of the walk was seen.
NoneUnseen ==
    /\ axes # NotFinite
    /\ cursor < Cardinal
    /\ \A index \in cursor .. Cardinal - 1 : PointAt(index) \in seen
    /\ cursor' = Cardinal
    /\ UNCHANGED <<variables, axes, seen, draws>>

Next == DrawDefault \/ Draw \/ NextUnseen \/ NoneUnseen

Spec == Init /\ [][Next]_vars
-----------------------------------------------------------------------------
(***************************************************************************)
(* Exhaustion is a proof: when the walk has ended, no coordinates at all   *)
(* decode to a point that the search was not given, values between the     *)
(* levels of a quantum and ends of an interval that is no multiple of it   *)
(* included, and the product that the size limit was checked for has       *)
(* exactly one index per point.                                            *)
(***************************************************************************)
ExhaustionIsProof ==
    axes # NotFinite /\ cursor = Cardinal =>
        /\ Decodable \subseteq seen
        /\ Cardinal = Cardinality(Decodable)
        /\ Cardinal <= MaxEnumerable

(***************************************************************************)
(* The values of a point are within their bounds, and a linked variable    *)
(* has followed its source, declared before or after it.  The Bayesian     *)
(* strategy trains on coordinates computed back from the values: though    *)
(* they are rounded, no choice or integer is taken for another one, and    *)
(* only an integer of a variable with more values than floats tell apart   *)
(* may be refused.                                                         *)
(***************************************************************************)
CanonicalPoint ==
    \A point \in seen, i \in DOMAIN variables :
        LET v == variables[i]
            value == point[v.name]
            coordinate == EncodeVariable(v, value)
        IN  CASE v.kind = "linked" -> value = point[v.source] * v.factor + v.offset
              [] v.kind = "choice" ->
                    value \in ToSet(v.values) /\ DecodeVariable(v, coordinate) = value
              [] v.kind = "integer" ->
                    /\ value \in v.low .. v.high
                    /\ IF coordinate = Refused THEN v.high - v.low > Precision
                       ELSE DecodeVariable(v, coordinate) = value
              [] v.kind = "real" -> value \in v.low .. v.high
=============================================================================
