------------------------------ MODULE Encoding ------------------------------
(***************************************************************************)
(* The variables of a problem document (biasweave/problem.py) and the      *)
(* encoding of their values as normalized coordinates (encoding.py).       *)
(*                                                                         *)
(* Numbers are integers in units of the spacing of floats, so that a real  *)
(* variable without a quantum is one with the quantum 1.  A coordinate is  *)
(* a fraction <<a, b>>; one that is computed from a value is rounded to a  *)
(* multiple of 1 / Precision, 2^-53 in the code.  For reals the code       *)
(* rounds several times, each way, where the model rounds once: nothing    *)
(* here is said of whether a real comes back from its coordinate.          *)
(* Logarithmic scales and the checks that a result is finite are left out. *)
(* A variable is a record with the fields its kind has; in a document,     *)
(* "default" is <<>> when it is not given.                                 *)
(***************************************************************************)
EXTENDS Rounding, Sequences, FiniteSetsExt, SequencesExt

CONSTANT Precision \* how many floats there are from 0 to 1

ASSUME PrecisionAssumption == Precision \in Nat \ {0}

Named(variables, name) == variables[CHOOSE i \in DOMAIN variables : variables[i].name = name]

Names(variables) == {variables[i].name : i \in DOMAIN variables}

\* The tables of a document.  A number stands for the text that a value of a choice is.
Tables ==
    [kind : {"real"}, name : STRING, low : Int, high : Int, quantum : Int, default : Seq(Int)]
    \union [kind : {"integer"}, name : STRING, low : Int, high : Int, default : Seq(Int)]
    \union [kind : {"choice"}, name : STRING, values : Seq(Int), numeric : BOOLEAN,
            default : Seq(Int)]
    \union [kind : {"linked"}, name : STRING, source : STRING, factor : Int, offset : Int]

\* _variable(): the default of a table that gives none.
ImplicitDefault(table) ==
    CASE table.kind = "real" -> Rounded(table.low + table.high, 2)
      [] table.kind = "integer" -> (table.low + table.high) \div 2
      [] table.kind = "choice" -> table.values[1]

\* _variable(): what a table must satisfy.
WellFormed(table) ==
    CASE table.kind = "real" ->
            /\ table.low < table.high
            /\ table.quantum >= 0
            /\ \A i \in DOMAIN table.default : table.default[i] \in table.low .. table.high
      [] table.kind = "integer" ->
            /\ table.low <= table.high
            /\ \A i \in DOMAIN table.default : table.default[i] \in table.low .. table.high
      [] table.kind = "choice" ->
            /\ table.values # <<>> /\ IsInjective(table.values)
            /\ ToSet(table.default) \subseteq ToSet(table.values)
      [] table.kind = "linked" -> TRUE

Variable(table) ==
    IF table.kind = "linked" THEN table
    ELSE [table EXCEPT !.default = IF @ = <<>> THEN ImplicitDefault(table) ELSE @[1]]

\* Where a link leads; a walk along links ends at a name that is free or unknown.
Source(variables, name) ==
    IF name \in Names(variables) /\ Named(variables, name).kind = "linked"
    THEN Named(variables, name).source ELSE name

Leads(variables, name) ==
    LET After[n \in 0 .. Len(variables)] ==
            IF n = 0 THEN name ELSE Source(variables, After[n - 1])
    IN  After[Len(variables)]

(***************************************************************************)
(* _check_links(): from every linked variable a chain of sources leads to  *)
(* a free variable that is numeric; a walk that has come back to a name it *)
(* has seen is among linked variables for good.                            *)
(***************************************************************************)
CheckLinks(variables) ==
    \A i \in DOMAIN variables :
        variables[i].kind = "linked" =>
            LET end == Leads(variables, variables[i].name)
            IN  /\ end \in Names(variables)
                /\ LET source == Named(variables, end)
                   IN  /\ source.kind # "linked"
                       /\ source.kind = "choice" => source.numeric

\* parse_problem(), as far as it is about the variables.
Accepted(tables) ==
    /\ \A i, j \in DOMAIN tables : tables[i].name = tables[j].name => i = j
    /\ \A i \in DOMAIN tables : WellFormed(tables[i])
    /\ \E i \in DOMAIN tables : tables[i].kind # "linked"
    /\ CheckLinks(tables)

FreeVariables(variables) ==
    FoldLeft(LAMBDA frees, v : IF v.kind = "linked" THEN frees ELSE Append(frees, v),
             <<>>, variables)
-----------------------------------------------------------------------------
Clamp(c) == CASE c[1] < 0 -> <<0, 1>> [] c[1] > c[2] -> <<1, 1>> [] OTHER -> c

\* The quantum of a real variable; floats have one, too.
Step(v) == IF v.quantum = 0 THEN 1 ELSE v.quantum

\* _quantize_real(): low + a / b snaps to low plus a multiple of the quantum.
QuantizeReal(v, a, b) == Max({v.low, Min({v.high, v.low + Rounded(a, b * Step(v)) * Step(v)})})

\* _decode_variable()
DecodeVariable(v, coordinate) ==
    LET c == Clamp(coordinate)
        span == v.high - v.low
    IN  CASE v.kind = "real" ->
                IF c[1] = 0 THEN v.low ELSE IF c[1] = c[2] THEN v.high
                ELSE QuantizeReal(v, c[1] * span, c[2])
          [] v.kind = "integer" -> Min({v.high, v.low + Rounded(c[1] * span, c[2])})
          [] v.kind = "choice" -> v.values[Min({Len(v.values), (c[1] * Len(v.values)) \div c[2] + 1})]

\* _linked_value(): a source that is itself linked comes first.
LinkedValue(variables, free) ==
    LET Value[name \in Names(variables)] ==
            LET v == Named(variables, name)
            IN  IF v.kind = "linked" THEN Value[v.source] * v.factor + v.offset ELSE free[name]
    IN  Value

\* decode(): the values of all variables, by name.
Decode(variables, coordinates) ==
    LET frees == FreeVariables(variables)
        free == [name \in Names(frees) |->
                    LET i == CHOOSE i \in DOMAIN frees : frees[i].name = name
                    IN  DecodeVariable(frees[i], coordinates[i])]
    IN  LinkedValue(variables, free)

\* The float nearest to a / b, which is between 0 and 1.
Float(a, b) == <<Rounded(a * Precision, b), Precision>>

\* A value that has no coordinate: a ProblemError.
Refused == <<0, 0>>

EncodeChoice(v, value) ==
    LET i == CHOOSE i \in DOMAIN v.values : v.values[i] = value
    IN  Float(2 * i - 1, 2 * Len(v.values))

IntegerCoordinate(v, value) ==
    IF v.high = v.low THEN <<1, 2>> ELSE Float(value - v.low, v.high - v.low)

\* Mutation: whether the coordinate stands for the integer is not checked.
EncodeVariable_Unchecked(v, value) ==
    CASE v.kind = "choice" -> EncodeChoice(v, value)
      [] v.kind = "integer" -> IntegerCoordinate(v, value)
      [] v.kind = "real" -> Float(value - v.low, v.high - v.low)

\* _encode_variable(), for a value within the bounds.
EncodeVariable(v, value) ==
    CASE v.kind = "choice" -> EncodeChoice(v, value)
      [] v.kind = "integer" ->
            IF DecodeVariable(v, IntegerCoordinate(v, value)) = value
            THEN IntegerCoordinate(v, value) ELSE Refused
      [] v.kind = "real" -> Float(value - v.low, v.high - v.low)

\* default_coordinates(), which raises when one of them is refused.
DefaultCoordinates(variables) ==
    LET frees == FreeVariables(variables)
    IN  [i \in DOMAIN frees |-> EncodeVariable(frees[i], frees[i].default)]
=============================================================================
