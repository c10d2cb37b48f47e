--------------------------- MODULE MCSearchSpace ---------------------------
(***************************************************************************)
(* Real variables whose interval is and is not a multiple of the quantum,  *)
(* or is shorter than it; integers, one of them with a single value, and   *)
(* some with more values than eight floats can tell apart;                 *)
(* choices; links over two hops that are declared before their source;     *)
(* documents with links that the parser refuses; a domain that is not      *)
(* finite, and one beyond the limit.  The values of a choice are numbers   *)
(* that stand for texts when the choice is not numeric.                    *)
(***************************************************************************)
EXTENDS SearchSpace

Real(name, low, high, quantum, default) ==
    [name |-> name, kind |-> "real", low |-> low, high |-> high, quantum |-> quantum,
     default |-> default]

Integer(name, low, high, default) ==
    [name |-> name, kind |-> "integer", low |-> low, high |-> high, default |-> default]

Choice(name, values, numeric) ==
    [name |-> name, kind |-> "choice", values |-> values, numeric |-> numeric, default |-> <<>>]

Linked(name, source, factor, offset) ==
    [name |-> name, kind |-> "linked", source |-> source, factor |-> factor, offset |-> offset]

Singles ==
    {<<Real("x", low, low + span, quantum, <<>>)>> :
        low \in {-3, 0}, span \in 1 .. 7, quantum \in 1 .. 5}
    \union {<<Real("x", 0, 7, 3, <<7>>)>>, <<Real("x", 2, 2, 1, <<>>)>>,
            <<Real("x", 0, 7, 0, <<>>)>>}
    \union {<<Integer("x", -1, high, <<>>)>> : high \in -2 .. 5}
    \union {<<Integer("x", 0, span, <<span - 1>>)>> : span \in {8, 9, 20}}
    \union {<<Choice("x", <<5, 2, 4, 9>>, FALSE)>>, <<Choice("x", <<5, 2, 5>>, TRUE)>>}

Linkings ==
    { <<Linked("z", "y", 2, 1), Linked("y", "x", -1, 0), Integer("x", 0, 2, <<1>>)>>,
      <<Linked("z", "y", 1, 1), Linked("y", "z", 1, 0), Integer("x", 0, 2, <<>>)>>,
      <<Choice("x", <<7, 3>>, TRUE), Linked("y", "x", 2, 0), Real("z", 0, 5, 2, <<4>>)>>,
      <<Choice("x", <<7, 3>>, FALSE), Linked("y", "x", 2, 0)>>,
      <<Integer("x", 0, 2, <<>>), Linked("y", "w", 1, 0)>>,
      <<Real("x", -2, 2, 3, <<>>), Integer("y", 1, 3, <<3>>)>>,
      <<Real("x", 0, 1, 0, <<>>), Integer("y", 1, 3, <<>>)>>,
      <<Integer("x", 0, 3, <<>>), Choice("y", <<1, 2, 3, 4, 5>>, TRUE)>> }

MCDocuments == Singles \union Linkings

\* Finer than any interval that decodes to one value, and outside of 0 .. 1.
MCCoordinates(v) ==
    LET parts == IF v.kind = "choice" THEN 2 * Len(v.values)
                 ELSE Max({1, 4 * (v.high - v.low)})
    IN  {<<a, parts>> : a \in -1 .. parts + 1}
=============================================================================
