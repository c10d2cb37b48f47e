----------------------------- MODULE Preference -----------------------------
(***************************************************************************)
(* The total order of preference of biasweave/optimizers/ranking.py.  The  *)
(* hyperbolic tangent is any monotone function that saturates: beyond      *)
(* Saturation it tells no values apart.                                    *)
(***************************************************************************)
EXTENDS Dominance

CONSTANT Saturation

ASSUME SaturationAssumption == Saturation \in Nat

Squash(v) == Min({Max({v, -Saturation}), Saturation})

SumOfSquashed(vector) == SumFunction([i \in DOMAIN vector |-> Squash(vector[i])])

Lexicographic(a, b) ==
    \E i \in DOMAIN a \intersect DOMAIN b :
        a[i] < b[i] /\ \A j \in 1 .. i - 1 : a[j] = b[j]

\* Mutation: equal sums are not told apart by the vectors they come from.
PreferenceKey_NoVector(t) ==
    CASE t.status = "failed" -> <<2, t.id>>
      [] t.status # "failed" /\ ~t.feasible ->
            <<1, t.violation, t.worst, SumOfSquashed(t.vector), t.id>>
      [] OTHER -> <<0, 0, 0, SumOfSquashed(t.vector), t.id>>

\* preference_key(); failed trials have equal keys up to their ids.
PreferenceKey(t) ==
    CASE t.status = "failed" -> <<2, t.id>>
      [] t.status # "failed" /\ ~t.feasible ->
            <<1, t.violation, t.worst, SumOfSquashed(t.vector)>> \o t.vector \o <<t.id>>
      [] OTHER -> <<0, 0, 0, SumOfSquashed(t.vector)>> \o t.vector \o <<t.id>>

Preferred(left, right) ==
    \/ Dominates(left, right)
    \/ /\ ~Dominates(right, left)
       /\ Lexicographic(PreferenceKey(left), PreferenceKey(right))
=============================================================================
