------------------------------ MODULE Rounding ------------------------------
(***************************************************************************)
(* Python's round() and math.ceil() of a fraction a / b, b > 0.            *)
(***************************************************************************)
EXTENDS Integers

\* round(): to the nearest integer, and to the even one of two.
Rounded(a, b) ==
    LET quotient == a \div b
        twice == 2 * (a % b)
    IN  IF twice > b \/ (twice = b /\ quotient % 2 = 1) THEN quotient + 1 ELSE quotient

Ceiling(a, b) == -((-a) \div b)
=============================================================================
