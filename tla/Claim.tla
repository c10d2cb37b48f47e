------------------------------- MODULE Claim --------------------------------
(***************************************************************************)
(* What a writer claim promises the code that runs under it: a lock whose  *)
(* holder may leave it abandoned.  Nobody takes an abandoned claim over;   *)
(* only an operator removes it.  Checkpoint uses its claim this way.       *)
(***************************************************************************)
VARIABLE claim

ClaimInit == claim = "free"

Acquire == claim = "free" /\ claim' = "held"
Release == claim = "held" /\ claim' = "free"
Abandon == claim = "held" /\ claim' = "abandoned"
Clear   == claim = "abandoned" /\ claim' = "free"

ClaimNext == Acquire \/ Release \/ Abandon \/ Clear

ClaimSpec == ClaimInit /\ [][ClaimNext]_claim
=============================================================================
