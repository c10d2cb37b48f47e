--------------------------- MODULE MCWriterClaim ----------------------------
(***************************************************************************)
(* Three claim objects and one file identity more than a claim needs at    *)
(* once: a new file may reuse the identity of a removed one, or not.       *)
(***************************************************************************)
EXTENDS WriterClaim
=============================================================================
