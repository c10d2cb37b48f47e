------------------------- MODULE MCCommandEvaluator -------------------------
(***************************************************************************)
(* An answer as large as stdout's limit, of two chunks that a pipe cannot   *)
(* hold together, and a limit of zero chunks on stderr.                    *)
(***************************************************************************)
EXTENDS CommandEvaluator
=============================================================================
