---------------------------- MODULE MCAtomicWrite ---------------------------
(***************************************************************************)
(* A few targets, each present or absent at the start, with and without    *)
(* force.                                                                  *)
(***************************************************************************)
EXTENDS AtomicWrite
=============================================================================
