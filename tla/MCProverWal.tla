---------------------------- MODULE MCProverWal ----------------------------
(* TLC instance of ProverWal. *)
EXTENDS ProverWal
=============================================================================
