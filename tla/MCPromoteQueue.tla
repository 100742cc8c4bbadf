---------------------------- MODULE MCPromoteQueue ----------------------------
(* TLC instances of PromoteQueue. *)
EXTENDS PromoteQueue

CONSTANTS whole, legacy, w1, w2, asset

OneLane == [j \in Jobs |-> asset]
=============================================================================
