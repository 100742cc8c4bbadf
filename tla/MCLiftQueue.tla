---------------------------- MODULE MCLiftQueue ----------------------------
(* The lift queue with an asset that is created and one that is updated.   *)
EXTENDS LiftQueue
CONSTANTS created, updated, w1, w2

OneEach == [a \in Assets |-> 1]
ResubmitCreated == [a \in Assets |-> IF a = created THEN 2 ELSE 1]
=============================================================================
