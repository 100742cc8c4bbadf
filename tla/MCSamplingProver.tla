-------------------------- MODULE MCSamplingProver --------------------------
(* TLC instances of SamplingProver. *)
EXTENDS SamplingProver

ShortAndLong == {2, 4}
OneDuration == {2}
=============================================================================
