--------------------------- MODULE MCUpstreamPool ---------------------------
(* Instances of UpstreamPool for TLC. *)
EXTENDS UpstreamPool, TLC

\* The requests are interchangeable.
RequestSymmetry == Permutations(Requests)
=============================================================================
