------------------------------ MODULE MCRouter ------------------------------
(* Instances of Router for TLC. *)
EXTENDS Router, TLC

CONSTANTS c1, c2

\* Two clients whose buckets lie in different shards.
Apart == (c1 :> 1) @@ (c2 :> 2)

\* The requests are interchangeable, and so are the cache keys.
RouterSymmetry == Permutations(Requests) \cup Permutations(Keys)
=============================================================================
