------------------------- MODULE MCTieredRateLimit --------------------------
(* TieredRateLimit for TLC: the invocations are interchangeable. *)
EXTENDS TieredRateLimit, TLC

Symmetry == Permutations(Requests)
=============================================================================
