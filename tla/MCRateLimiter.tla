--------------------------- MODULE MCRateLimiter ---------------------------
(* Values for model checking RateLimiter. *)
EXTENDS RateLimiter, TLC

Symmetry == Permutations(Servers) \cup Permutations(Hits) \cup Permutations(Keys)
=============================================================================
