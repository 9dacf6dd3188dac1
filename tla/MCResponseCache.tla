-------------------------- MODULE MCResponseCache --------------------------
(* Values for model checking ResponseCache. *)
EXTENDS ResponseCache, TLC

Symmetry == Permutations(Servers) \cup Permutations(Readers) \cup Permutations(Uploads)
=============================================================================
