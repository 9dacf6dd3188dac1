----------------------------- MODULE MCMobileApp -----------------------------
(* The runs a user asks for are interchangeable. *)
EXTENDS MobileApp, TLC

Symmetry == Permutations(RunIds)
=============================================================================
