------------------------------ MODULE MCFsTier ------------------------------
(* A small store for TLC: keys are interchangeable. *)
EXTENDS FsTier, TLC

Symmetry == Permutations(Key)

=============================================================================
