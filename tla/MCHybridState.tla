--------------------------- MODULE MCHybridState ---------------------------
(* A small pool for TLC: blocks are interchangeable, and so are requests. *)
EXTENDS HybridState, TLC

Symmetry == Permutations(Req) \cup Permutations(Block)

=============================================================================
