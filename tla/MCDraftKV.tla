----------------------------- MODULE MCDraftKV -----------------------------
(* Instances of DraftKV for TLC. The first two configurations are the two  *)
(* modes of the ingest with a draft model that never reaches its limit,    *)
(* the third reaches it with prefix caching on; Capped reaches it with     *)
(* deferred zero-width steps.                                              *)
EXTENDS DraftKV, TLC

Symmetry == Permutations(Req)

Covered == {[deferred |-> TRUE, limit |-> 50], [deferred |-> FALSE, limit |-> 50],
            [deferred |-> FALSE, limit |-> 4]}
Cached == {[deferred |-> FALSE, limit |-> 50]}
Capped == {[deferred |-> TRUE, limit |-> 6]}

=============================================================================
