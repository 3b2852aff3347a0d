-------------------------- MODULE MCDecodeRunner --------------------------
(* Instance of DecodeRunner for TLC: requests are interchangeable model    *)
(* values, which symmetry exploits in the runs that check safety only.     *)
EXTENDS DecodeRunner, TLC

Symmetry == Permutations(Req)
===========================================================================
