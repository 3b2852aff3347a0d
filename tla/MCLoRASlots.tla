---------------------------- MODULE MCLoRASlots ----------------------------
(* Three adapters that compete for two slots, or two for a single one. *)
EXTENDS LoRASlots
=============================================================================
