----------------------------- MODULE MCLineage -----------------------------
(* A small lineage for TLC. *)
EXTENDS Lineage, TLC

Rails == <<"OFFER", "RAIL_LOCK", "RAIL_CLAIM">>
Commands == Permutations(Process)
=============================================================================
