----------------------------- MODULE MCDealHub -----------------------------
(***************************************************************************)
(* Finite instances of DealHub: single steps, and a rail step followed by  *)
(* the signed step that waits for it.                                      *)
(***************************************************************************)
EXTENDS DealHub, TLC

RailThenReveal == <<"RAIL_LOCK", "REVEAL">>
LockOnly == <<"LOCK">>
RailOnly == <<"RAIL_LOCK">>

\* A bound of the runs: after a crash one request at a time is followed.
LoneAfterCrash ==
  crashes > 0 => \A h, g \in Handler : pc[h] # "idle" /\ pc[g] # "idle" => h = g

Symmetry == Permutations(Handler)
=============================================================================
