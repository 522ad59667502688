--------------------------- MODULE MCW2Publication ---------------------------
(***************************************************************************)
(* Finite instances of W2Publication.                                      *)
(***************************************************************************)
EXTENDS W2Publication, TLC

Symmetry == Permutations(Caller)
=============================================================================
