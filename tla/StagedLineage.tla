--------------------------- MODULE StagedLineage ---------------------------
(***************************************************************************)
(* What an execution lineage promises: its operations become public one at *)
(* a time and in order, and a completed transcript is sealed only when all *)
(* of them are public.                                                     *)
(***************************************************************************)
EXTENDS Naturals

CONSTANT Length   \* the number of operations of the lineage

VARIABLES reached,  \* the operations that have become public
          sealed    \* whether the transcript was declared complete

stagedVars == <<reached, sealed>>

StagedInit == reached = {} /\ sealed = FALSE

Publish == \E o \in (1 .. Length) \ reached :
  1 .. o - 1 \subseteq reached /\ reached' = reached \cup {o} /\ UNCHANGED sealed

Seal == reached = 1 .. Length /\ sealed' = TRUE /\ UNCHANGED reached

StagedSpec == StagedInit /\ [][Publish \/ Seal]_stagedVars
=============================================================================
