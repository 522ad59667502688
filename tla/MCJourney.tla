----------------------------- MODULE MCJourney -----------------------------
(***************************************************************************)
(* Two instances of Journey in one run, told apart by `part': its          *)
(* beginning, with two commands at a time and the attempts that earlier    *)
(* releases left behind, whose constants the configuration gives; and its  *)
(* end, from write 3 to the capsule, one command at a time.                *)
(***************************************************************************)
EXTENDS Journey, TLC

CONSTANT Single  \* the command of the second instance

VARIABLE part

End == INSTANCE Journey WITH
  Active <- {"W2", "W5", "W4", "W6"}, Left <- {"observation of W5"},
  Begun <- {"W1", "W2", "W3"}, Process <- Single

MCInit ==
  \/ part = "beginning" /\ Init
  \/ part = "end" /\ End!Init

MCNext ==
  \/ part = "beginning" /\ Next /\ UNCHANGED part
  \/ part = "end" /\ End!Next /\ UNCHANGED part

MCSpec == MCInit /\ [][MCNext]_<<vars, part>>

\* The commands are alike.
Commands == Permutations(Process)

\* Why the evidence can be trusted, in both instances, and that it is true.
AllInductive == (IF part = "end" THEN End!Inductive ELSE Inductive) /\ EvidenceIsTrue

\* A message is posted once.  Writes 2, 4 and 5 become public only after the
\* operation before them, the claim after the lock and write 3 (not after the
\* reveal, which it does not look for); writes 1 and 3 stand apart.
PublicOnceInOrder == OneCopy /\ PublicInOrder
=============================================================================
