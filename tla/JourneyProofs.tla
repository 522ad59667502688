--------------------------- MODULE JourneyProofs ---------------------------
(***************************************************************************)
(* That the evidence of the first production journey can be trusted, for   *)
(* any operations worked on, anything that earlier releases left behind    *)
(* and any number of commands.                                             *)
(***************************************************************************)
EXTENDS Journey, TLAPS

-----------------------------------------------------------------------------
(***************************************************************************)
(* The operations and what depends on what.                                *)
(***************************************************************************)
LEMMA OperationFacts ==
  /\ Operation = {"W1", "W2", "W3", "W4", "W5", "W6"}
  /\ SignedOps = {"W1", "W2", "W3", "W4"}
  /\ RailOps \subseteq Operation /\ SignedOps \subseteq Operation
<1>1. Operation = {"W1", "W2", "W3", "W4", "W5", "W6"}
  <2>1. Len(Order) = 6 /\ Order[1] = "W1" /\ Order[2] = "W2" /\ Order[3] = "W3"
        /\ Order[4] = "W5" /\ Order[5] = "W4" /\ Order[6] = "W6"
    BY DEF Order
  <2>2. 1 .. 6 = {1, 2, 3, 4, 5, 6}
    OBVIOUS
  <2>3. QED
    BY <2>1, <2>2 DEF Operation
<1>2. QED
  BY <1>1 DEF SignedOps, RailOps

LEMMA PredecessorFacts ==
  /\ Predecessor("W2") = "W1" /\ Predecessor("W3") = "W2" /\ Predecessor("W5") = "W3"
  /\ Predecessor("W4") = "W5" /\ Predecessor("W6") = "W4"
<1> DEFINE Before2(d, o) == \E i \in 1 .. Len(Order) - 1 : Order[i] = d /\ Order[i + 1] = o
<1>1. \A d, o : Before2(d, o) <=>
         <<d, o>> \in {<<"W1", "W2">>, <<"W2", "W3">>, <<"W3", "W5">>, <<"W5", "W4">>, <<"W4", "W6">>}
  <2>1. Len(Order) = 6 /\ Order[1] = "W1" /\ Order[2] = "W2" /\ Order[3] = "W3"
        /\ Order[4] = "W5" /\ Order[5] = "W4" /\ Order[6] = "W6"
    BY DEF Order
  <2>2. 1 .. Len(Order) - 1 = {1, 2, 3, 4, 5}
    BY <2>1
  <2>3. 1 + 1 = 2 /\ 2 + 1 = 3 /\ 3 + 1 = 4 /\ 4 + 1 = 5 /\ 5 + 1 = 6
    OBVIOUS
  <2>4. QED
    BY <2>1, <2>2, <2>3
<1>2. \A o : Predecessor(o) = CHOOSE d \in Operation : Before2(d, o)
  BY DEF Predecessor
<1> HIDE DEF Before2
<1>3. ASSUME NEW d \in Operation, NEW o, Before2(d, o) PROVE Predecessor(o) = d
  BY <1>1, <1>2, <1>3
<1>4. QED
  BY <1>1, <1>3, OperationFacts

\* An attempt, and what it is about.
LEMMA AttemptFacts ==
  /\ Posts \subseteq Attempt
  /\ \A a \in Attempt : a[1] \in Operation /\ a = <<a[1], a[2]>>
  /\ \A a \in Attempt : a[2] = "SIGN" \/ a \in Posts
  /\ \A a \in Posts : (a[2] = "WRITE" <=> a[1] \in RailOps) /\ (a[2] = "SUBMIT" <=> a[1] \in SignedOps)
  /\ \A o \in SignedOps : <<o, "SUBMIT">> \in Posts /\ <<o, "SIGN">> \in Attempt
  /\ \A o \in RailOps : <<o, "WRITE">> \in Posts
  BY OperationFacts DEF Posts, Attempt, RailOps

\* The files of the operations, and the capsule beside them.
LEMMA FileFacts ==
  /\ \A o \in Operation, k \in Kinds : <<o, k>> \in File /\ <<o, k>> # Capsule
  /\ Capsule \in File
  BY OperationFacts DEF File, Capsule, Kinds

\* Which files are created for good, and which are replaced.
LEMMA ExclusiveFacts ==
  /\ Exclusive \subseteq File /\ Capsule \in Exclusive
  /\ \A o \in RailOps, k \in {"receipt", "production"} : <<o, k>> \in Exclusive
  /\ <<"W5", "reconciliation">> \in Exclusive
  /\ \A o \in Operation, k \in {"pending", "result", "observation"} : <<o, k>> \in File \ Exclusive
  /\ <<"W3", "reconciliation">> \in File \ Exclusive
  /\ \A o \in SignedOps : <<o, "production">> \in File \ Exclusive
  /\ \A o \in Operation, k \in {"receipt", "production"} : <<o, k>> \in File
  BY OperationFacts DEF File, Capsule, Kinds, Exclusive, RailOps

-----------------------------------------------------------------------------
(***************************************************************************)
(* What a step changes.                                                    *)
(***************************************************************************)
\* The files that are created for good: a step leaves them alone, creates one
\* that is missing, or completes the one its command has created.
LeavesAlone ==
  /\ disk' \in [File -> Content]
  /\ \A f \in Exclusive : disk'[f] = disk[f]
  /\ \A o \in Operation :
       disk'[<<o, "observation">>] = "OBSERVED_PUBLIC"
         => disk[<<o, "observation">>] = "OBSERVED_PUBLIC" \/ o \in taken
  /\ \A o \in SignedOps : disk'[<<o, "production">>] = disk[<<o, "production">>]
  /\ \A p \in Process : proc'[p].pc = "WRITING" => proc'[p] = proc[p]
Creates(p, f, c) ==
  /\ Founded(f, c) /\ disk[f] = "missing" /\ disk' = [disk EXCEPT ![f] = "torn"]
  /\ proc' = [proc EXCEPT ![p] = [Idle EXCEPT !.pc = "WRITING", !.file = f, !.says = c]]
Completes(p) ==
  /\ proc[p].pc = "WRITING"
  /\ disk' = [disk EXCEPT ![proc[p].file] = proc[p].says]
  /\ proc' = [proc EXCEPT ![p] = Idle]

LEMMA WriterCases ==
  ASSUME Inductive, Next
  PROVE  \/ LeavesAlone
         \/ \E p \in Process : (\E f \in Exclusive, c \in Content : Creates(p, f, c)) \/ Completes(p)
<1> DEFINE Cases == \/ LeavesAlone
         \/ \E p \in Process : (\E f \in Exclusive, c \in Content : Creates(p, f, c)) \/ Completes(p)
           Quiet == \A p \in Process : proc'[p].pc = "WRITING" => proc'[p] = proc[p]
<1>1. /\ disk \in [File -> Content] /\ proc \in [Process -> Command]
      /\ EvidenceFollowsVenue /\ EvidenceIsTrue /\ CommandsInOrder
  BY DEF Inductive, TypeOK
<1>2. ASSUME NEW p \in Process, NEW e, Goes(p, e), e.pc # "WRITING" PROVE Quiet
  <2>1. \A q \in Process : proc'[q] = IF q = p THEN e ELSE proc[q]
    BY <1>1, <1>2 DEF Goes
  <2>2. QED
    BY <1>2, <2>1
<1>3. ASSUME disk' = disk, Quiet PROVE LeavesAlone
  BY <1>1, <1>3 DEF LeavesAlone
<1>4. ASSUME NEW f \in File \ Exclusive, NEW c \in Content, Saved(f, c), Quiet,
             f[2] # "production", f[2] = "observation" /\ c = "OBSERVED_PUBLIC" => f[1] \in taken
      PROVE  LeavesAlone
  <2>1. disk' \in [File -> Content] /\ \A g \in File : disk'[g] = IF g = f THEN c ELSE disk[g]
    BY <1>1, <1>4 DEF Saved
  <2>2. \A g \in Exclusive : disk'[g] = disk[g]
    BY <1>4, <2>1, ExclusiveFacts
  <2>3. ASSUME NEW o \in Operation, disk'[<<o, "observation">>] = "OBSERVED_PUBLIC"
        PROVE  disk[<<o, "observation">>] = "OBSERVED_PUBLIC" \/ o \in taken
    <3>1. CASE f = <<o, "observation">>
      <4>1. f[1] = o /\ f[2] = "observation" /\ c = "OBSERVED_PUBLIC"
        BY <2>1, <2>3, <3>1
      <4>2. QED
        BY <1>4, <4>1
    <3>2. CASE f # <<o, "observation">>
      BY <2>1, <2>3, <3>2, ExclusiveFacts
    <3>3. QED
      BY <3>1, <3>2
  <2>4. ASSUME NEW o \in SignedOps PROVE disk'[<<o, "production">>] = disk[<<o, "production">>]
    BY <1>4, <2>1, ExclusiveFacts
  <2>5. QED
    BY <1>4, <2>1, <2>2, <2>3, <2>4 DEF LeavesAlone
<1>5. Idle.pc = "IDLE"
  BY DEF Idle
<1>6. ASSUME NEW p \in Process, NEW f \in Exclusive, NEW c \in Content, Founded(f, c), Created(p, f, c)
      PROVE  Cases
  <2>1. CASE disk[f] = "missing"
    BY <1>6, <2>1 DEF Created, Creates, Saved, Goes
  <2>2. CASE disk[f] # "missing"
    BY <1>2, <1>3, <1>5, <1>6, <2>2 DEF Created
  <2>3. QED
    BY <2>1, <2>2
<1>7. ASSUME NEW p \in Process, Start(p) \/ Approve(p) \/ ObserveRoom(p) \/ ObserveExport(p)
                                \/ RailRead(p) \/ Stop(p)
      PROVE  LeavesAlone
  <2>1. proc[p] \in Command /\ disk' = disk
    BY <1>1, <1>7 DEF Start, Approve, ObserveRoom, ObserveExport, RailRead, Stop
  <2>2. \A a, s : [Idle EXCEPT !.pc = "PROMPT", !.att = a, !.seen = s].pc # "WRITING"
    BY DEF Idle
  <2>3. \A a, s : [Idle EXCEPT !.pc = "SAVING", !.att = a, !.seen = s].pc # "WRITING"
    BY DEF Idle
  <2>4. \A a : [Idle EXCEPT !.pc = "SAVING", !.att = a, !.found = TRUE].pc # "WRITING"
               /\ [Idle EXCEPT !.pc = "EXPORT", !.att = a].pc # "WRITING"
    BY DEF Idle
  <2>5. [proc[p] EXCEPT !.pc = "CALLING"].pc # "WRITING"
    BY <2>1 DEF Command
  <2>6. \A x : [proc[p] EXCEPT !.pc = "SAVING", !.found = x].pc # "WRITING"
    BY <2>1 DEF Command
  <2>7. \E e : Goes(p, e) /\ e.pc # "WRITING"
    <3>1. CASE Start(p)
      BY <2>2, <3>1 DEF Start
    <3>2. CASE Approve(p)
      BY <2>5, <3>2 DEF Approve
    <3>3. CASE ObserveRoom(p)
      BY <2>4, <3>3 DEF ObserveRoom
    <3>4. CASE ObserveExport(p)
      BY <2>6, <3>4 DEF ObserveExport
    <3>5. CASE RailRead(p)
      BY <2>3, <3>5 DEF RailRead
    <3>6. CASE Stop(p)
      BY <1>5, <3>6 DEF Stop
    <3>7. QED
      BY <1>7, <3>1, <3>2, <3>3, <3>4, <3>5, <3>6
  <2>8. QED
    BY <1>2, <1>3, <2>1, <2>7
<1>8. ASSUME NEW p \in Process, Signed(p) PROVE LeavesAlone
  <2>1. proc[p].att[1] \in Operation /\ Quiet
    BY <1>1, <1>2, <1>5, <1>8, AttemptFacts DEF Signed, CommandsInOrder
  <2>2. QED
    BY <1>4, <1>8, <2>1, ExclusiveFacts DEF Signed, Content
<1>9. ASSUME NEW p \in Process, Answered(p) PROVE Cases
  <2> DEFINE o == proc[p].att[1]
  <2>1. proc[p].att \in Posts /\ o \in Operation
    BY <1>1, <1>9, AttemptFacts DEF Answered, CommandsInOrder
  <2>2. PICK status \in Statuses(net[proc[p].att]) :
           IF proc[p].att[2] = "WRITE" /\ Confirms(status) THEN Created(p, <<o, "receipt">>, "written")
           ELSE /\ Goes(p, Idle)
                /\ IF proc[p].att[2] = "SUBMIT" THEN Saved(<<o, "result">>, classifyResponse(status))
                   ELSE UNCHANGED disk
    BY <1>9 DEF Answered
  <2>3. CASE proc[p].att[2] = "WRITE" /\ Confirms(status)
    <3>1. net[proc[p].att] = "applied"
      BY <2>3 DEF Confirms, Statuses
    <3>2. o \in RailOps /\ o \in taken
      BY <1>1, <2>1, <2>3, <3>1, AttemptFacts DEF EvidenceFollowsVenue
    <3>3. Founded(<<o, "receipt">>, "written") /\ <<o, "receipt">> \in Exclusive
      BY <2>1, <3>2, ExclusiveFacts, FileFacts DEF Founded, Kinds
    <3>4. QED
      BY <1>6, <2>2, <2>3, <3>3 DEF Content
  <2>4. CASE ~(proc[p].att[2] = "WRITE" /\ Confirms(status))
    <3>1. Goes(p, Idle) /\ Quiet
      BY <1>2, <1>5, <2>2, <2>4
    <3>2. classifyResponse(status) \in Content
      BY DEF classifyResponse, Content
    <3>3. CASE proc[p].att[2] = "SUBMIT"
      BY <1>4, <2>1, <2>2, <2>4, <3>1, <3>2, <3>3, ExclusiveFacts
    <3>4. CASE proc[p].att[2] # "SUBMIT"
      BY <1>3, <2>2, <2>4, <3>1, <3>4
    <3>5. QED
      BY <3>3, <3>4
  <2>5. QED
    BY <2>3, <2>4
<1>10. ASSUME NEW p \in Process, ObserveSave(p) PROVE LeavesAlone
  <2> DEFINE o == proc[p].att[1]
  <2>1. /\ o \in SignedOps /\ o \in Operation /\ proc[p].att = <<o, "OBSERVE">>
        /\ proc[p].pc = "SAVING" /\ Quiet
    BY <1>1, <1>2, <1>5, <1>10, OperationFacts DEF ObserveSave, CommandsInOrder
  <2>2. Saved(<<o, "observation">>, Observed(o, proc[p].found))
    BY <1>10 DEF ObserveSave
  <2>3. Observed(o, proc[p].found) \in Content
    BY DEF Observed, Content
  <2>4. Observed(o, proc[p].found) = "OBSERVED_PUBLIC" => proc[p].found
    BY DEF Observed
  <2>5. Observed(o, proc[p].found) = "OBSERVED_PUBLIC" => o \in taken
    BY <1>1, <2>1, <2>4 DEF EvidenceFollowsVenue
  <2>6. QED
    BY <1>4, <2>1, <2>2, <2>3, <2>5, ExclusiveFacts
<1>11. ASSUME NEW p \in Process, RailSave(p) PROVE Cases
  <2> DEFINE o == proc[p].att[1]
             c == RailClassified(o, proc[p].seen)
  <2>1. o \in RailOps /\ Created(p, <<o, "production">>, c)
    BY <1>11 DEF RailSave
  <2>2. c \in Content \ {"missing", "torn"}
    BY DEF RailClassified, Content
  <2>3. c = "OBSERVED_PUBLIC" => disk[<<o, "receipt">>] = "written"
    BY DEF RailClassified
  <2>4. c = "OBSERVED_PUBLIC" => o \in taken
    BY <1>1, <2>1, <2>3 DEF EvidenceFollowsVenue
  <2> HIDE DEF c
  <2>5. <<o, "production">> # Capsule /\ <<o, "production">> \in Exclusive
    BY <2>1, FileFacts, ExclusiveFacts, OperationFacts DEF Kinds
  <2>6. Founded(<<o, "production">>, c)
    BY <2>2, <2>4, <2>5 DEF Founded
  <2>7. QED
    BY <1>6, <2>1, <2>2, <2>5, <2>6
<1>12. ASSUME NEW p \in Process, QuarantineRail(p) PROVE Cases
  <2>1. <<"W5", "reconciliation">> # Capsule
    BY FileFacts, OperationFacts DEF Kinds
  <2>2. Founded(<<"W5", "reconciliation">>, "written")
    BY <2>1, ExclusiveFacts DEF Founded
  <2>3. QED
    BY <1>6, <1>12, <2>2, ExclusiveFacts DEF QuarantineRail, Content
<1>13. ASSUME NEW p \in Process, Finalize(p) PROVE Cases
  <2>1. Operation \ {"W2"} \subseteq taken /\ \A o \in RailOps : RailObserved(o)
    BY <1>1, <1>13, OperationFacts DEF Finalize, Complete, RailObserved, RailOps, EvidenceIsTrue
  <2>2. Founded(Capsule, "written")
    BY <2>1, ExclusiveFacts DEF Founded, Capsule
  <2>3. QED
    BY <1>6, <1>13, <2>2, ExclusiveFacts DEF Finalize, Content
<1>14. ASSUME NEW p \in Process, WriteFile(p) PROVE Cases
  BY <1>14 DEF WriteFile, Completes, Saved, Goes
<1>15. ASSUME proc' = proc, disk' = disk PROVE LeavesAlone
  BY <1>3, <1>15
<1>16. ASSUME ReconcileWrite3 PROVE LeavesAlone
  BY <1>4, <1>16, ExclusiveFacts DEF ReconcileWrite3, Content
<1>17. ASSUME NEW o \in {"W1", "W5"}, SaveByHand(o) PROVE LeavesAlone
  <2>1. o \in taken
    BY <1>1, <1>17, OperationFacts DEF SaveByHand, EvidenceFollowsVenue, EvidenceIsTrue
  <2>2. QED
    BY <1>4, <1>17, <2>1, ExclusiveFacts, OperationFacts DEF SaveByHand, Content
<1> HIDE DEF Cases
<1>18. LeavesAlone => Cases
  BY DEF Cases
<1>19. \/ proc' = proc /\ disk' = disk
       \/ \E p \in Process :
            \/ Start(p) \/ Approve(p) \/ Signed(p) \/ Answered(p) \/ ObserveRoom(p)
            \/ ObserveExport(p) \/ ObserveSave(p) \/ RailRead(p) \/ RailSave(p)
            \/ QuarantineRail(p) \/ Finalize(p) \/ WriteFile(p) \/ Stop(p)
       \/ ReconcileWrite3 \/ \E o \in {"W1", "W5"} : SaveByHand(o)
  BY DEF Next, Arrive, Evict, ForeignWrite
<1>20. Cases
  BY <1>7, <1>8, <1>9, <1>10, <1>11, <1>12, <1>13, <1>14, <1>15, <1>16, <1>17, <1>18, <1>19
<1>21. QED
  BY <1>20 DEF Cases

\* A file becomes what it was or what one command writes into it.
LEMMA DiskStep ==
  ASSUME Inductive, Next
  PROVE  /\ disk' \in [File -> Content]
         /\ \A o \in Operation :
              disk'[<<o, "observation">>] = "OBSERVED_PUBLIC"
                => disk[<<o, "observation">>] = "OBSERVED_PUBLIC" \/ o \in taken
         /\ \A o \in RailOps :
              /\ disk'[<<o, "receipt">>] = "written" => o \in taken
              /\ disk'[<<o, "production">>] = "OBSERVED_PUBLIC" => o \in taken
         /\ \A o \in SignedOps :
              disk'[<<o, "production">>] = disk[<<o, "production">>]
         /\ disk'[Capsule] = "written" => disk[Capsule] = "written" \/ Founded(Capsule, "written")
         /\ \A f \in Exclusive : disk[f] \notin {"missing", "torn"} => disk'[f] = disk[f]
<1>1. /\ disk \in [File -> Content] /\ proc \in [Process -> Command]
      /\ EvidenceFollowsVenue /\ EvidenceIsTrue /\ WritersInOrder
  BY DEF Inductive, TypeOK
<1>2. CASE LeavesAlone
  <2>1. \A o \in RailOps : /\ disk'[<<o, "receipt">>] = disk[<<o, "receipt">>]
                           /\ disk'[<<o, "production">>] = disk[<<o, "production">>]
    BY <1>2, ExclusiveFacts DEF LeavesAlone
  <2>2. QED
    BY <1>1, <1>2, <2>1, ExclusiveFacts, OperationFacts
      DEF LeavesAlone, EvidenceFollowsVenue, EvidenceIsTrue
\* One file of the rail, or the capsule, becomes torn or what its writer says.
<1>3. ASSUME NEW f \in Exclusive, NEW c \in Content, disk' = [disk EXCEPT ![f] = c],
             disk[f] \in {"missing", "torn"}, c = "torn" \/ Founded(f, c)
      PROVE  /\ disk' \in [File -> Content]
             /\ \A o \in Operation :
                  disk'[<<o, "observation">>] = "OBSERVED_PUBLIC"
                    => disk[<<o, "observation">>] = "OBSERVED_PUBLIC" \/ o \in taken
             /\ \A o \in RailOps :
                  /\ disk'[<<o, "receipt">>] = "written" => o \in taken
                  /\ disk'[<<o, "production">>] = "OBSERVED_PUBLIC" => o \in taken
             /\ \A o \in SignedOps :
                  disk'[<<o, "production">>] = disk[<<o, "production">>]
             /\ disk'[Capsule] = "written" => disk[Capsule] = "written" \/ Founded(Capsule, "written")
             /\ \A g \in Exclusive : disk[g] \notin {"missing", "torn"} => disk'[g] = disk[g]
  <2>1. disk' \in [File -> Content] /\ \A g \in File : disk'[g] = IF g = f THEN c ELSE disk[g]
    BY <1>1, <1>3, ExclusiveFacts
  <2>2. \A o \in Operation : disk'[<<o, "observation">>] = disk[<<o, "observation">>]
    BY <2>1, ExclusiveFacts
  <2>3. ASSUME NEW o \in RailOps, disk'[<<o, "receipt">>] = "written" PROVE o \in taken
    <3>1. CASE f = <<o, "receipt">>
      BY <1>3, <2>1, <2>3, <3>1, ExclusiveFacts DEF Founded
    <3>2. CASE f # <<o, "receipt">>
      BY <1>1, <2>1, <2>3, <3>2, ExclusiveFacts, OperationFacts DEF EvidenceFollowsVenue
    <3>3. QED
      BY <3>1, <3>2
  <2>4. ASSUME NEW o \in RailOps, disk'[<<o, "production">>] = "OBSERVED_PUBLIC" PROVE o \in taken
    <3>1. CASE f = <<o, "production">>
      BY <1>3, <2>1, <2>4, <3>1, ExclusiveFacts DEF Founded
    <3>2. CASE f # <<o, "production">>
      BY <1>1, <2>1, <2>4, <3>2, ExclusiveFacts, OperationFacts DEF EvidenceIsTrue
    <3>3. QED
      BY <3>1, <3>2
  <2>5. \A o \in SignedOps : disk'[<<o, "production">>] = disk[<<o, "production">>]
    BY <2>1, ExclusiveFacts
  <2>6. disk'[Capsule] = "written" => disk[Capsule] = "written" \/ Founded(Capsule, "written")
    BY <1>3, <2>1, ExclusiveFacts
  <2>7. \A g \in Exclusive : disk[g] \notin {"missing", "torn"} => disk'[g] = disk[g]
    BY <1>3, <2>1, ExclusiveFacts
  <2>8. QED
    BY <2>1, <2>2, <2>3, <2>4, <2>5, <2>6, <2>7
<1>4. ASSUME NEW p \in Process, NEW f \in Exclusive, NEW c \in Content, Creates(p, f, c)
      PROVE  disk' = [disk EXCEPT ![f] = "torn"] /\ disk[f] = "missing" /\ "torn" \in Content
  BY <1>4 DEF Creates, Content
<1>5. ASSUME NEW p \in Process, Completes(p)
      PROVE  /\ disk' = [disk EXCEPT ![proc[p].file] = proc[p].says]
             /\ proc[p].file \in Exclusive /\ proc[p].says \in Content
             /\ disk[proc[p].file] = "torn" /\ Founded(proc[p].file, proc[p].says)
  <2>1. proc[p] \in Command /\ proc[p].pc = "WRITING"
    BY <1>1, <1>5 DEF Completes
  <2>2. disk[proc[p].file] = "torn" /\ Founded(proc[p].file, proc[p].says)
    BY <1>1, <2>1 DEF WritersInOrder
  <2>3. QED
    BY <1>5, <2>1, <2>2 DEF Completes, Command, Founded
<1>6. CASE \E p \in Process, f \in Exclusive, c \in Content : Creates(p, f, c)
  BY <1>3, <1>4, <1>6
<1>7. CASE \E p \in Process : Completes(p)
  BY <1>3, <1>5, <1>7
<1>8. QED
  BY <1>2, <1>6, <1>7, WriterCases

\* A file that its command has completed keeps what it says.
LEMMA RailObservedStays ==
  ASSUME Inductive, Next, NEW o \in RailOps, RailObserved(o)
  PROVE  RailObserved(o)'
  BY DiskStep, ExclusiveFacts DEF RailObserved

\* A prompt is new only for an attempt that is ready, and what a command saves
\* is what it was about to save or what it has just found.
LEMMA CommandStep ==
  ASSUME Inductive, Next
  PROVE  /\ proc' \in [Process -> Command]
         /\ \A p \in Process :
              /\ proc'[p].pc = "PROMPT" =>
                   \/ proc'[p] = proc[p]
                   \/ proc'[p].att \in Attempt /\ Ready(proc'[p].att)
              /\ proc'[p].pc = "CALLING" =>
                   proc'[p].att = proc[p].att /\ proc[p].pc \in {"PROMPT", "CALLING"}
              /\ proc'[p].pc = "EXPORT" =>
                   proc'[p] = proc[p] \/ proc'[p].att \in SignedOps \X {"OBSERVE"}
              /\ proc'[p].pc = "SAVING" =>
                   \/ proc'[p] = proc[p]
                   \/ /\ proc'[p].att \in Operation \X {"OBSERVE"}
                      /\ proc'[p].found /\ proc'[p].att[1] \in SignedOps
                           => copies[proc'[p].att[1]] > 0
<1> DEFINE Fine(c, d) ==
      /\ d \in Command
      /\ d.pc = "PROMPT" => d = c \/ (d.att \in Attempt /\ Ready(d.att))
      /\ d.pc = "CALLING" => d.att = c.att /\ c.pc \in {"PROMPT", "CALLING"}
      /\ d.pc = "EXPORT" => d = c \/ d.att \in SignedOps \X {"OBSERVE"}
      /\ d.pc = "SAVING" =>
           \/ d = c
           \/ /\ d.att \in Operation \X {"OBSERVE"}
              /\ d.found /\ d.att[1] \in SignedOps => copies[d.att[1]] > 0
<1> DEFINE AllFine == proc' \in [Process -> Command] /\ \A p \in Process : Fine(proc[p], proc'[p])
<1>1. proc \in [Process -> Command] /\ CommandsInOrder /\ note \in Notes
  BY DEF Inductive, TypeOK
<1>2. ASSUME NEW c \in Command PROVE Fine(c, c)
  OBVIOUS
<1>3. Idle \in Command /\ \A c : Fine(c, Idle)
  BY FileFacts DEF Idle, Command, Notes, Content
<1> HIDE DEF Fine
<1>4. ASSUME NEW p \in Process, NEW e, Goes(p, e), Fine(proc[p], e) PROVE AllFine
  <2>1. e \in Command
    BY <1>4 DEF Fine
  <2>2. \A q \in Process : proc[q] \in Command /\ proc'[q] = IF q = p THEN e ELSE proc[q]
    BY <1>1, <1>4 DEF Goes
  <2>3. QED
    BY <1>1, <1>2, <1>4, <2>1, <2>2 DEF Goes
<1>5. ASSUME proc' = proc PROVE AllFine
  BY <1>1, <1>2, <1>5
<1> HIDE DEF AllFine
<1>6. ASSUME NEW p \in Process, Goes(p, Idle) PROVE AllFine
  BY <1>3, <1>4, <1>6
<1>7. ASSUME NEW p \in Process, Start(p) PROVE AllFine
  <2>1. PICK a \in Attempt : Ready(a) /\ Goes(p, [Idle EXCEPT !.pc = "PROMPT", !.att = a, !.seen = note])
    BY <1>7 DEF Start
  <2> DEFINE e == [Idle EXCEPT !.pc = "PROMPT", !.att = a, !.seen = note]
  <2>2. e.pc = "PROMPT" /\ e.att = a /\ e \in Command
    BY <1>1, <1>3 DEF Idle, Command
  <2>3. Fine(proc[p], e)
    BY <2>1, <2>2 DEF Fine
  <2>4. QED
    BY <1>4, <2>1, <2>3
<1>8. ASSUME NEW p \in Process, Approve(p) PROVE AllFine
  <2> DEFINE e == [proc[p] EXCEPT !.pc = "CALLING"]
  <2>1. proc[p].pc = "PROMPT" /\ Goes(p, e)
    BY <1>8 DEF Approve
  <2>2. e \in Command /\ e.pc = "CALLING" /\ e.att = proc[p].att
    BY <1>1 DEF Command
  <2>3. Fine(proc[p], e)
    BY <2>1, <2>2 DEF Fine
  <2>4. QED
    BY <1>4, <2>1, <2>3
<1>9. ASSUME NEW p \in Process, ObserveRoom(p) PROVE AllFine
  <2>1. PICK o \in SignedOps :
          \/ copies[o] > 0
             /\ Goes(p, [Idle EXCEPT !.pc = "SAVING", !.att = <<o, "OBSERVE">>, !.found = TRUE])
          \/ Goes(p, [Idle EXCEPT !.pc = "EXPORT", !.att = <<o, "OBSERVE">>])
    BY <1>9 DEF ObserveRoom
  <2> DEFINE e == [Idle EXCEPT !.pc = "SAVING", !.att = <<o, "OBSERVE">>, !.found = TRUE]
             x == [Idle EXCEPT !.pc = "EXPORT", !.att = <<o, "OBSERVE">>]
  <2>2. o \in Operation /\ <<o, "OBSERVE">> \in Operation \X {"OBSERVE"}
        /\ <<o, "OBSERVE">> \in SignedOps \X {"OBSERVE"}
    BY OperationFacts
  <2>3. e \in Command /\ e.pc = "SAVING" /\ e.att = <<o, "OBSERVE">>
    BY <1>3, <2>2 DEF Idle, Command
  <2>4. x \in Command /\ x.pc = "EXPORT" /\ x.att = <<o, "OBSERVE">>
    BY <1>3, <2>2 DEF Idle, Command
  <2>5. copies[o] > 0 => Fine(proc[p], e)
    BY <2>2, <2>3 DEF Fine
  <2>6. Fine(proc[p], x)
    BY <2>2, <2>4 DEF Fine
  <2>7. QED
    BY <1>4, <2>1, <2>5, <2>6
<1>10. ASSUME NEW p \in Process, ObserveExport(p) PROVE AllFine
  <2> DEFINE e == [proc[p] EXCEPT !.pc = "SAVING", !.found = copies[proc[p].att[1]] > 0]
  <2>1. proc[p].pc = "EXPORT" /\ Goes(p, e)
    BY <1>10 DEF ObserveExport
  <2>2. proc[p] \in Command /\ proc[p].att \in SignedOps \X {"OBSERVE"}
    BY <1>1, <2>1 DEF CommandsInOrder
  <2>3. (copies[proc[p].att[1]] > 0) \in BOOLEAN
    OBVIOUS
  <2>4. e \in Command /\ e.pc = "SAVING" /\ e.att = proc[p].att /\ e.found = (copies[e.att[1]] > 0)
    BY <2>2, <2>3 DEF Command
  <2>5. e.att \in Operation \X {"OBSERVE"}
    BY <2>2, <2>4, OperationFacts
  <2>6. Fine(proc[p], e)
    BY <2>4, <2>5 DEF Fine
  <2>7. QED
    BY <1>4, <2>1, <2>6
<1>11. ASSUME NEW p \in Process, RailRead(p) PROVE AllFine
  <2>1. PICK o \in RailOps, seen \in {note, "vacant"} :
          Goes(p, [Idle EXCEPT !.pc = "SAVING", !.att = <<o, "OBSERVE">>, !.seen = seen])
    BY <1>11 DEF RailRead
  <2> DEFINE e == [Idle EXCEPT !.pc = "SAVING", !.att = <<o, "OBSERVE">>, !.seen = seen]
  <2>2. seen \in Notes /\ <<o, "OBSERVE">> \in Operation \X {"OBSERVE"}
    BY <1>1, OperationFacts DEF Notes
  <2>3. e \in Command /\ e.pc = "SAVING" /\ e.att = <<o, "OBSERVE">> /\ e.found = FALSE
    BY <1>3, <2>2 DEF Idle, Command
  <2>4. Fine(proc[p], e)
    BY <2>2, <2>3 DEF Fine
  <2>5. QED
    BY <1>4, <2>1, <2>4
<1>12. ASSUME NEW p \in Process,
              Signed(p) \/ ObserveSave(p) \/ WriteFile(p) \/ Stop(p)
       PROVE  AllFine
  BY <1>6, <1>12 DEF Signed, ObserveSave, WriteFile, Stop
<1>16. ASSUME NEW p \in Process, NEW f \in Exclusive, NEW c \in Content, Created(p, f, c)
       PROVE  AllFine
  <2> DEFINE e == [Idle EXCEPT !.pc = "WRITING", !.file = f, !.says = c]
  <2>1. e \in Command /\ e.pc = "WRITING"
    BY <1>3, ExclusiveFacts DEF Idle, Command
  <2>2. Fine(proc[p], e)
    BY <2>1 DEF Fine
  <2>3. Goes(p, e) \/ Goes(p, Idle)
    BY <1>16 DEF Created
  <2>4. QED
    BY <1>4, <1>6, <2>2, <2>3
<1>17. ASSUME NEW p \in Process,
              Answered(p) \/ RailSave(p) \/ QuarantineRail(p) \/ Finalize(p)
       PROVE  AllFine
  <2>1. "written" \in Content /\ \A o, seen : RailClassified(o, seen) \in Content
    BY DEF RailClassified, Content
  <2>2. CASE Answered(p)
    <3>1. proc[p].att[2] = "WRITE" => proc[p].att[1] \in RailOps
      BY <1>1, <2>2, AttemptFacts DEF Answered, CommandsInOrder
    <3>2. \/ Goes(p, Idle)
          \/ proc[p].att[2] = "WRITE" /\ Created(p, <<proc[p].att[1], "receipt">>, "written")
      BY <2>2 DEF Answered
    <3>3. QED
      BY <1>6, <1>16, <2>1, <3>1, <3>2, ExclusiveFacts
  <2>3. CASE RailSave(p)
    BY <1>16, <2>1, <2>3, ExclusiveFacts DEF RailSave
  <2>4. CASE QuarantineRail(p) \/ Finalize(p)
    BY <1>16, <2>1, <2>4, ExclusiveFacts DEF QuarantineRail, Finalize
  <2>5. QED
    BY <1>17, <2>2, <2>3, <2>4
<1>13. \/ proc' = proc
       \/ \E p \in Process :
            \/ Start(p) \/ Approve(p) \/ Signed(p) \/ Answered(p) \/ ObserveRoom(p)
            \/ ObserveExport(p) \/ ObserveSave(p) \/ RailRead(p) \/ RailSave(p)
            \/ QuarantineRail(p) \/ Finalize(p) \/ WriteFile(p) \/ Stop(p)
  BY DEF Next, ReconcileWrite3, SaveByHand, Arrive, Evict, ForeignWrite
<1>14. AllFine
  BY <1>5, <1>7, <1>8, <1>9, <1>10, <1>11, <1>12, <1>13, <1>17
<1>15. QED
  BY <1>14 DEF AllFine, Fine

\* A request is sent by the approval of its prompt, and settled when it arrives.
LEMMA RequestStep ==
  ASSUME Inductive, Next
  PROVE  \/ UNCHANGED <<spent, net, copies, taken>>
         \/ \E p \in Process :
              /\ proc[p].pc = "PROMPT" /\ proc[p].att \in Attempt \ {<<"W3", "SUBMIT">>}
              /\ proc[p].att \notin spent /\ spent' = spent \cup {proc[p].att}
              /\ net' = IF proc[p].att[2] = "SIGN" THEN net
                        ELSE [net EXCEPT ![proc[p].att] = "flying"]
              /\ UNCHANGED <<copies, taken>>
         \/ \E a \in Posts : Arrive(a)
         \/ \E o \in SignedOps : Evict(o)
<1>1. ASSUME NEW p \in Process, Approve(p)
      PROVE  /\ proc[p].pc = "PROMPT" /\ proc[p].att \in Attempt \ {<<"W3", "SUBMIT">>}
             /\ proc[p].att \notin spent /\ spent' = spent \cup {proc[p].att}
             /\ net' = IF proc[p].att[2] = "SIGN" THEN net
                       ELSE [net EXCEPT ![proc[p].att] = "flying"]
             /\ UNCHANGED <<copies, taken>>
  BY <1>1 DEF Approve, Grant, Inductive, CommandsInOrder
<1>2. \/ UNCHANGED <<spent, net, copies, taken>>
      \/ \E p \in Process : Approve(p)
      \/ \E a \in Posts : Arrive(a)
      \/ \E o \in SignedOps : Evict(o)
  BY DEF Next, Start, Signed, Answered, ObserveRoom, ObserveExport, ObserveSave, RailRead,
         RailSave, WriteFile, Stop, ReconcileWrite3, QuarantineRail, Finalize, SaveByHand,
         ForeignWrite
<1>3. QED
  BY <1>1, <1>2

\* What the venue has taken it keeps.
LEMMA TakenGrows ==
  ASSUME Inductive, Next
  PROVE  taken \subseteq taken'
  BY RequestStep DEF Arrive, Evict

-----------------------------------------------------------------------------
(***************************************************************************)
(* The parts of the invariant, each over one step.                         *)
(***************************************************************************)
LEMMA TypeStep ==
  ASSUME Inductive, Next
  PROVE  TypeOK'
<1>1. TypeOK /\ OneCopy /\ PostsAccounted
  BY DEF Inductive
<1>2. disk' \in [File -> Content] /\ proc' \in [Process -> Command]
  BY DiskStep, CommandStep
<1>3. ASSUME NEW a \in Posts, Arrive(a)
      PROVE  /\ spent' \subseteq Attempt /\ net' \in [Posts -> {"unsent", "flying", "applied", "refused"}]
             /\ copies' \in [SignedOps -> 0 .. 2] /\ note' \in Notes /\ taken' \subseteq Operation
  <2>1. a[1] \in Operation /\ Expected(a[1]) \in Notes /\ (a[2] # "WRITE" => a[1] \in SignedOps)
    BY AttemptFacts, OperationFacts DEF Expected, Notes, Posts, Attempt
  <2>2. spent' \subseteq Attempt /\ taken' \subseteq Operation /\ note' \in Notes
    BY <1>1, <1>3, <2>1 DEF Arrive, TypeOK
  <2>3. net' \in [Posts -> {"unsent", "flying", "applied", "refused"}]
    BY <1>1, <1>3 DEF Arrive, TypeOK
  <2>4. copies \in [SignedOps -> 0 .. 1]
    BY <1>1 DEF TypeOK, OneCopy
  <2>5. \A o \in SignedOps : copies[o] + 1 \in 0 .. 2
    BY <2>4
  <2>6. ASSUME copies' = [copies EXCEPT ![a[1]] = @ + 1], a[1] \in SignedOps
        PROVE  copies' \in [SignedOps -> 0 .. 2]
    BY <1>1, <2>5, <2>6 DEF TypeOK
  <2>7. copies' = copies => copies' \in [SignedOps -> 0 .. 2]
    BY <1>1 DEF TypeOK
  <2>8. copies' \in [SignedOps -> 0 .. 2]
    BY <1>3, <2>1, <2>6, <2>7 DEF Arrive
  <2>9. QED
    BY <2>2, <2>3, <2>8
<1>4. ASSUME NEW o \in SignedOps, Evict(o)
      PROVE  /\ spent' \subseteq Attempt /\ net' \in [Posts -> {"unsent", "flying", "applied", "refused"}]
             /\ copies' \in [SignedOps -> 0 .. 2] /\ note' \in Notes /\ taken' \subseteq Operation
  BY <1>1, <1>4 DEF Evict, TypeOK
<1>5. ASSUME NEW p \in Process, proc[p].att \in Attempt, spent' = spent \cup {proc[p].att},
             net' = IF proc[p].att[2] = "SIGN" THEN net ELSE [net EXCEPT ![proc[p].att] = "flying"]
      PROVE  spent' \subseteq Attempt /\ net' \in [Posts -> {"unsent", "flying", "applied", "refused"}]
  <2>1. spent' \subseteq Attempt
    BY <1>1, <1>5 DEF TypeOK
  <2>2. net' \in [Posts -> {"unsent", "flying", "applied", "refused"}]
    BY <1>1, <1>5, AttemptFacts DEF TypeOK
  <2>3. QED
    BY <2>1, <2>2
<1>6. note' = note \/ note' \in Notes
  <2>1. ASSUME NEW a \in Posts, Arrive(a) PROVE note' \in Notes
    BY <1>3, <2>1
  <2>2. \/ note' = note \/ ForeignWrite \/ \E a \in Posts : Arrive(a)
    BY DEF Next, Start, Approve, Signed, Answered, ObserveRoom, ObserveExport, ObserveSave, RailRead,
           RailSave, WriteFile, Stop, ReconcileWrite3, QuarantineRail, Finalize, SaveByHand, Evict
  <2>3. QED
    BY <2>1, <2>2 DEF ForeignWrite
<1>7. note' \in Notes
  BY <1>1, <1>6 DEF TypeOK
<1>8. /\ spent' \subseteq Attempt /\ net' \in [Posts -> {"unsent", "flying", "applied", "refused"}]
      /\ copies' \in [SignedOps -> 0 .. 2] /\ taken' \subseteq Operation
  <2>1. CASE UNCHANGED <<spent, net, copies, taken>>
    BY <1>1, <2>1 DEF TypeOK
  <2>2. CASE \E p \in Process :
              /\ proc[p].att \in Attempt \ {<<"W3", "SUBMIT">>}
              /\ spent' = spent \cup {proc[p].att}
              /\ net' = IF proc[p].att[2] = "SIGN" THEN net
                        ELSE [net EXCEPT ![proc[p].att] = "flying"]
              /\ UNCHANGED <<copies, taken>>
    BY <1>1, <1>5, <2>2 DEF TypeOK
  <2>3. QED
    BY <1>3, <1>4, <2>1, <2>2, RequestStep
<1>9. QED
  BY <1>2, <1>7, <1>8 DEF TypeOK

LEMMA VenueStep ==
  ASSUME Inductive, Next
  PROVE  EvidenceFollowsVenue'
<1>1. TypeOK /\ EvidenceFollowsVenue /\ CommandsInOrder
  BY DEF Inductive
<1>2. ASSUME NEW o \in SignedOps, copies'[o] > 0 PROVE o \in taken'
  <2>1. ASSUME NEW a \in Posts, Arrive(a) PROVE o \in taken'
    <3>1. CASE a[2] # "WRITE" /\ copies' = [copies EXCEPT ![a[1]] = @ + 1] /\ taken' = taken \cup {a[1]}
      <4>1. o # a[1] => copies'[o] = copies[o]
        BY <1>1, <3>1 DEF TypeOK
      <4>2. QED
        BY <1>1, <1>2, <3>1, <4>1 DEF EvidenceFollowsVenue
    <3>2. CASE copies' = copies
      BY <1>1, <1>2, <3>2, TakenGrows DEF EvidenceFollowsVenue
    <3>3. QED
      BY <2>1, <3>1, <3>2 DEF Arrive
  <2>2. ASSUME NEW q \in SignedOps, Evict(q) PROVE o \in taken'
    <3>1. copies'[o] = IF o = q THEN 0 ELSE copies[o]
      BY <1>1, <2>2 DEF Evict, TypeOK
    <3>2. QED
      BY <1>1, <1>2, <3>1, TakenGrows DEF EvidenceFollowsVenue
  <2>3. CASE copies' = copies
    BY <1>1, <1>2, <2>3, TakenGrows DEF EvidenceFollowsVenue
  <2>4. QED
    BY <2>1, <2>2, <2>3, RequestStep
<1>3. ASSUME NEW o \in SignedOps, NEW p \in Process,
             proc'[p].pc = "SAVING", proc'[p].att = <<o, "OBSERVE">>, proc'[p].found
      PROVE  o \in taken'
  <2>1. proc'[p] = proc[p] \/ copies[o] > 0
    BY <1>3, CommandStep
  <2>2. QED
    BY <1>1, <1>3, <2>1, TakenGrows DEF EvidenceFollowsVenue
<1>4. ASSUME NEW o \in RailOps, disk'[<<o, "receipt">>] = "written" PROVE o \in taken'
  BY <1>4, DiskStep, TakenGrows
<1>5. ASSUME NEW a \in Posts, net'[a] = "applied" PROVE a[1] \in taken'
  <2>1. ASSUME NEW b \in Posts, Arrive(b) PROVE a[1] \in taken'
    <3>1. a # b => net'[a] = net[a]
      BY <1>1, <2>1 DEF Arrive, TypeOK
    <3>2. CASE net' = [net EXCEPT ![b] = "applied"] /\ taken' = taken \cup {b[1]}
      BY <1>1, <1>5, <3>1, <3>2 DEF EvidenceFollowsVenue
    <3>3. CASE net' = [net EXCEPT ![b] = "refused"]
      <4>1. a # b
        BY <1>1, <1>5, <3>3 DEF TypeOK
      <4>2. QED
        BY <1>1, <1>5, <3>1, <4>1, TakenGrows DEF EvidenceFollowsVenue
    <3>4. QED
      BY <2>1, <3>2, <3>3 DEF Arrive
  <2>2. ASSUME NEW p \in Process, proc[p].att \in Attempt,
               net' = IF proc[p].att[2] = "SIGN" THEN net ELSE [net EXCEPT ![proc[p].att] = "flying"]
        PROVE  a[1] \in taken'
    <3>1. net[a] = "applied"
      BY <1>1, <1>5, <2>2 DEF TypeOK
    <3>2. QED
      BY <1>1, <3>1, TakenGrows DEF EvidenceFollowsVenue
  <2>3. CASE net' = net
    BY <1>1, <1>5, <2>3, TakenGrows DEF EvidenceFollowsVenue
  <2>4. QED
    BY <2>1, <2>2, <2>3, RequestStep DEF Evict
<1>6. QED
  BY <1>2, <1>3, <1>4, <1>5 DEF EvidenceFollowsVenue

LEMMA EvidenceStep ==
  ASSUME Inductive, Next
  PROVE  EvidenceIsTrue'
<1>1. EvidenceIsTrue
  BY DEF Inductive
<1>2. ASSUME NEW o \in Operation,
             \/ disk'[<<o, "observation">>] = "OBSERVED_PUBLIC"
             \/ disk'[<<o, "production">>] = "OBSERVED_PUBLIC"
      PROVE  o \in taken
  BY <1>1, <1>2, DiskStep DEF EvidenceIsTrue, SignedOps
<1>3. QED
  BY <1>2, TakenGrows DEF EvidenceIsTrue

LEMMA ReadyFacts ==
  ASSUME Inductive, NEW a \in Posts, Ready(a)
  PROVE  /\ a # <<"W3", "SUBMIT">>
         /\ a \notin {<<"W1", "SUBMIT">>, <<"W6", "WRITE">>} => Predecessor(a[1]) \in taken
         /\ a = <<"W6", "WRITE">> => "W5" \in taken /\ RailObserved("W5")
<1>1. EvidenceIsTrue
  BY DEF Inductive
<1>2. a \in {<<"W1", "SUBMIT">>, <<"W2", "SUBMIT">>, <<"W3", "SUBMIT">>, <<"W4", "SUBMIT">>,
             <<"W5", "WRITE">>, <<"W6", "WRITE">>}
  BY OperationFacts DEF Posts, Attempt, RailOps
<1>3. CASE a = <<"W1", "SUBMIT">>
  BY <1>3
<1>4. CASE a = <<"W3", "SUBMIT">>
  BY <1>4 DEF Ready, SubmitReady, Eligible, Attempt3Eligible
<1>5. CASE a \in {<<"W2", "SUBMIT">>, <<"W4", "SUBMIT">>}
  <2>1. Dependency(a[1]) /\ a[1] \in {"W2", "W4"}
    <3>1. SubmitReady(a[1]) /\ a[1] \in {"W2", "W4"}
      BY <1>5 DEF Ready
    <3>2. QED
      BY <3>1 DEF SubmitReady, Eligible
  <2>2. disk[<<Predecessor(a[1]), "observation">>] = "OBSERVED_PUBLIC"
    BY <2>1 DEF Dependency
  <2>3. Predecessor(a[1]) \in Operation
    BY <2>1, PredecessorFacts, OperationFacts
  <2>4. Predecessor(a[1]) \in taken
    BY <1>1, <2>2, <2>3 DEF EvidenceIsTrue
  <2>5. QED
    BY <1>5, <2>4
<1>6. CASE a = <<"W5", "WRITE">>
  <2>1. Dependency("W5")
    BY <1>6 DEF Ready, WriteEligible, RailDependency
  <2>2. disk[<<"W3", "observation">>] = "OBSERVED_PUBLIC"
    BY <2>1, PredecessorFacts DEF Dependency
  <2>3. QED
    BY <1>1, <1>6, <2>2, PredecessorFacts, OperationFacts DEF EvidenceIsTrue
<1>7. CASE a = <<"W6", "WRITE">>
  <2>1. RailObserved("W5")
    BY <1>7 DEF Ready, WriteEligible, RailDependency
  <2>2. QED
    BY <1>1, <1>7, <2>1, OperationFacts DEF EvidenceIsTrue, RailObserved
<1>8. QED
  BY <1>2, <1>3, <1>4, <1>5, <1>6, <1>7

LEMMA CommandsStep ==
  ASSUME Inductive, Next
  PROVE  CommandsInOrder'
<1> SUFFICES ASSUME NEW p \in Process
             PROVE  /\ proc'[p].pc \in {"PROMPT", "CALLING"}
                         => proc'[p].att \in Attempt \ {<<"W3", "SUBMIT">>}
                    /\ proc'[p].pc = "EXPORT" => proc'[p].att \in SignedOps \X {"OBSERVE"}
                    /\ proc'[p].pc = "SAVING" => proc'[p].att \in Operation \X {"OBSERVE"}
  BY DEF CommandsInOrder
<1>1. CommandsInOrder
  BY DEF Inductive
<1>2. \A a \in Attempt : Ready(a) => a # <<"W3", "SUBMIT">>
  BY ReadyFacts, AttemptFacts
<1>3. CASE proc'[p].pc = "PROMPT"
  BY <1>1, <1>2, <1>3, CommandStep DEF CommandsInOrder
<1>4. CASE proc'[p].pc = "CALLING"
  BY <1>1, <1>4, CommandStep DEF CommandsInOrder
<1>5. CASE proc'[p].pc = "EXPORT"
  BY <1>1, <1>5, CommandStep DEF CommandsInOrder
<1>6. CASE proc'[p].pc = "SAVING"
  BY <1>1, <1>6, CommandStep DEF CommandsInOrder
<1>7. QED
  BY <1>3, <1>4, <1>5, <1>6

\* A request begins with a prompt that is ready.
LEMMA BeginsStep ==
  ASSUME Inductive, Next, NEW a \in Posts, Begins(a)'
  PROVE  Begins(a) \/ Ready(a)
<1>1. TypeOK
  BY DEF Inductive
<1>2. CASE net'[a] # "unsent"
  <2>1. ASSUME NEW b \in Posts, Arrive(b) PROVE Begins(a)
    BY <1>1, <1>2, <2>1 DEF Arrive, TypeOK, Begins
  <2>2. ASSUME NEW p \in Process, proc[p].pc = "PROMPT",
               net' = IF proc[p].att[2] = "SIGN" THEN net ELSE [net EXCEPT ![proc[p].att] = "flying"]
        PROVE  Begins(a)
    BY <1>1, <1>2, <2>2 DEF TypeOK, Begins
  <2>3. CASE net' = net
    BY <1>2, <2>3 DEF Begins
  <2>4. QED
    BY <2>1, <2>2, <2>3, RequestStep DEF Evict
<1>3. ASSUME NEW p \in Process, proc'[p].pc = "PROMPT", proc'[p].att = a
      PROVE  Begins(a) \/ Ready(a)
  BY <1>3, CommandStep DEF Begins
<1>4. QED
  BY <1>2, <1>3 DEF Begins

LEMMA RequestsStep ==
  ASSUME Inductive, Next
  PROVE  RequestsInOrder'
<1>1. RequestsInOrder
  BY DEF Inductive
<1>2. ASSUME NEW a \in Posts \ {<<"W1", "SUBMIT">>, <<"W3", "SUBMIT">>, <<"W6", "WRITE">>}, Begins(a)'
      PROVE  Predecessor(a[1]) \in taken'
  BY <1>1, <1>2, BeginsStep, ReadyFacts, TakenGrows DEF RequestsInOrder
<1>3. ASSUME Begins(<<"W6", "WRITE">>)' PROVE "W5" \in taken' /\ RailObserved("W5")'
  <2>1. <<"W6", "WRITE">> \in Posts /\ "W5" \in RailOps
    BY AttemptFacts DEF RailOps
  <2>2. "W5" \in taken /\ RailObserved("W5")
    BY <1>1, <1>3, <2>1, BeginsStep, ReadyFacts DEF RequestsInOrder
  <2>3. QED
    BY <2>1, <2>2, TakenGrows, RailObservedStays
<1>4. QED
  BY <1>2, <1>3 DEF RequestsInOrder

LEMMA PostsStep ==
  ASSUME Inductive, Next
  PROVE  PostsAccounted'
<1>1. TypeOK /\ PostsAccounted
  BY DEF Inductive
<1>2. CASE UNCHANGED <<spent, net, copies, taken>>
  BY <1>1, <1>2 DEF PostsAccounted
<1>3. ASSUME NEW p \in Process, proc[p].att \in Attempt \ {<<"W3", "SUBMIT">>},
             proc[p].att \notin spent, spent' = spent \cup {proc[p].att},
             net' = IF proc[p].att[2] = "SIGN" THEN net ELSE [net EXCEPT ![proc[p].att] = "flying"],
             UNCHANGED <<copies, taken>>
      PROVE  PostsAccounted'
  <2> DEFINE a == proc[p].att
  <2>1. \A b \in Posts : net'[b] # net[b] => b = a /\ net'[b] = "flying" /\ net[b] = "unsent"
    BY <1>1, <1>3 DEF TypeOK, PostsAccounted
  <2>2. \A b \in Posts : net'[b] # "unsent" => b \in spent'
    BY <1>1, <1>3, <2>1 DEF PostsAccounted
  <2>3. \A o \in SignedOps \ {"W3"} :
           net'[<<o, "SUBMIT">>] \in {"unsent", "flying"} => copies'[o] = 0
    BY <1>1, <1>3, <2>1, AttemptFacts DEF PostsAccounted
  <2>4. net'[<<"W3", "SUBMIT">>] # "flying"
    BY <1>1, <1>3, <2>1, AttemptFacts, OperationFacts DEF PostsAccounted
  <2>5. QED
    BY <2>2, <2>3, <2>4 DEF PostsAccounted
<1>4. ASSUME NEW a \in Posts, Arrive(a) PROVE PostsAccounted'
  <2>1. \A b \in Posts : b # a => net'[b] = net[b]
    BY <1>1, <1>4 DEF Arrive, TypeOK
  <2>2. net[a] = "flying" /\ net'[a] \in {"applied", "refused"} /\ spent' = spent
    BY <1>1, <1>4 DEF Arrive, TypeOK
  <2>3. \A o \in SignedOps : <<o, "SUBMIT">> # a => copies'[o] = copies[o]
    BY <1>1, <1>4, AttemptFacts DEF Arrive, TypeOK
  <2>4. QED
    BY <1>1, <2>1, <2>2, <2>3, AttemptFacts, OperationFacts DEF PostsAccounted
<1>5. ASSUME NEW q \in SignedOps, Evict(q) PROVE PostsAccounted'
  <2>1. \A o \in SignedOps : copies'[o] = copies[o] \/ copies'[o] = 0
    BY <1>1, <1>5 DEF Evict, TypeOK
  <2>2. net' = net /\ spent' = spent
    BY <1>5 DEF Evict
  <2>3. QED
    BY <1>1, <2>1, <2>2 DEF PostsAccounted
<1>6. QED
  BY <1>2, <1>3, <1>4, <1>5, RequestStep

LEMMA CopiesStep ==
  ASSUME Inductive, Next
  PROVE  OneCopy'
<1>1. TypeOK /\ PostsAccounted /\ OneCopy
  BY DEF Inductive
<1>2. ASSUME NEW a \in Posts, Arrive(a) PROVE OneCopy'
  <2>1. CASE copies' = copies
    BY <1>1, <2>1 DEF OneCopy
  <2>2. CASE a[2] # "WRITE" /\ copies' = [copies EXCEPT ![a[1]] = @ + 1]
    <3>1. a[1] \in SignedOps \ {"W3"} /\ a = <<a[1], "SUBMIT">> /\ net[a] = "flying"
      BY <1>1, <1>2, <2>2, AttemptFacts DEF PostsAccounted, Arrive, Posts, Attempt
    <3>2. copies[a[1]] = 0
      BY <1>1, <3>1 DEF PostsAccounted
    <3>3. \A o \in SignedOps : copies'[o] = IF o = a[1] THEN 1 ELSE copies[o]
      BY <1>1, <2>2, <3>1, <3>2 DEF TypeOK
    <3>4. QED
      BY <1>1, <3>3 DEF OneCopy
  <2>3. QED
    BY <1>2, <2>1, <2>2 DEF Arrive
<1>3. ASSUME NEW q \in SignedOps, Evict(q) PROVE OneCopy'
  <2>1. \A o \in SignedOps : copies'[o] = copies[o] \/ copies'[o] = 0
    BY <1>1, <1>3 DEF Evict, TypeOK
  <2>2. QED
    BY <1>1, <2>1 DEF OneCopy
<1>4. CASE copies' = copies
  BY <1>1, <1>4 DEF OneCopy
<1>5. QED
  BY <1>2, <1>3, <1>4, RequestStep

LEMMA OrderStep ==
  ASSUME Inductive, Next
  PROVE  PublicInOrder'
<1>1. TypeOK /\ RequestsInOrder /\ PublicInOrder
  BY DEF Inductive
<1>2. CASE taken' = taken
  BY <1>1, <1>2 DEF PublicInOrder
<1>3. ASSUME NEW a \in Posts, Arrive(a), taken' = taken \cup {a[1]} PROVE PublicInOrder'
  <2>1. Begins(a)
    BY <1>3 DEF Arrive, Begins
  <2>2. a[1] \notin {"W1", "W3", "W6"} => Predecessor(a[1]) \in taken
    BY <1>1, <2>1 DEF RequestsInOrder
  <2>3. a[1] = "W6" => a = <<"W6", "WRITE">>
    BY OperationFacts DEF Posts, Attempt
  <2>4. a[1] = "W6" => "W5" \in taken
    BY <1>1, <2>1, <2>3 DEF RequestsInOrder
  <2>5. "W5" \in taken => "W3" \in taken
    BY <1>1, PredecessorFacts DEF PublicInOrder
  <2>6. QED
    BY <1>1, <1>3, <2>2, <2>4, <2>5 DEF PublicInOrder
<1>4. QED
  BY <1>2, <1>3, RequestStep DEF Arrive, Evict

LEMMA CapsuleStep ==
  ASSUME Inductive, Next
  PROVE  CapsuleIsTrue'
<1>1. CapsuleIsTrue
  BY DEF Inductive
<1>2. QED
  BY <1>1, DiskStep, TakenGrows DEF CapsuleIsTrue, Founded

LEMMA RailEvidenceStep ==
  ASSUME Inductive, Next
  PROVE  RailEvidenceStands'
<1>1. RailEvidenceStands
  BY DEF Inductive
<1>2. ASSUME net'[<<"W6", "WRITE">>] # "unsent" PROVE RailObserved("W5")'
  BY <1>2, RequestsStep DEF RequestsInOrder, Begins
<1>3. ASSUME disk'[Capsule] = "written", NEW o \in RailOps PROVE RailObserved(o)'
  <2>1. RailObserved(o)
    BY <1>1, <1>3, DiskStep DEF RailEvidenceStands, Founded
  <2>2. QED
    BY <2>1, RailObservedStays
<1>4. QED
  BY <1>2, <1>3 DEF RailEvidenceStands

LEMMA WritersStep ==
  ASSUME Inductive, Next
  PROVE  WritersInOrder'
<1>1. /\ disk \in [File -> Content] /\ proc \in [Process -> Command] /\ WritersInOrder
  BY DEF Inductive, TypeOK
\* What a file was going to say it may still say.
<1>2. ASSUME NEW f, NEW c, Founded(f, c) PROVE Founded(f, c)'
  <2>1. (\A o \in RailOps : RailObserved(o)) => (\A o \in RailOps : RailObserved(o)')
    BY RailObservedStays
  <2>2. QED
    BY <1>2, <2>1, TakenGrows DEF Founded
<1> DEFINE Writer(p, f, c) == proc[p].pc = "WRITING" /\ proc[p].file = f /\ proc[p].says = c
<1>3. \A p \in Process : \A f, c : Writer(p, f, c) =>
        /\ Founded(f, c) /\ disk[f] = "torn"
        /\ \A q \in Process \ {p} : \A d : ~ Writer(q, f, d)
  BY <1>1 DEF WritersInOrder
<1>4. ASSUME \A p \in Process : \A f, c : Writer(p, f, c)' =>
        /\ Founded(f, c) /\ disk'[f] = "torn"
        /\ \A q \in Process \ {p} : \A d : ~ Writer(q, f, d)'
      PROVE  WritersInOrder'
  <2> SUFFICES ASSUME NEW p \in Process, proc'[p].pc = "WRITING"
               PROVE  /\ Founded(proc[p].file, proc[p].says)' /\ disk'[proc'[p].file] = "torn"
                      /\ \A q \in Process \ {p} :
                           proc'[q].pc = "WRITING" => proc'[q].file # proc'[p].file
    BY DEF WritersInOrder
  <2>1. PICK f, c : f = proc'[p].file /\ c = proc'[p].says
    OBVIOUS
  <2>2. Writer(p, f, c)'
    BY <2>1
  <2>3. Founded(f, c)'
    BY <1>2, <1>4, <2>2
  <2>4. Founded(proc[p].file, proc[p].says)'
    BY <2>1, <2>3 DEF Founded
  <2>5. ASSUME NEW q \in Process \ {p}, proc'[q].pc = "WRITING", proc'[q].file = proc'[p].file
        PROVE  FALSE
    BY <1>4, <2>1, <2>2, <2>5
  <2>6. QED
    BY <1>4, <2>1, <2>2, <2>4, <2>5
<1>5. CASE LeavesAlone
  <2>1. \A p \in Process : \A f, c : Writer(p, f, c)' => Writer(p, f, c)
    BY <1>5 DEF LeavesAlone
  <2>2. \A f, c : Founded(f, c) => disk'[f] = disk[f]
    BY <1>5 DEF LeavesAlone, Founded
  <2> HIDE DEF Writer
  <2>3. QED
    BY <1>3, <1>4, <2>1, <2>2
<1>6. ASSUME NEW p \in Process, NEW f \in Exclusive, NEW c \in Content, Creates(p, f, c)
      PROVE  WritersInOrder'
  <2>1. /\ disk[f] = "missing" /\ disk'[f] = "torn"
        /\ \A g \in File : g # f => disk'[g] = disk[g]
    BY <1>1, <1>6, ExclusiveFacts DEF Creates
  <2>2. \A g, d : Writer(p, g, d)' <=> g = f /\ d = c
    BY <1>1, <1>6 DEF Creates, Idle
  <2>3. \A q \in Process \ {p} : \A g, d : Writer(q, g, d)' <=> Writer(q, g, d)
    BY <1>1, <1>6 DEF Creates
  <2>4. \A q \in Process : \A g, d : Writer(q, g, d) => g # f /\ disk'[g] = "torn"
    <3>1. \A g, d : Founded(g, d) => g \in File
      BY ExclusiveFacts DEF Founded
    <3> HIDE DEF Writer
    <3>2. QED
      BY <1>3, <2>1, <3>1
  <2>5. Founded(f, c)
    BY <1>6 DEF Creates
  <2> HIDE DEF Writer
  <2>6. QED
    BY <1>3, <1>4, <2>1, <2>2, <2>3, <2>4, <2>5
<1>7. ASSUME NEW p \in Process, Completes(p) PROVE WritersInOrder'
  <2>1. PICK f, c : f = proc[p].file /\ c = proc[p].says
    OBVIOUS
  <2>2. Writer(p, f, c) /\ f \in File
    BY <1>1, <1>7, <2>1 DEF Completes, Command
  <2>3. \A g \in File : g # f => disk'[g] = disk[g]
    BY <1>1, <1>7, <2>1 DEF Completes
  <2>4. \A g, d : ~ Writer(p, g, d)'
    BY <1>1, <1>7 DEF Completes, Idle
  <2>5. \A q \in Process \ {p} : \A g, d : Writer(q, g, d)' <=> Writer(q, g, d)
    BY <1>1, <1>7 DEF Completes
  <2>6. \A g, d : Founded(g, d) => g \in File
    BY ExclusiveFacts DEF Founded
  <2> HIDE DEF Writer
  <2>7. ASSUME NEW q \in Process \ {p}, NEW g, NEW d, Writer(q, g, d) PROVE disk'[g] = "torn"
    <3>1. g # f
      BY <1>3, <2>2, <2>7
    <3>2. QED
      BY <1>3, <2>3, <2>6, <2>7, <3>1
  <2>8. QED
    BY <1>3, <1>4, <2>4, <2>5, <2>7
<1>8. QED
  BY <1>5, <1>6, <1>7, WriterCases

-----------------------------------------------------------------------------
(***************************************************************************)
(* The beginning of the journey.                                           *)
(***************************************************************************)
LEMMA InitFacts ==
  ASSUME Init
  PROVE  /\ disk \in [File -> Content] /\ spent \subseteq Attempt
         /\ \A o \in Operation, k \in Kinds :
              disk[<<o, k>>] \notin {"missing", "OBSERVED_PUBLIC"} => k = "pending"
         /\ \A o \in Operation, k \in Kinds :
              disk[<<o, k>>] = "OBSERVED_PUBLIC" => k = "observation" /\ o \in Begun
         /\ disk[Capsule] = "missing"
<1>1. Begun \subseteq SignedOps
  BY ActiveAssumption
<1>2. \A f \in File : disk[f] =
        CASE f[2] = "pending" /\ <<f[1], "SIGN">> \in spent -> "written"
          [] f[2] = "observation" /\ f[1] \in Begun -> "OBSERVED_PUBLIC"
          [] OTHER -> "missing"
  BY DEF Init
<1>3. \A f \in File :
        \/ disk[f] = "written" /\ f[2] = "pending"
        \/ disk[f] = "OBSERVED_PUBLIC" /\ f[2] = "observation" /\ f[1] \in Begun
        \/ disk[f] = "missing"
  BY <1>2
<1>4. disk \in [File -> Content]
  BY <1>3 DEF Init, Content
<1>5. spent \subseteq Attempt
  <2>1. Begun \X {"SIGN", "SUBMIT"} \subseteq Attempt
    BY <1>1 DEF Attempt
  <2>2. \A o \in {"W1", "W3"} : <<o, "SIGN">> \in Attempt
    BY OperationFacts DEF Attempt
  <2>3. \A a \in spent : a \in Begun \X {"SIGN", "SUBMIT"} \/ \E o \in {"W1", "W3"} : a = <<o, "SIGN">>
    BY DEF Init
  <2>4. QED
    BY <2>1, <2>2, <2>3
<1>6. \A o \in Operation, k \in Kinds :
        /\ disk[<<o, k>>] \notin {"missing", "OBSERVED_PUBLIC"} => k = "pending"
        /\ disk[<<o, k>>] = "OBSERVED_PUBLIC" => k = "observation" /\ o \in Begun
  BY <1>3, FileFacts
<1>7. disk[Capsule] = "missing"
  BY <1>3, FileFacts DEF Capsule
<1>8. QED
  BY <1>4, <1>5, <1>6, <1>7

LEMMA Begin ==
  ASSUME Init
  PROVE  Inductive
<1>1. Begun \subseteq SignedOps /\ Begun \subseteq Operation
  BY ActiveAssumption, OperationFacts
<1>2. \A p \in Process : proc[p] = Idle
  BY DEF Init
<1>3. \A a \in Posts : net[a] = IF a[1] \in Begun THEN "applied" ELSE "unsent"
  BY DEF Init
<1>4. /\ copies \in [SignedOps -> 0 .. 1]
      /\ \A o \in SignedOps : copies[o] = 1 => o = "W3"
      /\ taken = Begun \cup {o \in SignedOps : copies[o] = 1}
  BY DEF Init
<1>5. TypeOK
  <2>1. Idle \in Command
    BY FileFacts DEF Idle, Command, Notes, Content
  <2>2. proc \in [Process -> Command] /\ net \in [Posts -> {"unsent", "flying", "applied", "refused"}]
    BY <2>1 DEF Init
  <2>3. copies \in [SignedOps -> 0 .. 2]
    BY <1>4
  <2>4. taken \subseteq Operation
    BY <1>1, <1>4, OperationFacts
  <2>5. note \in Notes
    BY DEF Init, Notes
  <2>6. QED
    BY <2>2, <2>3, <2>4, <2>5, InitFacts DEF TypeOK
<1>6. EvidenceIsTrue
  BY <1>4, InitFacts DEF EvidenceIsTrue, Kinds
<1>7. EvidenceFollowsVenue
  <2>1. \A o \in SignedOps : copies[o] > 0 => o \in taken
    BY <1>4
  <2>2. \A o \in RailOps : disk[<<o, "receipt">>] # "written"
    BY InitFacts, OperationFacts DEF Kinds
  <2>3. \A a \in Posts : net[a] = "applied" => a[1] \in taken
    BY <1>3, <1>4
  <2>4. \A p \in Process : proc[p].pc # "SAVING"
    BY <1>2 DEF Idle
  <2>5. QED
    BY <2>1, <2>2, <2>3, <2>4 DEF EvidenceFollowsVenue
<1>8. CommandsInOrder
  BY <1>2 DEF CommandsInOrder, Idle
<1>9. RequestsInOrder
  <2>1. ASSUME NEW a \in Posts, Begins(a) PROVE a[1] \in Begun
    BY <1>2, <1>3, <2>1 DEF Begins, Idle
  <2>2. \A a \in Posts \ {<<"W1", "SUBMIT">>} : a[1] \in Begun => a[1] \in Begun \ {"W1"}
    BY <1>1, OperationFacts, AttemptFacts DEF Posts, Attempt
  <2>3. <<"W6", "WRITE">> \in Posts /\ "W6" \notin Begun
    BY <1>1, AttemptFacts, OperationFacts DEF RailOps
  <2>4. QED
    BY <1>4, <2>1, <2>2, <2>3, BegunAssumption DEF RequestsInOrder
<1>10. PostsAccounted
  <2>1. \A a \in Posts : net[a] # "unsent" => a \in spent
    BY <1>1, <1>3, AttemptFacts DEF Init, Posts, Attempt
  <2>2. \A o \in SignedOps \ {"W3"} : copies[o] = 0
    BY <1>4
  <2>3. net[<<"W3", "SUBMIT">>] # "flying"
    BY <1>3, AttemptFacts, OperationFacts
  <2>4. QED
    BY <2>1, <2>2, <2>3 DEF PostsAccounted
<1>11. OneCopy
  BY <1>4 DEF OneCopy
<1>12. PublicInOrder
  <2>1. "W6" \notin taken
    BY <1>1, <1>4, OperationFacts
  <2>2. \A o \in taken \ {"W1", "W3", "W6"} : o \in Begun \ {"W1"}
    BY <1>4
  <2>3. QED
    BY <1>4, <2>1, <2>2, BegunAssumption DEF PublicInOrder
<1>13. CapsuleIsTrue
  BY InitFacts DEF CapsuleIsTrue
<1>14. WritersInOrder /\ RailEvidenceStands
  <2>1. <<"W6", "WRITE">> \in Posts /\ "W6" \notin Begun
    BY <1>1, AttemptFacts, OperationFacts DEF RailOps
  <2>2. net[<<"W6", "WRITE">>] = "unsent"
    BY <1>3, <2>1
  <2>3. QED
    BY <1>2, <2>2, InitFacts DEF WritersInOrder, RailEvidenceStands, Idle
<1>15. QED
  BY <1>5, <1>6, <1>7, <1>8, <1>9, <1>10, <1>11, <1>12, <1>13, <1>14 DEF Inductive

-----------------------------------------------------------------------------
(***************************************************************************)
(* The journey.                                                            *)
(***************************************************************************)
LEMMA Step ==
  ASSUME Inductive, [Next]_vars
  PROVE  Inductive'
<1>1. CASE Next
  BY <1>1, TypeStep, VenueStep, EvidenceStep, CommandsStep, RequestsStep, PostsStep, CopiesStep,
     OrderStep, CapsuleStep, WritersStep, RailEvidenceStep DEF Inductive
<1>2. CASE UNCHANGED vars
  BY <1>2 DEF vars, Inductive, TypeOK, EvidenceFollowsVenue, EvidenceIsTrue, CommandsInOrder,
     RequestsInOrder, Begins, PostsAccounted, OneCopy, PublicInOrder, CapsuleIsTrue,
     WritersInOrder, Founded, RailObserved, RailEvidenceStands
<1>3. QED
  BY <1>1, <1>2

\* Everything the evidence rests on holds throughout the journey: what a
\* command is about, what a request waited for, which budget it took, what the
\* venue did with it and what is then written down.
THEOREM InductiveHolds == Spec => []Inductive
<1>1. Init => Inductive
  BY Begin
<1>2. Inductive /\ [Next]_vars => Inductive'
  BY Step
<1>3. QED
  BY <1>1, <1>2, PTL DEF Spec

\* A message is posted once, however many commands are run and killed.
THEOREM PostedOnce == Spec => []OneCopy
<1>1. Inductive => OneCopy
  BY DEF Inductive
<1>2. QED
  BY <1>1, InductiveHolds, PTL

\* Writes 2, 4 and 5 become public only after the operation before them, and
\* the claim only after the lock and write 3; writes 1 and 3, which earlier
\* releases sent already, stand apart, and the claim does not wait for the
\* reveal (PublicInOrder).
THEOREM InOrder == Spec => []PublicInOrder
<1>1. Inductive => PublicInOrder
  BY DEF Inductive
<1>2. QED
  BY <1>1, InductiveHolds, PTL

\* What the evidence calls public was taken by the venue.
THEOREM EvidenceHolds == Spec => []EvidenceIsTrue
<1>1. Inductive => EvidenceIsTrue
  BY DEF Inductive
<1>2. QED
  BY <1>1, InductiveHolds, PTL

\* The capsule is complete only over a transcript that is public, write 2 apart.
THEOREM CapsuleHolds == Spec => []CapsuleIsTrue
<1>1. Inductive => CapsuleIsTrue
  BY DEF Inductive
<1>2. QED
  BY <1>1, InductiveHolds, PTL

\* The evidence of the rail that the claim and the capsule were built on stays
\* complete: no command that repeats, overlaps or dies while it writes tears or
\* replaces it.
THEOREM RailEvidenceHolds == Spec => []RailEvidenceStands
<1>1. Inductive => RailEvidenceStands
  BY DEF Inductive
<1>2. QED
  BY <1>1, InductiveHolds, PTL
=============================================================================
