--------------------------- MODULE LineageProofs ---------------------------
(***************************************************************************)
(* Proofs about Lineage, for any order of steps and any commands.          *)
(***************************************************************************)
EXTENDS Lineage, TLAPS

\* The first step is signed, and the second attempt is one of its.
LEMMA FirstStep == 1 \in SignedOps /\ <<1, "SUBMIT">> \in Posts /\ <<1, "SUBMIT2">> \in Posts
<1>1. 1 \in Operation BY OrderAssumption DEF Operation
<1>2. 1 \in SignedOps BY <1>1, OrderAssumption DEF SignedOps, RailOps, SignedSteps, RailSteps
<1> QED BY <1>2 DEF Posts, Attempt

\* The operations are numbers from 1.
LEMMA Numbers == Operation \subseteq Nat \ {0} /\ RailOps \subseteq Operation /\ SignedOps \subseteq Operation
BY OrderAssumption DEF Operation, RailOps, SignedOps

LEMMA InitInductive == Init => Inductive
<1> SUFFICES ASSUME Init PROVE Inductive OBVIOUS
<1>1. TypeOK
  <2>1. proc \in [Process -> Command]
    BY DEF Init, Idle, Command, Pcs, NoAttempt, Notes
  <2> QED BY <2>1 DEF Init, TypeOK, Content, PublicMatches, Notes, PublicFiles
<1>2. CommandsInOrder BY DEF Init, CommandsInOrder, Idle
<1>3. BudgetsInOrder BY FirstStep DEF Init, BudgetsInOrder, Delivered, Posts, Attempt
<1>4. StepsInOrder BY DEF Init, StepsInOrder, UnderWay, Idle
<1>5. FilesFounded BY DEF Init, FilesFounded, Idle
<1>6. RecoveryFounded BY FirstStep DEF Init, RecoveryFounded, UnderWay, Idle
<1> QED BY <1>1, <1>2, <1>3, <1>4, <1>5, <1>6 DEF Inductive

-----------------------------------------------------------------------------
(***************************************************************************)
(* Types.                                                                  *)
(***************************************************************************)

LEMMA IdleCommand == Idle \in Command /\ Idle.pc = "IDLE" /\ Idle.files = {}
BY DEF Idle, Command, Pcs, NoAttempt, Notes

\* A command goes on to a step of its own.
LEMMA GoesTyped ==
  ASSUME TypeOK, NEW p \in Process, NEW step \in Command, Goes(p, step)
  PROVE  /\ proc' \in [Process -> Command]
         /\ proc'[p] = step /\ \A q \in Process \ {p} : proc'[q] = proc[q]
BY DEF TypeOK, Goes

\* A command goes on to write its files, or it is over.
LEMMA WriteTyped ==
  ASSUME TypeOK, NEW p \in Process, NEW files \in SUBSET (File \X Content), Write(p, files)
  PROVE  /\ proc' \in [Process -> Command]
         /\ proc'[p].files = files /\ proc'[p].pc \in {"IDLE", "WRITING"}
         /\ proc'[p].pc = "IDLE" => files = {}
         /\ \A q \in Process \ {p} : proc'[q] = proc[q]
<1> DEFINE step == IF files = {} THEN Idle
                   ELSE [Idle EXCEPT !.pc = "WRITING", !.files = files]
<1>1. step \in Command /\ step.files = files /\ step.pc \in {"IDLE", "WRITING"}
      /\ (step.pc = "IDLE" => files = {})
  BY IdleCommand DEF Command, Pcs, Idle
<1>2. Goes(p, step) BY DEF Write
<1> HIDE DEF step
<1> QED BY <1>1, <1>2, GoesTyped

\* What a command decides to write are contents of files.
LEMMA ReconciledTyped ==
  ASSUME NEW o \in SignedOps, NEW found \in PublicMatches \cup {"ABSENT"}
  PROVE  Reconciled(o, found) \in SUBSET (File \X Content)
<1>1. /\ <<o, "observation">> \in File /\ <<o, "corrected">> \in File
      /\ <<o, "reconciliation">> \in File /\ found \in Content /\ "written" \in Content
  BY Numbers DEF File, Kinds, Content
<1> QED BY <1>1 DEF Reconciled

LEMMA MatchesTyped ==
  ASSUME NEW n \in 0 .. 2
  PROVE  /\ Matches(n) \in PublicMatches \cup {"ABSENT"}
         /\ Matches(n) \in PublicMatches => n > 0
BY DEF Matches, PublicMatches

LEMMA ClassifiedTyped ==
  ASSUME NEW fate, NEW status \in Statuses(fate)
  PROVE  /\ Classified(status) \in Content \ {"missing", "torn"}
         /\ status = "200" => fate = "applied"
BY DEF Statuses, Classified, Content

LEMMA ProcTyped ==
  ASSUME TypeOK, CommandsInOrder, [Next]_vars
  PROVE  proc' \in [Process -> Command]
<1> USE IdleCommand DEF TypeOK
<1>1. ASSUME NEW p \in Process, Start(p) PROVE proc' \in [Process -> Command]
  <2> PICK a \in Attempt : Goes(p, [Idle EXCEPT !.pc = "PROMPT", !.att = a, !.seen = note])
    BY <1>1 DEF Start
  <2> DEFINE step == [Idle EXCEPT !.pc = "PROMPT", !.att = a, !.seen = note]
  <2>1. step \in Command BY DEF Command, Pcs, Idle
  <2> HIDE DEF step
  <2> QED BY <2>1, GoesTyped DEF step
<1>2. ASSUME NEW p \in Process, Approve(p) PROVE proc' \in [Process -> Command]
  <2>1. PICK pc \in Pcs : Goes(p, [proc[p] EXCEPT !.pc = pc])
    BY <1>2 DEF Approve, Pcs
  <2>2. [proc[p] EXCEPT !.pc = pc] \in Command BY DEF Command
  <2> QED BY <2>1, <2>2, GoesTyped
<1>3. ASSUME NEW p \in Process, Signed(p) PROVE proc' \in [Process -> Command]
  <2> DEFINE o == proc[p].att[1]
  <2>1. o \in SignedOps BY <1>3 DEF Signed, CommandsInOrder
  <2>2. Write(p, {<<<<o, "pending">>, "written">>}) BY <1>3 DEF Signed
  <2> HIDE DEF o
  <2>3. {<<<<o, "pending">>, "written">>} \in SUBSET (File \X Content)
    BY <2>1, Numbers DEF File, Kinds, Content
  <2> QED BY <2>2, <2>3, WriteTyped
<1>4. ASSUME NEW p \in Process, Answered(p) PROVE proc' \in [Process -> Command]
  <2> DEFINE o == proc[p].att[1]
  <2>1. o \in Operation BY <1>4, Numbers, FirstStep DEF Answered, CommandsInOrder, Posts, Attempt
  <2> HIDE DEF o
  <2>2. \A k \in Kinds : <<o, k>> \in File BY <2>1 DEF File
  <2>3. PICK files \in SUBSET (File \X Content) : Write(p, files)
    <3> PICK status \in Statuses(net[proc[p].att]) :
           CASE proc[p].att[2] = "SUBMIT"  -> Write(p, {<<<<o, "submit">>, Classified(status)>>})
             [] proc[p].att[2] = "SUBMIT2" -> Write(p, {<<<<o, "submit2">>, Classified(status)>>})
             [] OTHER -> Write(p, IF Confirms(status) THEN {<<<<o, "receipt">>, "written">>} ELSE {})
      BY <1>4 DEF Answered, o
    <3>1. Classified(status) \in Content BY ClassifiedTyped
    <3>2. /\ {<<<<o, "submit">>, Classified(status)>>} \in SUBSET (File \X Content)
          /\ {<<<<o, "submit2">>, Classified(status)>>} \in SUBSET (File \X Content)
          /\ {<<<<o, "receipt">>, "written">>} \in SUBSET (File \X Content)
      BY <2>2, <3>1 DEF Kinds, Content
    <3> QED BY <3>2
  <2> QED BY <2>3, WriteTyped
<1>5. ASSUME NEW p \in Process, ObserveRoom(p) PROVE proc' \in [Process -> Command]
  <2> PICK o \in SignedOps :
        \/ \E n \in 1 .. copies[o] : Write(p, Reconciled(o, Matches(n)))
        \/ Goes(p, [Idle EXCEPT !.pc = "EXPORT", !.att = <<o, "OBSERVE">>])
    BY <1>5 DEF ObserveRoom
  <2>1. ASSUME NEW n \in 1 .. copies[o], Write(p, Reconciled(o, Matches(n)))
        PROVE  proc' \in [Process -> Command]
    <3>1. n \in 0 .. 2 OBVIOUS
    <3> QED BY <2>1, <3>1, MatchesTyped, ReconciledTyped, WriteTyped
  <2>2. [Idle EXCEPT !.pc = "EXPORT", !.att = <<o, "OBSERVE">>] \in Command
    BY DEF Command, Pcs, Idle
  <2> QED BY <2>1, <2>2, GoesTyped
<1>6. ASSUME NEW p \in Process, ObserveExport(p) PROVE proc' \in [Process -> Command]
  <2>1. proc[p].att[1] \in SignedOps BY <1>6 DEF ObserveExport, CommandsInOrder
  <2>2. copies[proc[p].att[1]] \in 0 .. 2 BY <2>1
  <2> QED BY <1>6, <2>1, <2>2, MatchesTyped, ReconciledTyped, WriteTyped DEF ObserveExport
<1>7. ASSUME NEW p \in Process, ObserveRail(p) PROVE proc' \in [Process -> Command]
  <2>1. PICK o \in RailOps, v \in {"INVALID", "MATCH", "MISMATCH"} :
          Write(p, {<<<<o, "railobservation">>, v>>})
    BY <1>7 DEF ObserveRail
  <2>2. {<<<<o, "railobservation">>, v>>} \in SUBSET (File \X Content)
    BY Numbers DEF File, Kinds, Content
  <2> QED BY <2>1, <2>2, WriteTyped
<1>8. ASSUME NEW p \in Process, Finalize(p) PROVE proc' \in [Process -> Command]
  <2>1. PICK v \in {"EXPORTABLE", "SEALED"} : Write(p, {<<Capsule, v>>})
    BY <1>8 DEF Finalize
  <2>2. {<<Capsule, v>>} \in SUBSET (File \X Content) BY DEF File, Content
  <2> QED BY <2>1, <2>2, WriteTyped
<1>9. ASSUME NEW p \in Process, WriteFile(p) PROVE proc' \in [Process -> Command]
  <2>1. proc[p].files \in SUBSET (File \X Content) BY DEF Command
  <2>2. (\E files \in SUBSET (File \X Content) : Write(p, files)) \/ Goes(p, Idle)
    BY <1>9, <2>1 DEF WriteFile
  <2> QED BY <2>2, WriteTyped, GoesTyped
<1>10. ASSUME NEW p \in Process, Stop(p) PROVE proc' \in [Process -> Command]
  BY <1>10, GoesTyped DEF Stop
<1>11. CASE UNCHANGED proc BY <1>11
<1> QED BY <1>1, <1>2, <1>3, <1>4, <1>5, <1>6, <1>7, <1>8, <1>9, <1>10, <1>11
        DEF Next, Export, Arrive, Evict, ForeignWrite, vars

\* The parts of a pair.
LEMMA PairParts ==
  ASSUME NEW S, NEW T, NEW a \in S \X T
  PROVE  a[1] \in S /\ a[2] \in T /\ a = <<a[1], a[2]>>
OBVIOUS

\* An attempt to post is the submission of a signed step, the second one of the
\* first step, or a write of the rail.
LEMMA PostCases ==
  ASSUME NEW a \in Posts
  PROVE  /\ a[1] \in Operation /\ a = <<a[1], a[2]>>
         /\ \/ a[2] = "WRITE" /\ a[1] \in RailOps
            \/ a[2] = "SUBMIT" /\ a[1] \in SignedOps
            \/ a = <<1, "SUBMIT2">> /\ a[1] \in SignedOps
<1> USE Numbers, FirstStep
<1>1. a \in Attempt /\ a[2] # "SIGN" BY DEF Posts
<1>2. CASE a \in SignedOps \X {"SIGN", "SUBMIT"}
  <2>1. a[1] \in SignedOps /\ a[2] \in {"SIGN", "SUBMIT"} /\ a = <<a[1], a[2]>>
    BY <1>2, PairParts
  <2> QED BY <1>1, <2>1
<1>3. CASE a \in RailOps \X {"WRITE"}
  <2>1. a[1] \in RailOps /\ a[2] \in {"WRITE"} /\ a = <<a[1], a[2]>> BY <1>3, PairParts
  <2> QED BY <2>1
<1>4. CASE a = <<1, "SUBMIT2">> BY <1>4
<1> QED BY <1>1, <1>2, <1>3, <1>4 DEF Attempt

LEMMA SubmitIsPost == \A o \in SignedOps : <<o, "SUBMIT">> \in Posts
BY DEF Posts, Attempt

LEMMA TypeStep ==
  ASSUME TypeOK, CommandsInOrder, BudgetsInOrder, [Next]_vars
  PROVE  TypeOK'
<1>1. proc' \in [Process -> Command] BY ProcTyped
<1> USE DEF TypeOK
<1>2. disk' \in [File -> Content]
  <2>1. ASSUME NEW p \in Process, WriteFile(p) PROVE disk' \in [File -> Content]
    <3>1. \A w \in proc[p].files : w[2] \in Content BY DEF Command
    <3> QED BY <2>1, <3>1 DEF WriteFile, NextWrite
  <2>2. ASSUME NEW p \in Process, Stop(p) PROVE disk' \in [File -> Content]
    BY <2>2 DEF Stop, Content
  <2> QED BY <2>1, <2>2 DEF Next, vars, Start, Approve, Signed, Answered, ObserveRoom,
          ObserveExport, ObserveRail, Finalize, Export, Arrive, Evict, ForeignWrite
<1>3. spent' \subseteq Attempt /\ net' \in [Posts -> {"unsent", "flying", "applied", "refused"}]
  <2>1. ASSUME NEW p \in Process, Approve(p)
        PROVE  spent' \subseteq Attempt /\ net' \in [Posts -> {"unsent", "flying", "applied", "refused"}]
    <3>1. proc[p].att \in Attempt BY <2>1 DEF Approve, CommandsInOrder
    <3> QED BY <2>1, <3>1 DEF Approve, Grant
  <2>2. ASSUME NEW a \in Posts, Arrive(a)
        PROVE  spent' \subseteq Attempt /\ net' \in [Posts -> {"unsent", "flying", "applied", "refused"}]
    BY <2>2 DEF Arrive
  <2> QED BY <2>1, <2>2 DEF Next, vars, Start, Signed, Answered, ObserveRoom,
          ObserveExport, ObserveRail, Finalize, WriteFile, Stop, Export, Evict, ForeignWrite
<1>4. copies' \in [SignedOps -> 0 .. 2] /\ taken' \subseteq Operation /\ note' \in Notes
  <2>1. ASSUME NEW a \in Posts, Arrive(a)
        PROVE  copies' \in [SignedOps -> 0 .. 2] /\ taken' \subseteq Operation /\ note' \in Notes
    <3>1. taken' \subseteq Operation BY <2>1, PostCases DEF Arrive
    <3>2. note' \in Notes BY <2>1 DEF Arrive, Expected, Notes
    <3>3. CASE copies' = copies BY <3>1, <3>2, <3>3
    <3>4. CASE a[2] # "WRITE" /\ net[a] = "flying" /\ copies' = [copies EXCEPT ![a[1]] = @ + 1]
      <4>1. a[1] \in SignedOps BY <3>4, PostCases
      <4>2. copies[a[1]] <= Delivered(a[1]) BY <4>1 DEF BudgetsInOrder
      <4>3. Delivered(a[1]) <= 1 BY <3>4, PostCases DEF Delivered
      <4>4. copies[a[1]] + 1 \in 0 .. 2 BY <4>1, <4>2, <4>3 DEF Delivered
      <4> QED BY <3>1, <3>2, <3>4, <4>1, <4>4
    <3> QED BY <2>1, <3>3, <3>4 DEF Arrive
  <2>2. ASSUME NEW o \in SignedOps, Evict(o)
        PROVE  copies' \in [SignedOps -> 0 .. 2] /\ taken' \subseteq Operation /\ note' \in Notes
    BY <2>2 DEF Evict
  <2>3. CASE ForeignWrite BY <2>3 DEF ForeignWrite
  <2> QED BY <2>1, <2>2, <2>3 DEF Next, vars, Start, Approve, Signed, Answered, ObserveRoom,
          ObserveExport, ObserveRail, Finalize, WriteFile, Stop, Export
<1>5. exported' \in PublicFiles
  BY DEF Next, vars, Start, Approve, Signed, Answered, ObserveRoom, ObserveExport,
         ObserveRail, Finalize, WriteFile, Stop, Export, Arrive, Evict, ForeignWrite
<1> QED BY <1>1, <1>2, <1>3, <1>4, <1>5

-----------------------------------------------------------------------------
(***************************************************************************)
(* Budgets and the venue.                                                  *)
(***************************************************************************)

\* A POST is sent once: what left unsent does not come back to it.
LEMMA NetStep ==
  ASSUME TypeOK, CommandsInOrder, [Next]_vars, NEW a \in Posts
  PROVE  /\ net'[a] = "unsent" => net[a] = "unsent"
         /\ net'[a] = "flying" => UnderWay(a)
         /\ net'[a] # "unsent" => net[a] # "unsent" \/ UnderWay(a)
         /\ net'[a] = "applied" => net[a] = "applied" \/ (net[a] = "flying" /\ taken' = taken \cup {a[1]})
         /\ taken \subseteq taken'
<1> USE DEF TypeOK
<1>1. ASSUME NEW p \in Process, Approve(p) PROVE
        /\ net'[a] = net[a] \/ (net'[a] = "flying" /\ UnderWay(a))
        /\ taken' = taken
  <2>1. CASE proc[p].att = a BY <1>1, <2>1 DEF Approve, UnderWay
  <2>2. CASE proc[p].att # a BY <1>1, <2>2 DEF Approve
  <2> QED BY <2>1, <2>2
<1>2. ASSUME NEW b \in Posts, Arrive(b) PROVE
        \/ net'[a] = net[a] /\ taken \subseteq taken'
        \/ net[a] = "flying" /\ net'[a] = "refused" /\ taken' = taken
        \/ net[a] = "flying" /\ net'[a] = "applied" /\ taken' = taken \cup {a[1]}
  BY <1>2 DEF Arrive
<1>3. net[a] = "flying" => UnderWay(a) BY DEF UnderWay
<1>4. CASE UNCHANGED <<net, taken>> BY <1>3, <1>4
<1> QED BY <1>1, <1>2, <1>3, <1>4 DEF Next, vars, Start, Signed, Answered, ObserveRoom,
        ObserveExport, ObserveRail, Finalize, WriteFile, Stop, Export, Evict, ForeignWrite

LEMMA BudgetsStep ==
  ASSUME TypeOK, CommandsInOrder, BudgetsInOrder, [Next]_vars
  PROVE  BudgetsInOrder'
<1> USE DEF TypeOK
<1>1. \A a \in Posts : net'[a] # "unsent" => a \in spent'
  <2>1. ASSUME NEW p \in Process, Approve(p) PROVE \A a \in Posts : net'[a] # "unsent" => a \in spent'
    BY <2>1 DEF Approve, Grant, BudgetsInOrder
  <2>2. ASSUME NEW b \in Posts, Arrive(b) PROVE \A a \in Posts : net'[a] # "unsent" => a \in spent'
    BY <2>2 DEF Arrive, BudgetsInOrder
  <2> QED BY <2>1, <2>2 DEF BudgetsInOrder, Next, vars, Start, Signed, Answered, ObserveRoom,
          ObserveExport, ObserveRail, Finalize, WriteFile, Stop, Export, Evict, ForeignWrite
<1>2. \A o \in SignedOps : copies'[o] <= Delivered(o)'
  <2> SUFFICES ASSUME NEW o \in SignedOps PROVE copies'[o] <= Delivered(o)' OBVIOUS
  <2> USE SubmitIsPost, FirstStep
  <2>1. ASSUME NEW p \in Process, Approve(p) PROVE copies'[o] <= Delivered(o)'
    <3>1. \A a \in Posts : net'[a] = "applied" <=> net[a] = "applied"
      <4>1. CASE proc[p].att[2] = "SIGN" BY <2>1, <4>1 DEF Approve
      <4>2. CASE proc[p].att[2] # "SIGN"
        <5>1. proc[p].att \in Posts BY <2>1, <4>2 DEF Approve, CommandsInOrder, Posts
        <5>2. net[proc[p].att] = "unsent" BY <2>1, <5>1 DEF Approve, Grant, BudgetsInOrder
        <5> QED BY <2>1, <4>2, <5>1, <5>2 DEF Approve
      <4> QED BY <4>1, <4>2
    <3> QED BY <2>1, <3>1 DEF Approve, BudgetsInOrder, Delivered
  <2>2. ASSUME NEW a \in Posts, Arrive(a) PROVE copies'[o] <= Delivered(o)'
    <3>1. net[a] = "flying" BY <2>2 DEF Arrive
    <3>2. CASE a[2] # "WRITE" /\ a[1] = o /\ copies' = [copies EXCEPT ![a[1]] = @ + 1]
               /\ net' = [net EXCEPT ![a] = "applied"]
      <4>1. a = <<o, "SUBMIT">> \/ (a = <<1, "SUBMIT2">> /\ o = 1) BY <3>2, PostCases
      <4> QED BY <3>1, <3>2, <4>1 DEF BudgetsInOrder, Delivered
    <3>3. CASE copies'[o] = copies[o] BY <2>2, <3>1, <3>3 DEF Arrive, BudgetsInOrder, Delivered
    <3> QED BY <2>2, <3>2, <3>3, PostCases DEF Arrive
  <2>3. ASSUME NEW d \in SignedOps, Evict(d) PROVE copies'[o] <= Delivered(o)'
    BY <2>3 DEF Evict, BudgetsInOrder, Delivered
  <2>4. CASE UNCHANGED <<net, copies>> BY <2>4 DEF BudgetsInOrder, Delivered
  <2> QED BY <2>1, <2>2, <2>3, <2>4 DEF Next, vars, Start, Signed, Answered, ObserveRoom,
          ObserveExport, ObserveRail, Finalize, WriteFile, Stop, Export, ForeignWrite
<1> QED BY <1>1, <1>2 DEF BudgetsInOrder

-----------------------------------------------------------------------------
(***************************************************************************)
(* Commands.                                                               *)
(***************************************************************************)

\* What one command does of itself: every step but the ones of its POST leaves
\* it idle, writing or reading the export.
LEMMA CommandStep ==
  ASSUME TypeOK, CommandsInOrder, [Next]_vars, NEW q \in Process
  PROVE  \/ proc'[q] = proc[q]
         \/ /\ proc'[q].pc = "PROMPT" /\ proc'[q].att \in Attempt /\ Ready(proc'[q].att)
            /\ proc'[q].files = {}
         \/ /\ proc'[q].pc = "SIGNING" /\ proc[q].pc = "PROMPT" /\ proc'[q].att = proc[q].att
            /\ proc[q].att[2] = "SIGN" /\ proc'[q].files = {}
         \/ /\ proc'[q].pc = "POSTING" /\ proc[q].pc = "PROMPT" /\ proc'[q].att = proc[q].att
            /\ proc[q].att[2] # "SIGN" /\ proc'[q].files = {} /\ net'[proc[q].att] = "flying"
         \/ proc'[q].pc = "EXPORT" /\ proc'[q].att \in SignedOps \X {"OBSERVE"} /\ proc'[q].files = {}
         \/ proc'[q].pc = "WRITING"
         \/ proc'[q].pc = "IDLE" /\ proc'[q].files = {}
<1> SUFFICES ASSUME proc'[q] # proc[q]
             PROVE  \/ /\ proc'[q].pc = "PROMPT" /\ proc'[q].att \in Attempt /\ Ready(proc'[q].att)
                       /\ proc'[q].files = {}
                    \/ /\ proc'[q].pc = "SIGNING" /\ proc[q].pc = "PROMPT" /\ proc'[q].att = proc[q].att
                       /\ proc[q].att[2] = "SIGN" /\ proc'[q].files = {}
                    \/ /\ proc'[q].pc = "POSTING" /\ proc[q].pc = "PROMPT" /\ proc'[q].att = proc[q].att
                       /\ proc[q].att[2] # "SIGN" /\ proc'[q].files = {} /\ net'[proc[q].att] = "flying"
                    \/ proc'[q].pc = "EXPORT" /\ proc'[q].att \in SignedOps \X {"OBSERVE"} /\ proc'[q].files = {}
                    \/ proc'[q].pc = "WRITING"
                    \/ proc'[q].pc = "IDLE" /\ proc'[q].files = {}
  OBVIOUS
<1> USE IdleCommand DEF TypeOK
<1>0. ASSUME NEW p \in Process, NEW step, Goes(p, step) PROVE q = p /\ proc'[q] = step
  BY <1>0 DEF Goes
<1>w. ASSUME NEW p \in Process, NEW files, Write(p, files)
      PROVE  proc'[q].pc = "WRITING" \/ (proc'[q].pc = "IDLE" /\ proc'[q].files = {})
  <2>1. CASE files = {} BY <1>w, <1>0, <2>1 DEF Write
  <2>2. CASE files # {}
    <3> DEFINE step == [Idle EXCEPT !.pc = "WRITING", !.files = files]
    <3>1. Goes(p, step) BY <1>w, <2>2 DEF Write
    <3>2. step.pc = "WRITING" BY DEF Idle
    <3> HIDE DEF step
    <3> QED BY <1>0, <3>1, <3>2
  <2> QED BY <2>1, <2>2
<1>1. ASSUME NEW p \in Process, Start(p)
      PROVE  proc'[q].pc = "PROMPT" /\ proc'[q].att \in Attempt /\ Ready(proc'[q].att) /\ proc'[q].files = {}
  <2> PICK a \in Attempt : Ready(a) /\ Goes(p, [Idle EXCEPT !.pc = "PROMPT", !.att = a, !.seen = note])
    BY <1>1 DEF Start
  <2> DEFINE step == [Idle EXCEPT !.pc = "PROMPT", !.att = a, !.seen = note]
  <2>1. step.pc = "PROMPT" /\ step.att = a /\ step.files = {} BY DEF Idle
  <2>2. Goes(p, step) OBVIOUS
  <2> HIDE DEF step
  <2> QED BY <1>0, <2>1, <2>2
<1>2. ASSUME NEW p \in Process, Approve(p)
      PROVE  /\ proc[q].pc = "PROMPT" /\ proc'[q].att = proc[q].att /\ proc'[q].files = {}
             /\ \/ proc'[q].pc = "SIGNING" /\ proc[q].att[2] = "SIGN"
                \/ proc'[q].pc = "POSTING" /\ proc[q].att[2] # "SIGN" /\ net'[proc[q].att] = "flying"
  <2>1. proc[p] \in Command /\ proc[p].pc = "PROMPT" /\ proc[p].files = {}
    BY <1>2 DEF Approve, CommandsInOrder
  <2>2. CASE proc[p].att[2] = "SIGN" BY <1>0, <1>2, <2>1, <2>2 DEF Approve, Command
  <2>3. CASE proc[p].att[2] # "SIGN"
    <3>1. proc[p].att \in Posts BY <1>2, <2>3 DEF Approve, CommandsInOrder, Posts
    <3>2. Goes(p, [proc[p] EXCEPT !.pc = "POSTING"]) BY <1>2, <2>3 DEF Approve
    <3>3. net'[proc[p].att] = "flying" BY <1>2, <2>3, <3>1 DEF Approve
    <3> QED BY <1>0, <2>1, <2>3, <3>2, <3>3 DEF Command
  <2> QED BY <2>2, <2>3
<1>3. ASSUME NEW p \in Process,
             Signed(p) \/ Answered(p) \/ ObserveExport(p) \/ ObserveRail(p) \/ Finalize(p)
      PROVE  proc'[q].pc = "WRITING" \/ (proc'[q].pc = "IDLE" /\ proc'[q].files = {})
  <2>1. \E files : Write(p, files)
    BY <1>3 DEF Signed, Answered, ObserveExport, ObserveRail, Finalize
  <2> QED BY <1>w, <2>1
<1>4. ASSUME NEW p \in Process, ObserveRoom(p)
      PROVE  \/ proc'[q].pc = "WRITING" \/ (proc'[q].pc = "IDLE" /\ proc'[q].files = {})
             \/ proc'[q].pc = "EXPORT" /\ proc'[q].att \in SignedOps \X {"OBSERVE"} /\ proc'[q].files = {}
  <2>1. \/ \E files : Write(p, files)
        \/ \E o \in SignedOps : Goes(p, [Idle EXCEPT !.pc = "EXPORT", !.att = <<o, "OBSERVE">>])
    BY <1>4 DEF ObserveRoom
  <2>2. CASE \E files : Write(p, files) BY <1>w, <2>2
  <2>3. ASSUME NEW o \in SignedOps, Goes(p, [Idle EXCEPT !.pc = "EXPORT", !.att = <<o, "OBSERVE">>])
        PROVE  proc'[q].pc = "EXPORT" /\ proc'[q].att \in SignedOps \X {"OBSERVE"} /\ proc'[q].files = {}
    <3> DEFINE step == [Idle EXCEPT !.pc = "EXPORT", !.att = <<o, "OBSERVE">>]
    <3>1. step.pc = "EXPORT" /\ step.att \in SignedOps \X {"OBSERVE"} /\ step.files = {} BY DEF Idle
    <3>2. Goes(p, step) BY <2>3
    <3> HIDE DEF step
    <3> QED BY <1>0, <3>1, <3>2
  <2> QED BY <2>1, <2>2, <2>3
<1>5. ASSUME NEW p \in Process, WriteFile(p) \/ Stop(p)
      PROVE  proc'[q].pc = "WRITING" \/ (proc'[q].pc = "IDLE" /\ proc'[q].files = {})
  <2>1. (\E files : Write(p, files)) \/ Goes(p, Idle) BY <1>5 DEF WriteFile, Stop
  <2> QED BY <1>0, <1>w, <2>1
<1> QED BY <1>1, <1>2, <1>3, <1>4, <1>5 DEF Next, vars, Export, Arrive, Evict, ForeignWrite

LEMMA CommandsStep ==
  ASSUME TypeOK, CommandsInOrder, [Next]_vars
  PROVE  CommandsInOrder'
<1> SUFFICES ASSUME NEW q \in Process
             PROVE  /\ proc'[q].pc = "PROMPT" => proc'[q].att \in Attempt
                    /\ proc'[q].pc = "SIGNING" => proc'[q].att \in SignedOps \X {"SIGN"}
                    /\ proc'[q].pc = "POSTING" => proc'[q].att \in Posts /\ net'[proc'[q].att] # "unsent"
                    /\ proc'[q].pc = "EXPORT" => proc'[q].att \in SignedOps \X {"OBSERVE"}
                    /\ proc'[q].pc # "WRITING" => proc'[q].files = {}
  BY DEF CommandsInOrder
<1>1. CASE proc'[q] = proc[q]
  <2>1. proc[q].pc = "POSTING" => net'[proc[q].att] # "unsent" BY NetStep DEF CommandsInOrder
  <2> QED BY <1>1, <2>1 DEF CommandsInOrder
<1>2. ASSUME proc[q].pc = "PROMPT", proc[q].att[2] = "SIGN" PROVE proc[q].att \in SignedOps \X {"SIGN"}
  <2>1. proc[q].att \in Attempt BY <1>2 DEF CommandsInOrder
  <2>2. CASE proc[q].att \in SignedOps \X {"SIGN", "SUBMIT"} BY <1>2, <2>2, PairParts
  <2>3. CASE proc[q].att \in RailOps \X {"WRITE"} BY <1>2, <2>3, PairParts
  <2> QED BY <1>2, <2>1, <2>2, <2>3 DEF Attempt
<1>3. ASSUME proc[q].pc = "PROMPT", proc[q].att[2] # "SIGN" PROVE proc[q].att \in Posts
  BY <1>3 DEF CommandsInOrder, Posts
<1> QED BY <1>1, <1>2, <1>3, CommandStep

-----------------------------------------------------------------------------
(***************************************************************************)
(* Steps are taken in their order.                                         *)
(***************************************************************************)

\* The files of an operation.
LEMMA FilesOf == \A o \in Operation, k \in Kinds : <<o, k>> \in File
BY DEF File

\* What the evidence calls public was taken.
LEMMA PublicTaken ==
  ASSUME TypeOK, FilesFounded, NEW o \in Operation, ObservedPublic(o)
  PROVE  o \in taken
<1> USE FilesOf DEF TypeOK
<1>1. \A k \in Kinds : disk[<<o, k>>] # "missing" => Founded(<<o, k>>, disk[<<o, k>>])
  BY DEF FilesFounded
<1>2. CASE o \in RailOps
  <2>1. disk[<<o, "receipt">>] = "written" BY <1>2 DEF ObservedPublic
  <2> QED BY <1>1, <2>1 DEF Founded, Kinds
<1>3. CASE o \notin RailOps
  <2>1. Effective(o) \in PublicMatches BY <1>3 DEF ObservedPublic
  <2>2. \E k \in {"observation", "corrected"} : disk[<<o, k>>] \in PublicMatches
    BY <2>1 DEF Effective, PublicMatches
  <2>3. PICK k \in {"observation", "corrected"} : disk[<<o, k>>] \in PublicMatches BY <2>2
  <2>4. disk[<<o, k>>] # "missing" BY <2>3 DEF PublicMatches
  <2> QED BY <1>1, <2>3, <2>4 DEF Founded, Kinds
<1> QED BY <1>2, <1>3

LEMMA EvidenceTrue == TypeOK /\ FilesFounded => EvidenceIsTrue
BY PublicTaken DEF EvidenceIsTrue

\* A request gets under way only when it is ready.
LEMMA UnderWayStep ==
  ASSUME TypeOK, CommandsInOrder, [Next]_vars, NEW a \in Posts, UnderWay(a)'
  PROVE  UnderWay(a) \/ Ready(a)
<1>1. CASE net'[a] = "flying" BY <1>1, NetStep
<1>2. ASSUME NEW q \in Process, proc'[q].pc \in {"PROMPT", "POSTING"}, proc'[q].att = a
      PROVE  UnderWay(a) \/ Ready(a)
  BY <1>2, CommandStep DEF UnderWay
<1> QED BY <1>1, <1>2 DEF UnderWay

\* A request is ready only after everything before it was taken.
LEMMA ReadyAfter ==
  ASSUME TypeOK, StepsInOrder, FilesFounded, NEW a \in Posts, Ready(a)
  PROVE  1 .. a[1] - 1 \subseteq taken
<1>1. CASE a[2] = "SUBMIT2"
  <2>1. a[1] = 1 BY <1>1, PostCases
  <2> QED BY <2>1
<1>2. CASE a[2] # "SUBMIT2"
  <2>1. a[2] \in {"SUBMIT", "WRITE"} /\ a[1] \in Operation BY <1>2, PostCases
  <2>2. PredecessorPublic(a[1]) BY <2>1 DEF Ready
  <2>3. CASE a[1] > 1
    <3>1. a[1] - 1 \in Operation BY <2>1, <2>3, OrderAssumption DEF Operation
    <3>2. a[1] - 1 \in taken BY <2>2, <2>3, <3>1, PublicTaken DEF PredecessorPublic
    <3> QED BY <3>2 DEF StepsInOrder
  <2>4. CASE ~ (a[1] > 1) BY <2>1, <2>4, OrderAssumption DEF Operation
  <2> QED BY <2>3, <2>4
<1> QED BY <1>1, <1>2

\* The venue takes a step that was under way.
LEMMA TakenStep ==
  ASSUME TypeOK, CommandsInOrder, [Next]_vars
  PROVE  \/ taken' = taken
         \/ \E a \in Posts : UnderWay(a) /\ taken' = taken \cup {a[1]}
<1>1. ASSUME NEW a \in Posts, Arrive(a)
      PROVE  taken' = taken \/ (UnderWay(a) /\ taken' = taken \cup {a[1]})
  BY <1>1 DEF Arrive, UnderWay
<1> QED BY <1>1 DEF Next, vars, Start, Approve, Signed, Answered, ObserveRoom, ObserveExport,
        ObserveRail, Finalize, WriteFile, Stop, Export, Evict, ForeignWrite

LEMMA StepsStep ==
  ASSUME TypeOK, CommandsInOrder, StepsInOrder, FilesFounded, [Next]_vars
  PROVE  StepsInOrder'
<1>1. taken \subseteq taken' BY FirstStep, NetStep
<1>2. \A o \in taken' : 1 .. o \subseteq taken'
  <2>1. CASE taken' = taken BY <2>1 DEF StepsInOrder
  <2>2. ASSUME NEW a \in Posts, UnderWay(a), taken' = taken \cup {a[1]}
        PROVE  \A o \in taken' : 1 .. o \subseteq taken'
    <3>1. 1 .. a[1] - 1 \subseteq taken BY <2>2 DEF StepsInOrder
    <3>2. a[1] \in Nat BY PostCases, Numbers
    <3>3. 1 .. a[1] \subseteq (1 .. a[1] - 1) \cup {a[1]} BY <3>2
    <3> QED BY <2>2, <3>1, <3>3 DEF StepsInOrder
  <2> QED BY <2>1, <2>2, TakenStep
<1>3. ASSUME NEW a \in Posts, UnderWay(a)' PROVE 1 .. a[1] - 1 \subseteq taken'
  <2>1. UnderWay(a) \/ Ready(a) BY <1>3, UnderWayStep
  <2>2. 1 .. a[1] - 1 \subseteq taken BY <2>1, ReadyAfter DEF StepsInOrder
  <2> QED BY <1>1, <2>2
<1>4. ASSUME NEW a \in Posts, net'[a] = "applied" PROVE a[1] \in taken'
  BY <1>1, <1>4, NetStep DEF StepsInOrder
<1> QED BY <1>2, <1>3, <1>4 DEF StepsInOrder

-----------------------------------------------------------------------------
(***************************************************************************)
(* Files are created once.                                                 *)
(***************************************************************************)

\* A file that is on disk stays as it is; one that appears was about to be
\* written, and says what its writer meant or is torn.
LEMMA DiskStep ==
  ASSUME TypeOK, [Next]_vars, NEW f \in File
  PROVE  \/ disk'[f] = disk[f]
         \/ /\ disk[f] = "missing"
            /\ \E p \in Process : \E w \in proc[p].files : w[1] = f /\ disk'[f] \in {w[2], "torn"}
<1> USE DEF TypeOK
<1>1. ASSUME NEW p \in Process, WriteFile(p) \/ Stop(p)
      PROVE  \/ disk' = disk
             \/ \E w \in proc[p].files, v \in Content \cup {"torn"} :
                  disk[w[1]] = "missing" /\ v \in {w[2], "torn"} /\ disk' = [disk EXCEPT ![w[1]] = v]
  <2>1. \A w \in proc[p].files : w[2] \in Content BY DEF Command
  <2> QED BY <1>1, <2>1 DEF WriteFile, Stop, NextWrite
<1>2. ASSUME NEW p \in Process, NEW w \in proc[p].files, NEW v, v \in {w[2], "torn"},
             disk[w[1]] = "missing", disk' = [disk EXCEPT ![w[1]] = v]
      PROVE  \/ disk'[f] = disk[f]
             \/ disk[f] = "missing" /\ w[1] = f /\ disk'[f] \in {w[2], "torn"}
  BY <1>2
<1>3. disk' = disk \/ \E p \in Process : WriteFile(p) \/ Stop(p)
  BY DEF Next, vars, Start, Approve, Signed, Answered, ObserveRoom,
         ObserveExport, ObserveRail, Finalize, Export, Arrive, Evict, ForeignWrite
<1>4. ASSUME NEW p \in Process, WriteFile(p) \/ Stop(p), disk' # disk
      PROVE  \/ disk'[f] = disk[f]
             \/ /\ disk[f] = "missing"
                /\ \E w \in proc[p].files : w[1] = f /\ disk'[f] \in {w[2], "torn"}
  BY <1>1, <1>2, <1>4
<1> QED BY <1>3, <1>4

\* What is on disk is final.
LEMMA DiskFinal ==
  ASSUME TypeOK, [Next]_vars, NEW f \in File, disk[f] # "missing"
  PROVE  disk'[f] = disk[f]
BY DiskStep

\* A corrected observation or a reconciliation appears only where the first
\* observation found nothing.
LEMMA CorrectionStep ==
  ASSUME TypeOK, FilesFounded, [Next]_vars, NEW o \in Operation,
         NEW k \in {"corrected", "reconciliation"}
  PROVE  disk'[<<o, k>>] = disk[<<o, k>>] \/ disk[<<o, "observation">>] = "ABSENT"
<1>1. <<o, k>> \in File BY FilesOf DEF Kinds
<1>2. ASSUME NEW p \in Process, NEW w \in proc[p].files, w[1] = <<o, k>>
      PROVE  disk[<<o, "observation">>] = "ABSENT"
  <2>1. Founded(<<o, k>>, w[2]) BY <1>2 DEF FilesFounded
  <2> QED BY <2>1 DEF Founded
<1> QED BY <1>1, <1>2, DiskStep

\* The observation that stands for an operation stands for good once it is
\* public.
LEMMA EffectiveStands ==
  ASSUME TypeOK, FilesFounded, [Next]_vars, NEW o \in Operation, Effective(o) \in PublicMatches
  PROVE  Effective(o)' = Effective(o)
<1> DEFINE first == disk[<<o, "observation">>]
           corrected == disk[<<o, "corrected">>]
           reconciliation == disk[<<o, "reconciliation">>]
<1>0. /\ <<o, "observation">> \in File /\ <<o, "corrected">> \in File
      /\ <<o, "reconciliation">> \in File
  BY FilesOf DEF Kinds
<1>1. CASE corrected = "missing" \/ reconciliation = "missing"
  <2>1. first \in PublicMatches BY <1>1 DEF Effective, PublicMatches
  <2>2. first # "ABSENT" /\ first # "missing" BY <2>1 DEF PublicMatches
  <2>3. first' = first BY <1>0, <2>2, DiskFinal
  <2>4. corrected' = corrected /\ reconciliation' = reconciliation BY <2>2, CorrectionStep
  <2> QED BY <2>3, <2>4 DEF Effective
<1>2. CASE corrected # "missing" /\ reconciliation # "missing"
  <2>1. corrected' = corrected /\ reconciliation' = reconciliation BY <1>0, <1>2, DiskFinal
  <2>2. first = "ABSENT" BY <1>2 DEF Effective, PublicMatches
  <2>3. first' = first BY <1>0, <2>2, DiskFinal
  <2> QED BY <2>1, <2>3 DEF Effective
<1> QED BY <1>1, <1>2

\* What was observed as public stays so.
LEMMA PublicStands ==
  ASSUME TypeOK, FilesFounded, [Next]_vars, NEW o \in Operation, ObservedPublic(o)
  PROVE  ObservedPublic(o)'
<1>1. CASE o \in RailOps
  <2>1. <<o, "railobservation">> \in File /\ <<o, "receipt">> \in File BY FilesOf DEF Kinds
  <2> QED BY <1>1, <2>1, DiskFinal DEF ObservedPublic
<1>2. CASE o \notin RailOps BY <1>2, EffectiveStands DEF ObservedPublic
<1> QED BY <1>1, <1>2

\* What a file rests on stays.
LEMMA FoundedStands ==
  ASSUME TypeOK, CommandsInOrder, FilesFounded, [Next]_vars, NEW f \in File, NEW v, Founded(f, v)
  PROVE  Founded(f, v)'
<1>1. taken \subseteq taken' BY FirstStep, NetStep
<1>2. net[<<1, "SUBMIT">>] # "unsent" => net'[<<1, "SUBMIT">>] # "unsent" BY FirstStep, NetStep
<1>3. ASSUME f[2] \in {"corrected", "reconciliation"}
      PROVE  disk'[<<f[1], "observation">>] = "ABSENT"
  <2>1. f[1] \in Operation
    <3>1. f # Capsule BY <1>3 DEF Capsule
    <3> QED BY <3>1, PairParts DEF File
  <2>2. <<f[1], "observation">> \in File BY <2>1, FilesOf DEF Kinds
  <2>3. disk[<<f[1], "observation">>] = "ABSENT" BY <1>3 DEF Founded
  <2> QED BY <2>2, <2>3, DiskFinal
<1>4. AllObserved => AllObserved' BY PublicStands DEF AllObserved
<1>5. (\A o \in SignedOps : Effective(o) = "ONE_MATCH") => (\A o \in SignedOps : Effective(o) = "ONE_MATCH")'
  BY EffectiveStands, Numbers DEF PublicMatches
<1> QED BY <1>1, <1>2, <1>3, <1>4, <1>5 DEF Founded

-----------------------------------------------------------------------------
(***************************************************************************)
(* What files say has happened.                                            *)
(***************************************************************************)

\* A message in its room was taken by the venue.
LEMMA CopiesTaken ==
  ASSUME TypeOK, BudgetsInOrder, StepsInOrder, NEW o \in SignedOps, copies[o] > 0
  PROVE  o \in taken
<1>1. Delivered(o) > 0
  <2>1. copies[o] <= Delivered(o) /\ copies[o] \in Nat BY DEF BudgetsInOrder, TypeOK
  <2> QED BY <2>1 DEF Delivered
<1>2. net[<<o, "SUBMIT">>] = "applied" \/ (o = 1 /\ net[<<1, "SUBMIT2">>] = "applied")
  BY <1>1 DEF Delivered
<1> QED BY <1>2, FirstStep, SubmitIsPost DEF StepsInOrder

\* An observation that found something of a step the venue took is founded.
LEMMA ObservationFounded ==
  ASSUME NEW o \in SignedOps, NEW found \in PublicMatches \cup {"ABSENT"},
         found \in PublicMatches => o \in taken,
         NEW w \in Reconciled(o, found)
  PROVE  Founded(w[1], w[2])
<1>1. CASE w = <<<<o, "observation">>, found>>
  BY <1>1 DEF Founded, Capsule
<1>2. CASE /\ w \in {<<<<o, "corrected">>, found>>, <<<<o, "reconciliation">>, "written">>}
           /\ disk[<<o, "observation">>] = "ABSENT"
  BY <1>2 DEF Founded, Capsule
<1> QED BY <1>1, <1>2 DEF Reconciled

\* A torn file says no more than the whole one.
LEMMA TornFounded ==
  ASSUME NEW f, NEW v, Founded(f, v)
  PROVE  Founded(f, "torn")
BY DEF Founded, PublicMatches

\* What a command is about to write has happened.
LEMMA FilesStep ==
  ASSUME TypeOK, CommandsInOrder, BudgetsInOrder, StepsInOrder, FilesFounded, [Next]_vars,
         NEW q \in Process, NEW w \in proc'[q].files
  PROVE  Founded(w[1], w[2])
<1> SUFFICES ASSUME w \notin proc[q].files PROVE Founded(w[1], w[2])
  BY DEF FilesFounded
<1>0. ASSUME NEW p \in Process, NEW files, Write(p, files) PROVE w \in files
  <2>1. ASSUME NEW step, Goes(p, step) PROVE w \in step.files
    BY <2>1 DEF Goes, TypeOK
  <2>2. CASE files = {} BY <1>0, <2>1, <2>2, IdleCommand DEF Write
  <2>3. CASE files # {}
    <3> DEFINE step == [Idle EXCEPT !.pc = "WRITING", !.files = files]
    <3>1. Goes(p, step) BY <1>0, <2>3 DEF Write
    <3>2. step.files = files BY DEF Idle
    <3> HIDE DEF step
    <3> QED BY <2>1, <3>1, <3>2
  <2> QED BY <2>2, <2>3
<1>1. ASSUME NEW p \in Process, Signed(p) PROVE Founded(w[1], w[2])
  <2>1. w = <<<<proc[p].att[1], "pending">>, "written">> BY <1>0, <1>1 DEF Signed
  <2> QED BY <2>1 DEF Founded, Capsule
<1>2. ASSUME NEW p \in Process, Answered(p) PROVE Founded(w[1], w[2])
  <2> DEFINE a == proc[p].att
  <2>1. a \in Posts /\ net[a] # "unsent" BY <1>2 DEF Answered, CommandsInOrder
  <2>2. PICK status \in Statuses(net[a]) :
          CASE a[2] = "SUBMIT"  -> Write(p, {<<<<a[1], "submit">>, Classified(status)>>})
            [] a[2] = "SUBMIT2" -> Write(p, {<<<<a[1], "submit2">>, Classified(status)>>})
            [] OTHER -> Write(p, IF Confirms(status) THEN {<<<<a[1], "receipt">>, "written">>} ELSE {})
    BY <1>2 DEF Answered
  <2> HIDE DEF a
  <2>3. CASE a[2] = "SUBMIT"
    <3>1. w = <<<<a[1], "submit">>, Classified(status)>> BY <1>0, <2>2, <2>3
    <3>2. a[1] = 1 => net[<<1, "SUBMIT">>] # "unsent" BY <2>1, <2>3, PostCases
    <3> QED BY <3>1, <3>2 DEF Founded, Capsule
  <2>4. CASE a[2] = "SUBMIT2"
    <3>1. w = <<<<a[1], "submit2">>, Classified(status)>> BY <1>0, <2>2, <2>4
    <3> QED BY <3>1 DEF Founded, Capsule
  <2>5. CASE a[2] \notin {"SUBMIT", "SUBMIT2"}
    <3>1. Write(p, IF Confirms(status) THEN {<<<<a[1], "receipt">>, "written">>} ELSE {})
      BY <2>2, <2>5
    <3>2. w = <<<<a[1], "receipt">>, "written">> /\ status = "200" BY <1>0, <3>1 DEF Confirms
    <3>3. net[a] = "applied" BY <3>2, ClassifiedTyped
    <3>4. a[1] \in taken BY <2>1, <3>3 DEF StepsInOrder
    <3> QED BY <3>2, <3>4 DEF Founded, Capsule
  <2> QED BY <2>3, <2>4, <2>5
<1>3. ASSUME NEW p \in Process, NEW o \in SignedOps, NEW n \in 0 .. copies[o],
             Write(p, Reconciled(o, Matches(n)))
      PROVE  Founded(w[1], w[2])
  <2>1. copies[o] \in 0 .. 2 BY DEF TypeOK
  <2>2. n \in 0 .. 2 BY <2>1
  <2>3. Matches(n) \in PublicMatches => o \in taken BY <2>1, <2>2, MatchesTyped, CopiesTaken
  <2>4. w \in Reconciled(o, Matches(n)) BY <1>0, <1>3
  <2> QED BY <2>2, <2>3, <2>4, MatchesTyped, ObservationFounded
<1>4. ASSUME NEW p \in Process, ObserveRoom(p) PROVE Founded(w[1], w[2])
  <2> PICK o \in SignedOps :
        \/ \E n \in 1 .. copies[o] : Write(p, Reconciled(o, Matches(n)))
        \/ Goes(p, [Idle EXCEPT !.pc = "EXPORT", !.att = <<o, "OBSERVE">>])
    BY <1>4 DEF ObserveRoom
  <2>1. ASSUME NEW n \in 1 .. copies[o], Write(p, Reconciled(o, Matches(n)))
        PROVE  Founded(w[1], w[2])
    <3>1. n \in 0 .. copies[o] BY DEF TypeOK
    <3> QED BY <1>3, <2>1, <3>1
  <2>2. CASE Goes(p, [Idle EXCEPT !.pc = "EXPORT", !.att = <<o, "OBSERVE">>])
    <3> DEFINE step == [Idle EXCEPT !.pc = "EXPORT", !.att = <<o, "OBSERVE">>]
    <3>1. step.files = {} BY DEF Idle
    <3>2. Goes(p, step) BY <2>2
    <3> HIDE DEF step
    <3> QED BY <3>1, <3>2 DEF Goes, TypeOK
  <2> QED BY <2>1, <2>2
<1>5. ASSUME NEW p \in Process, ObserveExport(p) PROVE Founded(w[1], w[2])
  <2>1. proc[p].att \in SignedOps \X {"OBSERVE"} BY <1>5 DEF ObserveExport, CommandsInOrder
  <2>2. proc[p].att[1] \in SignedOps BY <2>1, PairParts
  <2>3. copies[proc[p].att[1]] \in 0 .. copies[proc[p].att[1]] BY <2>2 DEF TypeOK
  <2> QED BY <1>3, <1>5, <2>2, <2>3 DEF ObserveExport
<1>6. ASSUME NEW p \in Process, ObserveRail(p) PROVE Founded(w[1], w[2])
  <2>1. PICK o \in RailOps, v \in {"INVALID", "MATCH", "MISMATCH"} :
          Write(p, {<<<<o, "railobservation">>, v>>})
    BY <1>6 DEF ObserveRail
  <2>2. w = <<<<o, "railobservation">>, v>> BY <1>0, <2>1
  <2> QED BY <2>2 DEF Founded, Capsule
<1>7. ASSUME NEW p \in Process, Finalize(p) PROVE Founded(w[1], w[2])
  <2>1. w = <<Capsule, IF \A o \in SignedOps : Effective(o) = "ONE_MATCH"
                       THEN "EXPORTABLE" ELSE "SEALED">>
    BY <1>0, <1>7 DEF Finalize
  <2>2. AllObserved BY <1>7 DEF Finalize
  <2> QED BY <2>1, <2>2 DEF Founded, Capsule
<1>8. ASSUME NEW p \in Process, WriteFile(p) PROVE Founded(w[1], w[2])
  <2>1. CASE \E v \in NextWrite(p) : Write(p, proc[p].files \ {v})
    <3>1. w \in proc[p].files BY <1>0, <2>1
    <3> QED BY <3>1 DEF FilesFounded
  <2>2. CASE Goes(p, Idle) BY <2>2, IdleCommand DEF Goes, TypeOK
  <2> QED BY <1>8, <2>1, <2>2 DEF WriteFile
<1>9. ASSUME NEW p \in Process, Start(p) \/ Approve(p) \/ Stop(p) PROVE FALSE
  <2>1. PICK step : Goes(p, step) /\ (step.files = {} \/ step.files = proc[p].files)
    <3>1. CASE Start(p)
      <4> PICK a \in Attempt : Goes(p, [Idle EXCEPT !.pc = "PROMPT", !.att = a, !.seen = note])
        BY <3>1 DEF Start
      <4>1. [Idle EXCEPT !.pc = "PROMPT", !.att = a, !.seen = note].files = {} BY DEF Idle
      <4> QED BY <4>1
    <3>2. CASE Approve(p)
      <4>1. PICK pc \in Pcs : Goes(p, [proc[p] EXCEPT !.pc = pc]) BY <3>2 DEF Approve, Pcs
      <4>2. [proc[p] EXCEPT !.pc = pc].files = proc[p].files BY DEF TypeOK, Command
      <4> QED BY <4>1, <4>2
    <3>3. CASE Stop(p) BY <3>3, IdleCommand DEF Stop
    <3> QED BY <1>9, <3>1, <3>2, <3>3
  <2> QED BY <2>1 DEF Goes, TypeOK
<1>10. CASE proc' = proc BY <1>10
<1> QED BY <1>1, <1>2, <1>4, <1>5, <1>6, <1>7, <1>8, <1>9, <1>10
        DEF Next, vars, Export, Arrive, Evict, ForeignWrite

LEMMA FoundedStep ==
  ASSUME TypeOK, CommandsInOrder, BudgetsInOrder, StepsInOrder, FilesFounded, [Next]_vars
  PROVE  FilesFounded'
<1>1. ASSUME NEW f \in File, disk'[f] # "missing" PROVE Founded(f, disk[f])'
  <2>1. Founded(f, disk'[f])
    <3>1. CASE disk'[f] = disk[f] BY <1>1, <3>1 DEF FilesFounded
    <3>2. ASSUME NEW p \in Process, NEW w \in proc[p].files, w[1] = f, disk'[f] \in {w[2], "torn"}
          PROVE  Founded(f, disk'[f])
      <4>1. Founded(f, w[2]) BY <3>2 DEF FilesFounded
      <4> QED BY <3>2, <4>1, TornFounded
    <3> QED BY <3>1, <3>2, DiskStep
  <2> PICK v : v = disk'[f] OBVIOUS
  <2>2. Founded(f, v)' BY <2>1, FoundedStands
  <2> QED BY <2>2 DEF Founded
<1>2. ASSUME NEW p \in Process, NEW w \in proc'[p].files PROVE Founded(w[1], w[2])'
  <2>1. Founded(w[1], w[2]) BY FilesStep
  <2>2. proc'[p] \in Command BY ProcTyped
  <2>3. w \in File \X Content BY <2>2 DEF Command
  <2>4. w[1] \in File BY <2>3, PairParts
  <2> QED BY <2>1, <2>4, FoundedStands
<1>3. exported' # "none" => disk'[Capsule] = "EXPORTABLE"
  <2>1. Capsule \in File BY DEF File
  <2>2. exported' # "none" => disk[Capsule] = "EXPORTABLE"
    BY DEF FilesFounded, Next, vars, Start, Approve, Signed, Answered, ObserveRoom, ObserveExport,
           ObserveRail, Finalize, WriteFile, Stop, Export, Exportable, Arrive, Evict, ForeignWrite
  <2> QED BY <2>1, <2>2, DiskFinal
<1> QED BY <1>1, <1>2, <1>3 DEF FilesFounded

LEMMA RecoveryStep ==
  ASSUME TypeOK, CommandsInOrder, RecoveryFounded, [Next]_vars
  PROVE  RecoveryFounded'
<1> DEFINE second == <<1, "SUBMIT2">>
<1>0. second \in Posts /\ <<1, "submit">> \in File /\ <<1, "observation">> \in File
  BY FirstStep, Numbers, FilesOf DEF Kinds
<1> SUFFICES ASSUME net'[second] # "unsent" \/ UnderWay(second)'
             PROVE  disk'[<<1, "submit">>] = "UNCERTAIN_500" /\ disk'[<<1, "observation">>] = "ABSENT"
  BY DEF RecoveryFounded
<1>1. net[second] # "unsent" \/ UnderWay(second) \/ Ready(second) BY <1>0, NetStep, UnderWayStep
<1>2. disk[<<1, "submit">>] = "UNCERTAIN_500" /\ disk[<<1, "observation">>] = "ABSENT"
  BY <1>1 DEF RecoveryFounded, Ready, RecoveryEligible
<1> QED BY <1>0, <1>2, DiskFinal

LEMMA StepInductive == Inductive /\ [Next]_vars => Inductive'
BY TypeStep, CommandsStep, BudgetsStep, StepsStep, FoundedStep, RecoveryStep DEF Inductive

-----------------------------------------------------------------------------
(***************************************************************************)
(* The results.                                                            *)
(***************************************************************************)

\* Why the evidence can be trusted is inductive.
THEOREM LineageInductive == Spec => []Inductive
<1>1. Init => Inductive BY InitInductive
<1>2. Inductive /\ [Next]_vars => Inductive' BY StepInductive
<1> QED BY <1>1, <1>2, PTL DEF Spec

\* The evidence files say what happened, the second attempt rests on the
\* evidence it asks for, and nothing is exported that was not found once.
THEOREM LineageEvidenceHolds == Spec => []EvidenceHolds
<1>1. ASSUME Inductive PROVE EvidenceHolds
  <2> USE <1>1 DEF Inductive
  <2>1. EvidenceIsTrue BY EvidenceTrue
  <2>2. RecoveryRestsOnEvidence
    <3>1. <<1, "submit">> \in File BY FirstStep, Numbers, FilesOf DEF Kinds
    <3>2. disk[<<1, "submit">>] # "missing" => net[<<1, "SUBMIT">>] # "unsent"
      BY <3>1 DEF FilesFounded, Founded
    <3> QED BY <3>2 DEF RecoveryFounded, RecoveryRestsOnEvidence
  <2>3. ExportedOnce
    <3>1. Capsule \in File BY DEF File
    <3>2. exported # "none" => Founded(Capsule, "EXPORTABLE") BY <3>1 DEF FilesFounded
    <3> QED BY <3>2 DEF Founded, AllObserved, ExportedOnce
  <2> QED BY <2>1, <2>2, <2>3 DEF EvidenceHolds
<1> QED BY <1>1, LineageInductive, PTL

\* A prompt answered late, a crash or a command run twice never posts again.
THEOREM LineageOneCopyPerBudget == Spec => []OneCopyPerBudget
<1>1. ASSUME Inductive PROVE OneCopyPerBudget
  <2> SUFFICES ASSUME NEW o \in SignedOps
               PROVE  copies[o] <= 1 \/ (o = 1 /\ <<1, "SUBMIT2">> \in spent)
    BY DEF OneCopyPerBudget
  <2>1. copies[o] <= Delivered(o) /\ copies[o] \in 0 .. 2
    BY <1>1 DEF Inductive, BudgetsInOrder, TypeOK
  <2>2. net[<<1, "SUBMIT2">>] = "applied" => <<1, "SUBMIT2">> \in spent
    BY <1>1, FirstStep DEF Inductive, BudgetsInOrder
  <2> QED BY <2>1, <2>2 DEF Delivered
<1> QED BY <1>1, LineageInductive, PTL

\* What was observed as public stays so, whatever else is written or torn.
THEOREM LineageObservationsStand == Spec => ObservationsStand
<1>1. Inductive /\ [Next]_vars => [\A o \in Operation : ObservedPublic(o) => ObservedPublic(o)']_vars
  BY PublicStands DEF Inductive
<1> QED BY <1>1, LineageInductive, PTL DEF Spec, ObservationsStand

\* The lineage implements its abstraction: one operation after the other
\* becomes public, and a capsule is complete only over all of them.
THEOREM LineageImplementsStages == Spec => ImplementsStages
<1> DEFINE complete == disk[Capsule] \in {"EXPORTABLE", "SEALED"}
<1>0. Capsule \in File BY DEF File
<1>1. Init => Staged!StagedInit BY <1>0 DEF Init, Staged!StagedInit
<1>2. Inductive /\ [Next]_vars => [Staged!Publish \/ Staged!Seal]_Staged!stagedVars
  <2> SUFFICES ASSUME Inductive, [Next]_vars
               PROVE  Staged!Publish \/ Staged!Seal \/ UNCHANGED <<taken, complete>>
    BY DEF Staged!stagedVars
  <2> USE DEF Inductive
  <2>1. ASSUME taken' # taken PROVE Staged!Publish
    <3>1. PICK a \in Posts : Arrive(a)
      BY <2>1 DEF Next, vars, Start, Approve, Signed, Answered, ObserveRoom, ObserveExport,
                  ObserveRail, Finalize, WriteFile, Stop, Export, Evict, ForeignWrite
    <3>2. taken' = taken \cup {a[1]} /\ net[a] = "flying" /\ disk' = disk BY <2>1, <3>1 DEF Arrive
    <3>3. a[1] \in (1 .. Len(Order)) \ taken BY <2>1, <3>2, PostCases DEF Operation
    <3>4. 1 .. a[1] - 1 \subseteq taken BY <3>2 DEF StepsInOrder, UnderWay
    <3> QED BY <3>2, <3>3, <3>4 DEF Staged!Publish
  <2>2. ASSUME taken' = taken, complete' # complete PROVE Staged!Seal
    <3>1. disk[Capsule] = "missing" /\ complete'
      BY <1>0, <2>2, DiskFinal
    <3>2. AllObserved'
      <4>1. FilesFounded' BY StepInductive
      <4> QED BY <1>0, <3>1, <4>1 DEF FilesFounded, Founded
    <3>3. Operation \subseteq taken'
      <4>1. TypeOK' /\ FilesFounded' BY StepInductive
      <4>2. EvidenceIsTrue' BY <4>1, EvidenceTrue, PTL
      <4> QED BY <3>2, <4>2 DEF AllObserved, EvidenceIsTrue
    <3>4. taken = 1 .. Len(Order) BY <2>2, <3>3 DEF TypeOK, Operation
    <3> QED BY <2>2, <3>1, <3>4 DEF Staged!Seal
  <2> QED BY <2>1, <2>2
<1> QED BY <1>1, <1>2, LineageInductive, PTL DEF Spec, ImplementsStages, Staged!StagedSpec
=============================================================================
