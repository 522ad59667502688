--------------------------- MODULE DealHubProofs ---------------------------
(***************************************************************************)
(* Proofs about DealHub for any steps, any number of concurrent requests   *)
(* and any number of crashes.                                              *)
(***************************************************************************)
EXTENDS DealHub, TLAPS

\* The operations are an initial segment of the positive integers.
LEMMA OperationFacts ==
    /\ Operation \subseteq Nat \ {0}
    /\ 1 \in Operation
    /\ \A o \in Operation : \A p \in 1 .. (o - 1) : p \in Operation
    /\ \A o, p \in Operation : Steps[o] = Steps[p] => o = p
    /\ \A o \in Operation : Steps[o] \in RailSteps \cup SignedSteps
  BY StepsAssumption DEF Operation

-----------------------------------------------------------------------------
(***************************************************************************)
(* What the helpers on sessions return.                                    *)
(***************************************************************************)
\* A new session is a session in which only the first operation is open.
LEMMA NewSessionFacts ==
    /\ NewSession \in Session
    /\ \A o \in Operation : NewSession.state[o] \notin FinalStates
    /\ \A o \in Operation : NewSession.state[o] # "BLOCKED" => o = 1
  BY DEF NewSession, Session, States, FinalStates

\* prepare() chooses an action only for an operation that waits for one.
LEMMA NextActionFacts ==
    ASSUME NEW s \in Session, NEW o \in Operation
    PROVE  /\ NextAction(s, o) \in Action \cup {NoAction}
           /\ NextAction(s, o) # NoAction
                => s.state[o] \in {"READY", "SIGNED", "NOT_OBSERVED"}
  BY DEF NextAction, Action, Recovery

\* prepare() yields a session that differs in the state of the operation and
\* in what is pending for it.
LEMMA PreparedFacts ==
    ASSUME NEW s \in Session, NEW o \in Operation, NEW action \in Action
    PROVE  /\ Prepared(s, o, action) \in Session
           /\ Prepared(s, o, action).state = [s.state EXCEPT ![o] = "AWAITING_LOCAL_APPROVAL"]
  BY DEF Prepared, Session, States

\* execute() yields a session that differs in the state of the operation, in
\* what is pending for it and in the attempts.
LEMMA RecordedFacts ==
    ASSUME NEW s \in Session, NEW o \in Operation, NEW result \in Results,
           s.pending[o] # NoAction
    PROVE  /\ Recorded(s, o, result) \in Session
           /\ Recorded(s, o, result).state = [s.state EXCEPT ![o] = result]
<1>1. [op |-> o, action |-> s.pending[o], result |-> result]
        \in [op : Operation, action : Action, result : Results]
  BY DEF Session
<1>2. result \in States
  BY DEF Results, States
<1>3. QED
  BY <1>1, <1>2 DEF Recorded, Session

\* Verifying an operation opens at most its successor.
LEMMA VerifiedFacts ==
    ASSUME NEW s \in Session, NEW o \in Operation
    PROVE  /\ Verified(s, o) \in Session
           /\ Verified(s, o).state[o] = "VERIFIED"
           /\ \A p \in Operation \ {o, o + 1} : Verified(s, o).state[p] = s.state[p]
           /\ \A p \in Operation : p = o + 1 =>
                 Verified(s, o).state[p] = IF s.state[p] = "BLOCKED" THEN "READY" ELSE s.state[p]
<1> DEFINE st == [p \in Operation |->
        CASE p = o -> "VERIFIED"
          [] p = o + 1 /\ s.state[p] = "BLOCKED" -> "READY"
          [] OTHER -> s.state[p]]
<1>1. Verified(s, o) = [s EXCEPT !.state = st]
  BY DEF Verified
<1>2. o # o + 1
  BY OperationFacts
<1>3. st \in [Operation -> States]
  BY DEF Session, States
<1>4. Verified(s, o) \in Session /\ Verified(s, o).state = st
  BY <1>1, <1>3 DEF Session
<1>5. QED
  BY <1>2, <1>4

\* An observation that found nothing keeps everything but the operation's state.
LEMMA NotObservedFacts ==
    ASSUME NEW s \in Session, NEW o \in Operation
    PROVE  /\ NotObserved(s, o) \in Session
           /\ NotObserved(s, o).state = [s.state EXCEPT ![o] = "NOT_OBSERVED"]
<1>1. RecoveryAvailable(s, o) \in BOOLEAN
  BY DEF RecoveryAvailable
<1>2. QED
  BY <1>1 DEF NotObserved, Session, States

\* Finalization completes every operation.
LEMMA FinalizedFacts ==
    ASSUME NEW s \in Session
    PROVE  /\ Finalized(s) \in Session
           /\ \A o \in Operation : Finalized(s).state[o] = "COMPLETE"
  BY DEF Finalized, Session, States

-----------------------------------------------------------------------------
(***************************************************************************)
(* A sound session stays sound, whatever a request does to it.             *)
(***************************************************************************)
\* A new session claims nothing.
LEMMA NewSessionSound == Sound(NewSession)
<1>1. ASSUME NEW o \in Operation, NewSession.state[o] # "BLOCKED", NEW p \in 1 .. (o - 1)
      PROVE  NewSession.state[p] \in FinalStates
  BY <1>1, NewSessionFacts
<1>2. ASSUME NEW o \in Operation, NewSession.state[o] \in FinalStates
      PROVE  Happened(o)
  BY <1>2, NewSessionFacts
<1>3. QED
  BY <1>1, <1>2 DEF Sound

\* An operation that is open and not final may move among such states.
LEMMA SoundMoved ==
    ASSUME NEW s \in Session, Sound(s), NEW t \in Session, NEW o \in Operation, NEW v,
           s.state[o] \notin FinalStates \cup {"BLOCKED"}, v \notin FinalStates,
           t.state = [s.state EXCEPT ![o] = v]
    PROVE  Sound(t)
<1> USE OperationFacts
<1>1. s.state \in [Operation -> States]
  BY DEF Session
<1>2. ASSUME NEW q \in Operation, t.state[q] # "BLOCKED", NEW p \in 1 .. (q - 1)
      PROVE t.state[p] \in FinalStates
  <2>1. s.state[q] # "BLOCKED"
    BY <1>1, <1>2
  <2>2. s.state[p] \in FinalStates /\ p \in Operation
    BY <2>1 DEF Sound
  <2>3. p # o
    BY <2>2
  <2>4. QED
    BY <1>1, <2>2, <2>3
<1>3. ASSUME NEW q \in Operation, t.state[q] \in FinalStates
      PROVE Happened(q)
  BY <1>1, <1>3 DEF Sound
<1>4. QED
  BY <1>2, <1>3 DEF Sound

\* Exact public evidence of an open operation may verify it.
LEMMA SoundVerified ==
    ASSUME NEW s \in Session, Sound(s), NEW o \in Operation,
           s.state[o] # "BLOCKED", Happened(o)
    PROVE  Sound(Verified(s, o))
<1> USE OperationFacts
<1> DEFINE t == Verified(s, o)
<1>1. /\ t.state[o] = "VERIFIED"
      /\ \A p \in Operation \ {o, o + 1} : t.state[p] = s.state[p]
      /\ \A p \in Operation : p = o + 1 =>
            t.state[p] = IF s.state[p] = "BLOCKED" THEN "READY" ELSE s.state[p]
  BY VerifiedFacts
<1> HIDE DEF t
<1>2. ASSUME NEW p \in Operation, s.state[p] \in FinalStates
      PROVE t.state[p] \in FinalStates
  BY <1>1, <1>2 DEF FinalStates
<1>3. ASSUME NEW q \in Operation, t.state[q] # "BLOCKED", NEW p \in 1 .. (q - 1)
      PROVE t.state[p] \in FinalStates
  <2>1. p \in Operation
    OBVIOUS
  <2>2. CASE p = o
    BY <2>2, <1>1 DEF FinalStates
  <2>3. CASE q = o + 1 /\ p # o
    <3>1. p \in 1 .. (o - 1)
      BY <2>3
    <3>2. s.state[p] \in FinalStates
      BY <3>1 DEF Sound
    <3>3. QED
      BY <3>2, <2>1, <1>2
  <2>4. CASE q # o + 1
    <3>1. s.state[q] # "BLOCKED"
      BY <2>4, <1>1, <1>3
    <3>2. s.state[p] \in FinalStates
      BY <3>1 DEF Sound
    <3>3. QED
      BY <3>2, <2>1, <1>2
  <2>5. QED
    BY <2>2, <2>3, <2>4
<1>4. ASSUME NEW q \in Operation, t.state[q] \in FinalStates
      PROVE Happened(q)
  <2>1. CASE q = o
    BY <2>1
  <2>2. CASE q # o
    <3>1. s.state[q] \in FinalStates
      BY <2>2, <1>1, <1>4 DEF FinalStates
    <3>2. QED
      BY <3>1 DEF Sound
  <2>3. QED
    BY <2>1, <2>2
<1>5. QED
  BY <1>3, <1>4 DEF Sound, t

\* A session whose operations are all verified may be finalized.
LEMMA SoundFinalized ==
    ASSUME NEW s \in Session, Sound(s), \A o \in Operation : s.state[o] = "VERIFIED"
    PROVE  Sound(Finalized(s))
<1>1. \A o \in Operation : Happened(o)
  BY DEF Sound, FinalStates
<1>2. QED
  BY <1>1, FinalizedFacts, OperationFacts DEF Sound, FinalStates

-----------------------------------------------------------------------------
(***************************************************************************)
(* The steps.                                                              *)
(***************************************************************************)
\* An executing request has something pending, so it is about an attempt.
LEMMA CurrentAttempt ==
    ASSUME TypeOK, RequestsChecked, NEW h \in Handler, pc[h] \in Executing
    PROVE  /\ snap[h].pending[op[h]] \in Action
           /\ Current(h) \in Attempt
           /\ Current(h)[1] = op[h]
           /\ Current(h)[2] = snap[h].pending[op[h]]
<1>1. op[h] \in Operation /\ snap[h] \in Session
  BY DEF TypeOK
<1>2. snap[h].pending[op[h]] \in Action \cup {NoAction}
  BY <1>1 DEF Session
<1>3. snap[h].pending[op[h]] \in Action
  BY <1>2 DEF RequestsChecked
<1>4. QED
  BY <1>1, <1>3 DEF Current, Attempt

\* Every snapshot a step produces, and every session it saves, is sound.
LEMMA SnapshotStep ==
    ASSUME Inductive, Next
    PROVE  /\ snap' \in [Handler -> Session] /\ \A h \in Handler : Sound(snap'[h])
           /\ session' \in Session /\ Sound(session')
<1> DEFINE Good(s) == s \in Session /\ Sound(s)
<1> USE DEF disk, memory, venue, history
<1>1. snap \in [Handler -> Session] /\ session \in Session /\ op \in [Handler -> Operation]
  BY DEF Inductive, TypeOK
<1>2. Good(session) /\ \A h \in Handler : Good(snap[h])
  BY <1>1 DEF Inductive, SessionsSound
<1>3. Good(NewSession)
  BY NewSessionSound, NewSessionFacts
<1>4. TypeOK /\ RequestsChecked
  BY DEF Inductive
<1> HIDE DEF Good
<1>5. ASSUME NEW h \in Handler, NEW s, Good(s), snap' = [snap EXCEPT ![h] = s],
             session' = session \/ session' = snap[h]
      PROVE  /\ snap' \in [Handler -> Session] /\ \A g \in Handler : Sound(snap'[g])
             /\ session' \in Session /\ Sound(session')
  BY <1>1, <1>2, <1>5 DEF Good
<1>6. ASSUME NEW h \in Handler, NEW o \in Operation,
             PrepareStart(h, o) \/ ExecuteStart(h, o) \/ RefreshStart(h, o)
      PROVE  snap' = [snap EXCEPT ![h] = session] /\ session' = session
  BY <1>6 DEF PrepareStart, ExecuteStart, RefreshStart, Start
<1>7. ASSUME NEW h \in Handler, FinalizeStart(h)
      PROVE  Good(Finalized(session)) /\ snap' = [snap EXCEPT ![h] = Finalized(session)]
             /\ session' = session
  BY <1>7, <1>1, <1>2, FinalizedFacts, SoundFinalized DEF FinalizeStart, Start, Good
<1>8. ASSUME NEW h \in Handler,
             PrepareFails(h) \/ Cancel(h) \/ ExecuteFails(h) \/ SignFails(h) \/ ObserveThrows(h)
      PROVE  snap' = [snap EXCEPT ![h] = NewSession] /\ session' = session
  BY <1>8 DEF PrepareFails, Cancel, ExecuteFails, SignFails, ObserveThrows, Finish
<1>9. ASSUME NEW h \in Handler, Approve(h) \/ AcquireBudget(h) \/ Post(h) \/ OpenFile(h)
      PROVE  snap' = [snap EXCEPT ![h] = snap[h]] /\ session' = session
  BY <1>9 DEF Approve, AcquireBudget, Post, OpenFile, Continue
<1>10. ASSUME NEW h \in Handler, WriteFile(h)
       PROVE  snap' = [snap EXCEPT ![h] = NewSession] /\ session' = snap[h]
  BY <1>10 DEF WriteFile, Finish
<1>11. ASSUME NEW h \in Handler, PrepareArtifact(h)
       PROVE  \E s : Good(s) /\ snap' = [snap EXCEPT ![h] = s] /\ session' = session
  <2> DEFINE action == NextAction(snap[h], op[h])
             s == Prepared(snap[h], op[h], action)
  <2>1. action # NoAction
    BY <1>4, <1>11 DEF PrepareArtifact, RequestsChecked
  <2>2. action \in Action /\ snap[h].state[op[h]] \in {"READY", "SIGNED", "NOT_OBSERVED"}
    BY <2>1, <1>1, NextActionFacts
  <2>3. s \in Session /\ s.state = [snap[h].state EXCEPT ![op[h]] = "AWAITING_LOCAL_APPROVAL"]
    BY <2>2, <1>1, PreparedFacts
  <2>4. Sound(s)
    BY SMTT(30), <2>2, <2>3, <1>1, <1>2, SoundMoved DEF Good, FinalStates
  <2>5. QED
    BY <2>3, <2>4, <1>11 DEF PrepareArtifact, Continue, Good
<1>12. ASSUME NEW h \in Handler, NEW result \in Results, pc[h] \in Executing,
              snap' = [snap EXCEPT ![h] = Recorded(snap[h], op[h], result)],
              session' = session
       PROVE  \E s : Good(s) /\ snap' = [snap EXCEPT ![h] = s] /\ session' = session
  <2> DEFINE s == Recorded(snap[h], op[h], result)
  <2>1. /\ snap[h].state[op[h]] = "AWAITING_LOCAL_APPROVAL"
        /\ snap[h].pending[op[h]] # NoAction
    BY <1>12, <1>4 DEF RequestsChecked
  <2>2. s \in Session /\ s.state = [snap[h].state EXCEPT ![op[h]] = result]
    BY <2>1, <1>1, RecordedFacts
  <2>3. Sound(s)
    BY <2>1, <2>2, <1>1, <1>2, SoundMoved DEF Good, FinalStates, Results
  <2>4. QED
    BY <2>2, <2>3, <1>12 DEF Good
<1>13. ASSUME NEW h \in Handler, SignReturns(h)
       PROVE  \E s : Good(s) /\ snap' = [snap EXCEPT ![h] = s] /\ session' = session
  BY <1>12, <1>13 DEF SignReturns, Continue, Executing, Results
<1>14. ASSUME NEW h \in Handler, NEW verdict, Answered(h, verdict) \/ AnsweredVaguely(h, verdict)
       PROVE  \E s : Good(s) /\ snap' = [snap EXCEPT ![h] = s] /\ session' = session
  <2>1. Filed(op[h], verdict) \in Results
    BY DEF Filed, Results
  <2>2. QED
    BY <1>12, <1>14, <2>1 DEF Answered, AnsweredVaguely, Continue, Executing
<1>15. ASSUME NEW h \in Handler, NoAnswer(h)
       PROVE  \E s : Good(s) /\ snap' = [snap EXCEPT ![h] = s] /\ session' = session
  BY <1>12, <1>15 DEF NoAnswer, Continue, Executing, Results
<1>16. ASSUME NEW h \in Handler, Observe(h)
       PROVE  \E s : Good(s) /\ snap' = [snap EXCEPT ![h] = s] /\ session' = session
  <2>1. PICK read \in BOOLEAN :
           /\ pc[h] = "observing"
           /\ snap' = [snap EXCEPT ![h] =
                          Observed(snap[h], op[h], read /\ ExactlyPublic(op[h]))]
           /\ session' = session
    BY <1>16 DEF Observe, Continue
  <2>2. snap[h].state[op[h]] \in Observable
    BY <2>1, <1>4 DEF RequestsChecked
  <2>3. CASE read /\ ExactlyPublic(op[h])
    <3>1. Happened(op[h])
      <4>1. op[h] \in Operation /\ room[op[h]] \in Nat
        BY <1>1 DEF Inductive, TypeOK
      <4>2. IF IsRail(op[h]) THEN rail = After(op[h]) ELSE room[op[h]] > 0
        BY <4>1, <2>3 DEF ExactlyPublic
      <4>3. QED
        BY <4>1, <4>2 DEF Inductive, EvidenceReal, Happened
    <3>2. Good(Verified(snap[h], op[h]))
      BY <3>1, <2>2, <1>1, <1>2, VerifiedFacts, SoundVerified DEF Good, Observable
    <3>3. QED
      BY <3>2, <2>1, <2>3 DEF Observed
  <2>4. CASE ~(read /\ ExactlyPublic(op[h]))
    <3>1. Good(NotObserved(snap[h], op[h]))
      <4> DEFINE s == NotObserved(snap[h], op[h])
      <4>1. s \in Session /\ s.state = [snap[h].state EXCEPT ![op[h]] = "NOT_OBSERVED"]
        BY <1>1, NotObservedFacts
      <4>2. Sound(s)
        BY <4>1, <2>2, <1>1, <1>2, SoundMoved DEF Good, Observable, FinalStates
      <4>3. QED
        BY <4>1, <4>2 DEF Good
    <3>2. QED
      BY <3>1, <2>1, <2>4 DEF Observed
  <2>5. QED
    BY <2>3, <2>4
<1>17. CASE Venue
  BY <1>17, <1>1, <1>2 DEF Venue, Accept, Refuse, Lose, ForeignWrite, Good
<1>18. CASE Crash
  BY <1>18, <1>1, <1>2, <1>3 DEF Crash, Good
<1>19. ASSUME NEW h \in Handler, Work(h) \/ Signer(h)
       PROVE  \E s : Good(s) /\ snap' = [snap EXCEPT ![h] = s]
                     /\ (session' = session \/ session' = snap[h])
  BY <1>19, <1>2, <1>3, <1>8, <1>9, <1>10, <1>11, <1>13, <1>14, <1>15, <1>16 DEF Work, Signer
<1>20. ASSUME NEW h \in Handler, Operator(h)
       PROVE  \E s : Good(s) /\ snap' = [snap EXCEPT ![h] = s] /\ session' = session
  BY <1>20, <1>2, <1>3, <1>6, <1>7, <1>8, <1>9 DEF Operator
<1>21. QED
  BY <1>5, <1>17, <1>18, <1>19, <1>20 DEF Next

\* Only the venue and other writers change what is public.
LEMMA PublicStep ==
    ASSUME Next
    PROVE  \/ UNCHANGED <<landed, room, rail, shown>>
           \/ ForeignWrite
           \/ \E a \in net : Accept(a)
  BY ZenonT(60) DEF Next, Work, Signer, Operator, Venue, PrepareStart, PrepareArtifact, PrepareFails,
     ExecuteStart, Approve, Cancel, AcquireBudget, ExecuteFails, SignReturns, SignFails, Post,
     Answered, AnsweredVaguely, NoAnswer, RefreshStart, Observe, ObserveThrows, FinalizeStart,
     OpenFile, WriteFile, Refuse, Lose, Crash, venue, history

\* What the venue accepted it keeps, what the rail has had it has had.
LEMMA LandedGrows == ASSUME Next PROVE landed \subseteq landed'
  BY PublicStep DEF Accept, ForeignWrite, history

LEMMA ShownGrows == ASSUME Next PROVE shown \subseteq shown'
  BY PublicStep DEF Accept, ForeignWrite, RailBecomes

LEMMA HappenedStays == ASSUME Next, NEW o, Happened(o) PROVE Happened(o)'
  BY LandedGrows, ShownGrows DEF Happened, IsRail, After

\* The session and every snapshot stay sound.
LEMMA SessionsSoundStep ==
    ASSUME Inductive, Next
    PROVE  SessionsSound'
<1>1. Sound(session') /\ \A h \in Handler : Sound(snap'[h])
  BY SnapshotStep
<1>2. \A o : Happened(o) => Happened(o)'
  BY HappenedStays
<1>3. QED
  BY <1>1, <1>2 DEF SessionsSound, Sound

\* Every variable keeps its type.
LEMMA TypeStep ==
    ASSUME Inductive, Next
    PROVE  TypeOK'
<1> USE DEF disk, memory, venue, history, PCs
<1>1. TypeOK /\ RequestsChecked
  BY DEF Inductive
<1>2. snap' \in [Handler -> Session] /\ session' \in Session
  BY SnapshotStep
<1> USE DEF TypeOK
<1>3. ASSUME NEW h \in Handler, NEW o \in Operation,
             PrepareStart(h, o) \/ ExecuteStart(h, o) \/ RefreshStart(h, o)
      PROVE  TypeOK'
  BY <1>1, <1>2, <1>3 DEF PrepareStart, ExecuteStart, RefreshStart, Start
<1>4. ASSUME NEW h \in Handler, FinalizeStart(h)
      PROVE  TypeOK'
  BY <1>1, <1>2, <1>4, OperationFacts DEF FinalizeStart, Start
<1>5. ASSUME NEW h \in Handler,
             PrepareFails(h) \/ Cancel(h) \/ ExecuteFails(h) \/ ObserveThrows(h)
      PROVE  TypeOK'
  BY <1>1, <1>2, <1>5, OperationFacts
     DEF PrepareFails, Cancel, ExecuteFails, ObserveThrows, Finish
<1>6. ASSUME NEW h \in Handler, Approve(h) \/ OpenFile(h) \/ Observe(h)
      PROVE  TypeOK'
  BY <1>1, <1>2, <1>6 DEF Approve, OpenFile, Observe, Continue
<1>7. ASSUME NEW h \in Handler, PrepareArtifact(h)
      PROVE  TypeOK'
  <2>1. NextAction(snap[h], op[h]) \in Action
    BY <1>1, <1>7, NextActionFacts DEF PrepareArtifact, RequestsChecked
  <2>2. QED
    BY <1>1, <1>2, <1>7, <2>1 DEF PrepareArtifact, Continue, Attempt
<1>8. ASSUME NEW h \in Handler, pc[h] \in Executing
      PROVE  Current(h) \in Attempt
  BY <1>1, <1>8, CurrentAttempt
<1>9. ASSUME NEW h \in Handler, AcquireBudget(h)
      PROVE  TypeOK'
  BY <1>1, <1>2, <1>8, <1>9 DEF AcquireBudget, Continue, Executing
<1>10. ASSUME NEW h \in Handler, SignReturns(h) \/ SignFails(h) \/ Post(h)
       PROVE  TypeOK'
  <2>1. Current(h) \in Attempt /\ effects' \in [Attempt -> Nat]
    BY <1>1, <1>8, <1>10 DEF SignReturns, SignFails, Post, Executing
  <2>2. CASE SignReturns(h)
    BY <1>1, <1>2, <2>1, <2>2 DEF SignReturns, Continue
  <2>3. CASE SignFails(h)
    BY <1>1, <1>2, <2>1, <2>3, OperationFacts DEF SignFails, Finish
  <2>4. CASE Post(h)
    BY <1>1, <1>2, <2>1, <2>4 DEF Post, Continue
  <2>5. QED
    BY <1>10, <2>2, <2>3, <2>4
<1>11. ASSUME NEW h \in Handler, NEW verdict \in {"ok", "refused"},
              Answered(h, verdict) \/ AnsweredVaguely(h, verdict)
       PROVE  TypeOK'
  BY <1>1, <1>2, <1>8, <1>11 DEF Answered, AnsweredVaguely, DropAnswer, Continue, Executing
<1>12. ASSUME NEW h \in Handler, NoAnswer(h)
       PROVE  TypeOK'
  BY <1>1, <1>2, <1>8, <1>12 DEF NoAnswer, DropAnswer, Continue, Executing
<1>13. ASSUME NEW h \in Handler, WriteFile(h)
       PROVE  TypeOK'
  BY <1>1, <1>2, <1>13, OperationFacts DEF WriteFile, Finish
<1>14. ASSUME NEW a \in net, Accept(a)
       PROVE  TypeOK'
  <2>1. a \in Attempt /\ a[1] \in Operation /\ After(a[1]) \in RailValues
    BY <1>1 DEF Attempt, After, RailValues
  <2>2. room' \in [Operation -> Nat] /\ rail' \in RailValues /\ shown' \subseteq RailValues
    BY <1>1, <1>14, <2>1 DEF Accept, RailBecomes
  <2>3. QED
    BY <1>1, <1>2, <1>14, <2>1, <2>2 DEF Accept, Reply
<1>15. ASSUME NEW a \in net, Refuse(a) \/ Lose(a)
       PROVE  TypeOK'
  BY <1>1, <1>2, <1>15 DEF Refuse, Lose, Reply
<1>16. CASE ForeignWrite
  BY <1>1, <1>2, <1>16, WrittenAssumption DEF ForeignWrite, RailBecomes
<1>17. CASE Crash
  BY <1>1, <1>2, <1>17, OperationFacts, CrashesAssumption DEF Crash
<1> HIDE DEF TypeOK
<1>18. QED
  BY <1>3, <1>4, <1>5, <1>6, <1>7, <1>9, <1>10, <1>11, <1>12, <1>13, <1>14, <1>15, <1>16, <1>17
     DEF Next, Work, Signer, Operator, Venue

\* A request keeps what it checked of its snapshot, and its name, to its end.
LEMMA RequestsCheckedStep ==
    ASSUME Inductive, Next
    PROVE  RequestsChecked'
<1> USE DEF memory, RequestsChecked, Executing
<1>1. TypeOK /\ RequestsChecked
  BY DEF Inductive
<1>2. /\ pc \in [Handler -> PCs] /\ op \in [Handler -> Operation]
      /\ snap \in [Handler -> Session] /\ active \subseteq Handler \X Operation
  BY <1>1 DEF TypeOK
<1>3. ASSUME NEW h \in Handler, NEW o \in Operation, PrepareStart(h, o) \/ RefreshStart(h, o)
      PROVE  RequestsChecked'
  BY <1>1, <1>2, <1>3 DEF PrepareStart, RefreshStart, Start
<1>4. ASSUME NEW h \in Handler, NEW o \in Operation, ExecuteStart(h, o)
      PROVE  RequestsChecked'
  BY <1>1, <1>2, <1>4 DEF ExecuteStart, Start
<1>5. ASSUME NEW h \in Handler, FinalizeStart(h)
      PROVE  RequestsChecked'
  BY <1>1, <1>2, <1>5 DEF FinalizeStart, Start
<1>6. ASSUME NEW h \in Handler, Finish(h)
      PROVE  RequestsChecked'
  BY <1>1, <1>2, <1>6 DEF Finish
<1>7. ASSUME NEW h \in Handler,
             PrepareFails(h) \/ Cancel(h) \/ ExecuteFails(h) \/ SignFails(h)
               \/ ObserveThrows(h) \/ WriteFile(h)
      PROVE  Finish(h)
  BY <1>7 DEF PrepareFails, Cancel, ExecuteFails, SignFails, ObserveThrows, WriteFile
<1>8. ASSUME NEW h \in Handler, Approve(h) \/ AcquireBudget(h) \/ Post(h)
      PROVE  RequestsChecked'
  BY <1>1, <1>2, <1>8 DEF Approve, AcquireBudget, Post, Continue
<1>9. ASSUME NEW h \in Handler, NEW s, NEW label \in {"saving", "writing"},
             Continue(h, label, s)
      PROVE  RequestsChecked'
  BY <1>1, <1>2, <1>9 DEF Continue
<1>10. ASSUME NEW h \in Handler,
              \/ PrepareArtifact(h) \/ SignReturns(h) \/ NoAnswer(h) \/ Observe(h) \/ OpenFile(h)
              \/ \E verdict \in {"ok", "refused"} : Answered(h, verdict) \/ AnsweredVaguely(h, verdict)
       PROVE  RequestsChecked'
  <2>1. \E s : Continue(h, "saving", s) \/ Continue(h, "writing", s)
    BY <1>10 DEF PrepareArtifact, SignReturns, NoAnswer, Observe, OpenFile, Answered, AnsweredVaguely
  <2>2. QED
    BY <2>1, <1>9
<1>11. CASE Venue
  BY <1>1, <1>11 DEF Venue, Accept, Refuse, Lose, ForeignWrite
<1>12. CASE Crash
  BY <1>12 DEF Crash
<1> HIDE DEF RequestsChecked
<1>13. QED
  BY <1>3, <1>4, <1>5, <1>6, <1>7, <1>8, <1>10, <1>11, <1>12 DEF Next, Work, Signer, Operator

\* Only an execute adds a name, and only one that is free.
LEMMA NamesUniqueStep ==
    ASSUME Inductive, Next
    PROVE  NamesUnique'
<1>1. NamesUnique
  BY DEF Inductive
<1>2. ASSUME NEW h \in Handler, NEW o \in Operation, ExecuteStart(h, o)
      PROVE  NamesUnique'
  BY <1>1, <1>2 DEF ExecuteStart, NamesUnique
<1>3. active' \subseteq active \/ \E h \in Handler, o \in Operation : ExecuteStart(h, o)
  BY ZenonT(30) DEF Next, Work, Signer, Operator, Venue, PrepareStart, PrepareArtifact, PrepareFails,
     Approve, Cancel, AcquireBudget, ExecuteFails, SignReturns, SignFails, Post,
     Answered, AnsweredVaguely,
     DropAnswer, NoAnswer, RefreshStart, Observe, ObserveThrows, FinalizeStart, OpenFile,
     WriteFile, Accept, Refuse, Lose, ForeignWrite, Crash, Continue, Finish, memory
<1>4. QED
  BY <1>1, <1>2, <1>3 DEF NamesUnique

\* The venue takes a write of the rail lock only while the note is vacant, and
\* nobody makes it vacant again.
LEMMA PublicEvidenceStep ==
    ASSUME Inductive, Next
    PROVE  EvidenceReal' /\ RailLockStands'
<1>1. /\ EvidenceReal /\ RailLockStands /\ net \subseteq Attempt /\ landed \subseteq Attempt
      /\ room \in [Operation -> Nat]
  BY DEF Inductive, TypeOK
<1>2. CASE UNCHANGED <<landed, room, rail, shown>>
  BY <1>1, <1>2 DEF EvidenceReal, RailLockStands, OneRailLock
<1>3. CASE ForeignWrite
  <2>1. UNCHANGED <<landed, room>> /\ rail' \in shown' /\ rail' # "VACANT"
    BY <1>3, WrittenAssumption DEF ForeignWrite, RailBecomes, history
  <2>2. QED
    BY <1>1, <2>1 DEF EvidenceReal, RailLockStands, OneRailLock
<1>4. ASSUME NEW a \in net, Accept(a)
      PROVE  EvidenceReal' /\ RailLockStands'
  <2>1. a[1] \in Operation /\ landed' = landed \cup {a} /\ ConditionHolds(a[1])
    BY <1>1, <1>4 DEF Accept, Attempt
  <2>2. CASE IsRail(a[1])
    <3>1. room' = room /\ rail' = After(a[1]) /\ rail' \in shown' /\ rail = Before(a[1])
      BY <1>4, <2>1, <2>2 DEF Accept, RailBecomes, ConditionHolds
    <3>2. rail' # "VACANT"
      BY <3>1 DEF After
    <3>3. Steps[a[1]] = "RAIL_LOCK" => \A b \in landed : Steps[b[1]] # "RAIL_LOCK"
      BY <1>1, <3>1 DEF Before, RailLockStands
    <3>4. QED
      BY <1>1, <2>1, <3>1, <3>2, <3>3 DEF EvidenceReal, RailLockStands, OneRailLock
  <2>3. CASE ~IsRail(a[1])
    <3>1. room' = [room EXCEPT ![a[1]] = @ + 1] /\ UNCHANGED <<rail, shown>>
      BY <1>4, <2>3 DEF Accept
    <3>2. Steps[a[1]] # "RAIL_LOCK"
      BY <2>3 DEF IsRail, RailSteps
    <3>3. QED
      BY <1>1, <2>1, <3>1, <3>2 DEF EvidenceReal, RailLockStands, OneRailLock
  <2>4. QED
    BY <2>2, <2>3
<1>5. QED
  BY <1>2, <1>3, <1>4, PublicStep

-----------------------------------------------------------------------------
(***************************************************************************)
(* Effects.                                                                *)
(***************************************************************************)
\* An effect is caused only by a request that has just taken the budget of the
\* attempt, and the request leaves that state.
LEMMA EffectStep ==
    ASSUME Inductive, Next
    PROVE  \/ effects' = effects
           \/ \E h \in Handler :
                 /\ pc[h] = "acquired"
                 /\ Current(h) \in Attempt
                 /\ effects' = [effects EXCEPT ![Current(h)] = @ + 1]
                 /\ \E label : label # "acquired" /\ pc' = [pc EXCEPT ![h] = label]
                 /\ spent' = spent
                 /\ op' \in [Handler -> Operation]
                 /\ \A g \in Handler \ {h} : op'[g] = op[g] /\ snap'[g] = snap[g]
<1>1. TypeOK /\ RequestsChecked /\ TypeOK'
  BY TypeStep DEF Inductive
<1>2. /\ op \in [Handler -> Operation] /\ op' \in [Handler -> Operation]
      /\ snap \in [Handler -> Session] /\ pc \in [Handler -> PCs]
  BY <1>1 DEF TypeOK
<1>3. ASSUME NEW h \in Handler, effects' # effects, SignReturns(h) \/ SignFails(h) \/ Post(h)
      PROVE  /\ pc[h] = "acquired"
             /\ Current(h) \in Attempt
             /\ effects' = [effects EXCEPT ![Current(h)] = @ + 1]
             /\ \E label : label # "acquired" /\ pc' = [pc EXCEPT ![h] = label]
             /\ spent' = spent
             /\ op' \in [Handler -> Operation]
             /\ \A g \in Handler \ {h} : op'[g] = op[g] /\ snap'[g] = snap[g]
  <2>1. pc[h] = "acquired"
    BY <1>3 DEF SignReturns, SignFails, Post
  <2>2. Current(h) \in Attempt
    BY <2>1, <1>1, CurrentAttempt DEF Executing
  <2>3. effects' = [effects EXCEPT ![Current(h)] = @ + 1] /\ spent' = spent
    BY <1>3 DEF SignReturns, SignFails, Post, disk
  <2>4. \E label : label # "acquired" /\ pc' = [pc EXCEPT ![h] = label]
    BY <1>3 DEF SignReturns, SignFails, Post, Continue, Finish
  <2>5. \A g \in Handler \ {h} : op'[g] = op[g] /\ snap'[g] = snap[g]
    BY <1>2, <1>3 DEF SignReturns, SignFails, Post, Continue, Finish
  <2>6. QED
    BY <1>2, <2>1, <2>2, <2>3, <2>4, <2>5
<1>4. effects' = effects \/ \E h \in Handler : SignReturns(h) \/ SignFails(h) \/ Post(h)
  BY DEF Next, Work, Signer, Operator, Venue, PrepareStart, PrepareArtifact, PrepareFails,
     ExecuteStart, Approve, Cancel, AcquireBudget, ExecuteFails, Answered, AnsweredVaguely,
     DropAnswer, NoAnswer,
     RefreshStart, Observe, ObserveThrows, FinalizeStart, OpenFile, WriteFile, Accept,
     Refuse, Lose, ForeignWrite, Crash, history
<1>5. QED
  BY <1>3, <1>4

\* A step that causes no effect either takes a budget or lets no request arrive
\* at the point where it holds one.
LEMMA QuietStep ==
    ASSUME Inductive, Next, effects' = effects
    PROVE  \/ \E h \in Handler : AcquireBudget(h)
           \/ /\ spent' = spent
              /\ \A g \in Handler : pc'[g] = "acquired"
                    => pc[g] = "acquired" /\ op'[g] = op[g] /\ snap'[g] = snap[g]
<1> DEFINE Quiet == \A g \in Handler : pc'[g] = "acquired"
                      => pc[g] = "acquired" /\ op'[g] = op[g] /\ snap'[g] = snap[g]
<1>1. /\ op \in [Handler -> Operation] /\ snap \in [Handler -> Session]
      /\ pc \in [Handler -> PCs]
  BY DEF Inductive, TypeOK
<1>2. ASSUME NEW h \in Handler, NEW o, NEW label, label # "acquired", NEW s,
             Start(h, o, label, s) \/ Continue(h, label, s)
      PROVE  Quiet
  BY <1>1, <1>2 DEF Start, Continue
<1>3. ASSUME NEW h \in Handler, Finish(h)
      PROVE  Quiet
  BY <1>1, <1>3 DEF Finish
<1>4. ASSUME UNCHANGED <<pc, op, snap>>
      PROVE  Quiet
  BY <1>4
<1> HIDE DEF Quiet
<1>5. ASSUME NEW h \in Handler, Operator(h)
      PROVE  spent' = spent /\ Quiet
  <2>1. spent' = spent
    BY <1>5 DEF Operator, PrepareStart, ExecuteStart, RefreshStart, FinalizeStart, Approve,
       Cancel, disk
  <2>2. Quiet
    BY <1>2, <1>3, <1>5 DEF Operator, PrepareStart, ExecuteStart, RefreshStart,
       FinalizeStart, Approve, Cancel
  <2>3. QED
    BY <2>1, <2>2
<1>6. ASSUME NEW h \in Handler, Work(h) \/ Signer(h), ~AcquireBudget(h)
      PROVE  spent' = spent /\ Quiet
  <2>1. spent' = spent
    BY <1>6 DEF Work, Signer, PrepareArtifact, PrepareFails, ExecuteFails, SignReturns, SignFails,
       Post, Answered, AnsweredVaguely,
     DropAnswer, NoAnswer, Observe, ObserveThrows, OpenFile, WriteFile, disk
  <2>2. Quiet
    BY <1>2, <1>3, <1>6 DEF Work, Signer, PrepareArtifact, PrepareFails, ExecuteFails, SignReturns,
       SignFails, Post, Answered, AnsweredVaguely,
     DropAnswer, NoAnswer, Observe, ObserveThrows, OpenFile, WriteFile
  <2>3. QED
    BY <2>1, <2>2
<1>7. CASE Venue
  BY <1>4, <1>7 DEF Venue, Accept, Refuse, Lose, ForeignWrite, disk, memory
<1>8. CASE Crash
  BY <1>8 DEF Crash, Quiet
<1>9. QED
  BY <1>5, <1>6, <1>7, <1>8 DEF Next, Quiet

\* One budget, one effect: whoever holds a budget just taken is alone, and the
\* attempt has had no effect yet.
LEMMA BudgetsStep ==
    ASSUME Inductive, Next
    PROVE  BudgetsHeld' /\ OneEffectPerAttempt'
<1>1. BudgetsHeld /\ OneEffectPerAttempt /\ TypeOK /\ RequestsChecked
  BY DEF Inductive
<1>2. effects \in [Attempt -> Nat] /\ pc \in [Handler -> PCs]
  BY <1>1 DEF TypeOK
<1>3. ASSUME NEW h \in Handler,
             pc[h] = "acquired", Current(h) \in Attempt,
             effects' = [effects EXCEPT ![Current(h)] = @ + 1],
             NEW label, label # "acquired", pc' = [pc EXCEPT ![h] = label],
             spent' = spent,
             \A g \in Handler \ {h} : op'[g] = op[g] /\ snap'[g] = snap[g]
      PROVE  BudgetsHeld' /\ OneEffectPerAttempt'
  <2>1. effects[Current(h)] = 0 /\ Current(h) \in spent
    BY <1>1, <1>3 DEF BudgetsHeld
  <2>2. effects'[Current(h)] = 1
        /\ \A a \in Attempt \ {Current(h)} : effects'[a] = effects[a]
    BY <1>2, <1>3, <2>1
  <2>3. OneEffectPerAttempt'
    BY <1>1, <2>2 DEF OneEffectPerAttempt
  <2>4. ASSUME NEW g \in Handler, pc'[g] = "acquired"
        PROVE  g # h /\ pc[g] = "acquired" /\ Current(g)' = Current(g) /\ Current(g) # Current(h)
               /\ Current(g) \in Attempt
    <3>1. g # h /\ pc[g] = "acquired"
      BY <1>2, <1>3, <2>4
    <3>2. Current(g)' = Current(g)
      BY <1>3, <3>1 DEF Current
    <3>3. Current(g) # Current(h) /\ Current(g) \in Attempt
      BY <1>1, <1>3, <3>1, CurrentAttempt DEF BudgetsHeld, Executing
    <3>4. QED
      BY <3>1, <3>2, <3>3
  <2>5. BudgetsHeld'
    BY <1>1, <1>3, <2>1, <2>2, <2>4 DEF BudgetsHeld
  <2>6. QED
    BY <2>3, <2>5
<1>4. ASSUME NEW h \in Handler, AcquireBudget(h)
      PROVE  BudgetsHeld' /\ OneEffectPerAttempt'
  <2>1. /\ pc[h] = "approved" /\ Current(h) \notin spent /\ Current(h) \in Attempt
        /\ spent' = spent \cup {Current(h)} /\ effects' = effects
        /\ pc' = [pc EXCEPT ![h] = "acquired"] /\ op' = op /\ snap' = snap
    <3>1. snap' = [snap EXCEPT ![h] = snap[h]] /\ snap \in [Handler -> Session]
      BY <1>1, <1>4 DEF AcquireBudget, Continue, TypeOK
    <3>2. pc[h] = "approved" /\ Current(h) \in Attempt
      BY <1>1, <1>4, CurrentAttempt DEF AcquireBudget, Executing
    <3>3. QED
      BY <1>4, <3>1, <3>2 DEF AcquireBudget, Continue, history
  <2>2. \A g \in Handler : Current(g)' = Current(g)
    BY <2>1 DEF Current
  <2>3. effects[Current(h)] = 0
    BY <1>1, <1>2, <2>1 DEF BudgetsHeld
  <2>4. \A g \in Handler : pc[g] = "acquired" => Current(g) # Current(h)
    BY <1>1, <2>1 DEF BudgetsHeld
  <2>5. BudgetsHeld'
    BY <1>1, <1>2, <2>1, <2>2, <2>3, <2>4 DEF BudgetsHeld
  <2>6. QED
    BY <1>1, <2>1, <2>5 DEF OneEffectPerAttempt
<1>5. ASSUME effects' = effects, spent' = spent,
             \A g \in Handler : pc'[g] = "acquired"
                => pc[g] = "acquired" /\ op'[g] = op[g] /\ snap'[g] = snap[g]
      PROVE  BudgetsHeld' /\ OneEffectPerAttempt'
  <2>1. \A g \in Handler : pc'[g] = "acquired"
           => pc[g] = "acquired" /\ Current(g)' = Current(g)
    BY <1>5 DEF Current
  <2>2. QED
    BY <1>1, <1>5, <2>1 DEF BudgetsHeld, OneEffectPerAttempt
<1>6. QED
  BY <1>3, <1>4, <1>5, EffectStep, QuietStep

\* The request that causes an effect has a sound snapshot in which the
\* operation is open.
LEMMA PredecessorsStep ==
    ASSUME Inductive, Next
    PROVE  PredecessorsHappened'
<1>1. /\ TypeOK /\ RequestsChecked /\ SessionsSound /\ PredecessorsHappened
      /\ effects \in [Attempt -> Nat]
  BY DEF Inductive, TypeOK
<1>2. ASSUME NEW o, Happened(o) PROVE Happened(o)'
  BY <1>2, HappenedStays
<1>3. CASE effects' = effects
  BY <1>1, <1>2, <1>3 DEF PredecessorsHappened
<1>4. ASSUME NEW h \in Handler, pc[h] = "acquired", Current(h) \in Attempt,
             effects' = [effects EXCEPT ![Current(h)] = @ + 1]
      PROVE  PredecessorsHappened'
  <2>1. /\ op[h] \in Operation /\ Current(h)[1] = op[h]
        /\ snap[h].state[op[h]] = "AWAITING_LOCAL_APPROVAL"
    BY <1>1, <1>4 DEF TypeOK, RequestsChecked, Executing, Current
  <2>2. \A p \in 1 .. (op[h] - 1) : p \in Operation /\ snap[h].state[p] \in FinalStates
    BY <1>1, <2>1, OperationFacts DEF SessionsSound, Sound
  <2>3. \A p \in 1 .. (op[h] - 1) : Happened(p)
    BY <1>1, <2>2 DEF SessionsSound, Sound
  <2>4. \A a \in Attempt : effects'[a] > 0 => a = Current(h) \/ effects[a] > 0
    BY <1>1, <1>4
  <2>5. QED
    BY <1>1, <1>2, <2>1, <2>3, <2>4 DEF PredecessorsHappened
<1>5. QED
  BY <1>3, <1>4, EffectStep

-----------------------------------------------------------------------------
(***************************************************************************)
(* What is recorded stays true.                                            *)
(***************************************************************************)
\* The effect of an attempt is caused once and stays.
LEMMA EffectStays ==
    ASSUME Inductive, Next, NEW a \in Attempt, effects[a] = 1
    PROVE  effects'[a] = 1
<1>1. effects \in [Attempt -> Nat]
  BY DEF Inductive, TypeOK
<1>2. ASSUME NEW h \in Handler, pc[h] = "acquired", Current(h) \in Attempt,
             effects' = [effects EXCEPT ![Current(h)] = @ + 1]
      PROVE  effects'[a] = 1
  <2>1. effects[Current(h)] = 0
    BY <1>2 DEF Inductive, BudgetsHeld
  <2>2. QED
    BY <1>1, <1>2, <2>1
<1>3. QED
  BY <1>2, EffectStep

\* An attempt without an answer stays uncertain.
LEMMA UncertainGrows == ASSUME Next PROVE uncertain \subseteq uncertain'
  BY DEF Next, Work, Signer, Operator, Venue, PrepareStart, PrepareArtifact, PrepareFails,
     ExecuteStart, Approve, Cancel, AcquireBudget, ExecuteFails, SignReturns, SignFails, Post,
     Answered, AnsweredVaguely,
     DropAnswer, NoAnswer, RefreshStart, Observe, ObserveThrows, FinalizeStart, OpenFile,
     WriteFile, Accept, Refuse, Lose, ForeignWrite, Crash, history

\* An answer that told nothing is not taken back.
LEMMA VagueGrows == ASSUME Next PROVE vague \subseteq vague'
  BY DEF Next, Work, Signer, Operator, Venue, PrepareStart, PrepareArtifact, PrepareFails,
     ExecuteStart, Approve, Cancel, AcquireBudget, ExecuteFails, SignReturns, SignFails, Post,
     Answered, AnsweredVaguely, NoAnswer, RefreshStart, Observe, ObserveThrows, FinalizeStart,
     OpenFile, WriteFile, Accept, Refuse, Lose, ForeignWrite, Crash, history

\* Only the request that has just taken the budget of an attempt posts it, and
\* the venue accepts what is on the wire.
LEMMA WireStep ==
    ASSUME Inductive, Next
    PROVE  \/ \E h \in Handler : Post(h)
           \/ \E a \in net : Accept(a)
           \/ \E a \in net : Refuse(a)
           \/ net' \subseteq net /\ landed' = landed /\ answer' \subseteq answer
  BY ZenonT(60) DEF Next, Work, Signer, Operator, Venue, PrepareStart, PrepareArtifact, PrepareFails,
     ExecuteStart, Approve, Cancel, AcquireBudget, ExecuteFails, SignReturns, SignFails,
     Answered, AnsweredVaguely,
     DropAnswer, NoAnswer, RefreshStart, Observe, ObserveThrows, FinalizeStart, OpenFile,
     WriteFile, Lose, ForeignWrite, Crash, history, venue

\* What one POST does.
LEMMA PostStep ==
    ASSUME Inductive, NEW h \in Handler, Post(h)
    PROVE  /\ Current(h) \in Attempt /\ effects[Current(h)] = 0
           /\ effects'[Current(h)] = 1
           /\ net' = net \cup {Current(h)} /\ landed' = landed /\ answer' = answer
<1>1. Current(h) \in Attempt
  BY CurrentAttempt DEF Inductive, Post, Executing
<1>2. effects[Current(h)] = 0 /\ effects \in [Attempt -> Nat]
  BY DEF Inductive, TypeOK, BudgetsHeld, Post
<1>3. QED
  BY <1>1, <1>2 DEF Post

\* An attempt that had its effect and is neither public nor on its way stays so.
LEMMA GoneStays ==
    ASSUME Inductive, Next, NEW a \in Attempt, effects[a] = 1, a \notin landed \cup net
    PROVE  a \notin landed' \cup net'
<1>1. ASSUME NEW h \in Handler, Post(h) PROVE a \notin landed' \cup net'
  BY <1>1, PostStep
<1>2. ASSUME NEW b \in net, Accept(b) \/ Refuse(b) PROVE a \notin landed' \cup net'
  BY <1>2 DEF Accept, Refuse, history
<1>3. QED
  BY <1>1, <1>2, WireStep

\* A session that is honest stays so.
LEMMA HonestLater ==
    ASSUME Inductive, Next, NEW s \in Session, Honest(s)
    PROVE  Honest(s)'
<1>1. ASSUME NEW r \in s.attempts
      PROVE  /\ effects'[<<r.op, r.action>>] = 1
             /\ r.result \in {"ACK_RECEIVED", "WRITE_RECEIPT"}
                  => <<r.op, r.action>> \in landed' \cup vague'
             /\ r.result = "REJECTED"
                  => <<r.op, r.action>> \notin landed' \cup net' \/ <<r.op, r.action>> \in vague'
             /\ r.result = "SUBMISSION_UNCERTAIN" => <<r.op, r.action>> \in uncertain'
  <2> DEFINE a == <<r.op, r.action>>
  <2>1. a \in Attempt
    BY DEF Session, Attempt
  <2>2. /\ effects[a] = 1
        /\ r.result \in {"ACK_RECEIVED", "WRITE_RECEIPT"} => a \in landed \cup vague
        /\ r.result = "REJECTED" => a \notin landed \cup net \/ a \in vague
        /\ r.result = "SUBMISSION_UNCERTAIN" => a \in uncertain
    BY DEF Honest, TrueRecord, Earned
  <2> HIDE DEF a
  <2>3. /\ effects'[a] = 1
        /\ r.result \in {"ACK_RECEIVED", "WRITE_RECEIPT"} => a \in landed' \cup vague'
        /\ r.result = "REJECTED" => a \notin landed' \cup net' \/ a \in vague'
        /\ r.result = "SUBMISSION_UNCERTAIN" => a \in uncertain'
    BY <2>1, <2>2, EffectStays, LandedGrows, VagueGrows, GoneStays, UncertainGrows
  <2>4. QED
    BY <2>3 DEF a
<1>2. ASSUME NEW o \in Operation, s.recovery[o] \/ s.pending[o] \in Recovery
      PROVE  \E b \in uncertain' : b[1] = o /\ b[2] \notin Recovery
  BY <1>2, UncertainGrows DEF Honest, Earned
<1>3. QED
  BY <1>1, <1>2 DEF Honest, TrueRecord, Earned

\* What a session says of its attempts does not depend on the rest of it.
LEMMA HonestSame ==
    ASSUME NEW s, NEW t, t.attempts = s.attempts, t.recovery = s.recovery, t.pending = s.pending,
           Honest(s)'
    PROVE  Honest(t)'
  BY DEF Honest, TrueRecord, Earned

\* A new session claims nothing of an attempt.
LEMMA NewSessionHonest == Honest(NewSession)
  BY NoActionAssumption DEF Honest, TrueRecord, Earned, NewSession, Recovery, Action

\* prepare() makes a recovery pending only where one is offered.
LEMMA HonestPrepared ==
    ASSUME NEW s \in Session, NEW o \in Operation, Honest(s)',
           NEW t, t = Prepared(s, o, NextAction(s, o))
    PROVE  Honest(t)'
<1> DEFINE action == NextAction(s, o)
<1>1. t.attempts = s.attempts /\ t.recovery = s.recovery /\ t.pending = [s.pending EXCEPT ![o] = action]
  BY DEF Prepared, Session
<1>2. action \in Recovery => s.recovery[o]
  <2>1. NoAction \notin Recovery /\ "SIGN" \notin Recovery /\ "SUBMIT" \notin Recovery
        /\ "PAPERRAIL_WRITE" \notin Recovery
    BY NoActionAssumption DEF Recovery, Action
  <2>2. CASE s.state[o] = "READY"
    BY <2>1, <2>2 DEF NextAction
  <2>3. CASE s.state[o] = "SIGNED"
    BY <2>1, <2>3 DEF NextAction
  <2>4. CASE s.state[o] \notin {"READY", "SIGNED"} /\ ~s.recovery[o]
    BY <2>1, <2>4 DEF NextAction
  <2>5. QED
    BY <2>2, <2>3, <2>4
<1>3. s.pending \in [Operation -> Action \cup {NoAction}]
  BY DEF Session
<1> HIDE DEF action
<1>4. \A p \in Operation : t.recovery[p] \/ t.pending[p] \in Recovery
         => s.recovery[p] \/ s.pending[p] \in Recovery
  BY <1>1, <1>2, <1>3
<1>5. QED
  BY <1>1, <1>4 DEF Honest, TrueRecord, Earned

\* execute() records what became of the attempt.
LEMMA HonestRecorded ==
    ASSUME NEW s \in Session, NEW o \in Operation, NEW result \in Results, Honest(s)',
           NEW t, t = Recorded(s, o, result),
           effects'[<<o, s.pending[o]>>] = 1,
           result \in {"ACK_RECEIVED", "WRITE_RECEIPT"} => <<o, s.pending[o]>> \in landed' \cup vague',
           result = "REJECTED" =>
              <<o, s.pending[o]>> \notin landed' \cup net' \/ <<o, s.pending[o]>> \in vague',
           result = "SUBMISSION_UNCERTAIN" => <<o, s.pending[o]>> \in uncertain'
    PROVE  Honest(t)'
<1> DEFINE r == [op |-> o, action |-> s.pending[o], result |-> result]
<1>1. /\ t.attempts = s.attempts \cup {r} /\ t.recovery = s.recovery
      /\ t.pending = [s.pending EXCEPT ![o] = NoAction]
  BY DEF Recorded, Session
<1>2. r.op = o /\ r.action = s.pending[o] /\ r.result = result
  OBVIOUS
<1>3. s.pending \in [Operation -> Action \cup {NoAction}] /\ NoAction \notin Recovery
  BY NoActionAssumption DEF Session, Action
<1> HIDE DEF r
<1>4. \A p \in Operation : t.recovery[p] \/ t.pending[p] \in Recovery
         => s.recovery[p] \/ s.pending[p] \in Recovery
  BY <1>1, <1>3
<1>5. TrueRecord(t)'
  BY <1>1, <1>2 DEF Honest, TrueRecord
<1>6. Earned(t)'
  BY <1>1, <1>2, <1>4 DEF Honest, Earned
<1>7. QED
  BY <1>5, <1>6 DEF Honest

\* An observation that found nothing offers a recovery after an uncertain attempt.
LEMMA HonestNotObserved ==
    ASSUME NEW s \in Session, NEW o \in Operation, Honest(s)', NEW t, t = NotObserved(s, o)
    PROVE  Honest(t)'
<1>1. /\ t.attempts = s.attempts /\ t.pending = s.pending
      /\ t.recovery = [s.recovery EXCEPT ![o] = RecoveryAvailable(s, o)]
      /\ s.recovery \in [Operation -> BOOLEAN]
  BY DEF NotObserved, Session
<1>2. RecoveryAvailable(s, o) => \E b \in uncertain' : b[1] = o /\ b[2] \notin Recovery
  BY DEF RecoveryAvailable, Honest, Earned
<1>3. TrueRecord(t)'
  BY <1>1 DEF Honest, TrueRecord
<1>4. Earned(t)'
  <2>1. ASSUME NEW p \in Operation, t.recovery[p] \/ t.pending[p] \in Recovery
        PROVE  \E b \in uncertain' : b[1] = p /\ b[2] \notin Recovery
    <3>1. CASE p = o /\ RecoveryAvailable(s, o)
      BY <1>2, <3>1
    <3>2. CASE s.recovery[p] \/ s.pending[p] \in Recovery
      BY <3>2 DEF Honest, Earned
    <3>3. QED
      BY <1>1, <2>1, <3>1, <3>2
  <2>2. QED
    BY <1>1, <2>1 DEF Honest, Earned
<1>5. QED
  BY <1>3, <1>4 DEF Honest


\* Every snapshot a step produces, and every session it saves, is honest.
LEMMA RecordsStep ==
    ASSUME Inductive, Next
    PROVE  RecordsHonest'
<1> USE DEF disk, memory, venue, history
<1> DEFINE Says(t) == \E s \in Session : t = s /\ Honest(s)'
<1>1. /\ snap \in [Handler -> Session] /\ session \in Session /\ op \in [Handler -> Operation]
      /\ TypeOK /\ RequestsChecked /\ AnswersHonest /\ BudgetsHeld
      /\ effects \in [Attempt -> Nat]
  BY DEF Inductive, TypeOK
<1>2. Honest(session) /\ \A h \in Handler : Honest(snap[h])
  BY DEF Inductive, RecordsHonest
<1>3. ASSUME NEW s \in Session, Honest(s) PROVE Honest(s)'
  BY <1>3, HonestLater
<1>4. Says(session) /\ (\A h \in Handler : Says(snap[h])) /\ Says(NewSession)
  BY <1>1, <1>2, <1>3, NewSessionFacts, NewSessionHonest
<1>5. SUFFICES Says(session') /\ \A h \in Handler : Says(snap'[h])
  <2>1. Honest(session)'
    BY <1>5 DEF Honest, TrueRecord, Earned
  <2>2. ASSUME NEW h \in Handler PROVE Honest(snap[h])'
    BY <1>5 DEF Honest, TrueRecord, Earned
  <2>3. QED
    BY <2>1, <2>2 DEF RecordsHonest
<1>6. ASSUME NEW h \in Handler, NEW s, Says(s), snap' = [snap EXCEPT ![h] = s],
             session' = session \/ session' = snap[h]
      PROVE  Says(session') /\ \A g \in Handler : Says(snap'[g])
  <2> HIDE DEF Says
  <2>1. QED
    BY <1>1, <1>4, <1>6
<1>7. ASSUME NEW h \in Handler, NEW s, Says(s), NEW t \in Session, t.attempts = s.attempts,
             t.recovery = s.recovery, t.pending = s.pending
      PROVE  Says(t)
  <2>1. PICK u \in Session : s = u /\ Honest(u)'
    BY <1>7
  <2>2. PICK v \in Session : t = v
    OBVIOUS
  <2>3. Honest(v)'
    BY <1>7, <2>1, <2>2, HonestSame
  <2>4. QED
    BY <2>2, <2>3
<1>8. ASSUME NEW h \in Handler, Operator(h)
      PROVE  \E s : Says(s) /\ snap' = [snap EXCEPT ![h] = s] /\ session' = session
  <2>1. Says(Finalized(session))
    <3>1. /\ Finalized(session).attempts = session.attempts
          /\ Finalized(session).recovery = session.recovery
          /\ Finalized(session).pending = session.pending
      BY <1>1 DEF Finalized, Session
    <3>2. Finalized(session) \in Session /\ Says(session)
      BY <1>1, <1>4, FinalizedFacts
    <3> HIDE DEF Says
    <3>3. QED
      BY <1>7, <3>1, <3>2
  <2> HIDE DEF Says
  <2>2. \/ snap' = [snap EXCEPT ![h] = session] \/ snap' = [snap EXCEPT ![h] = Finalized(session)]
        \/ snap' = [snap EXCEPT ![h] = NewSession] \/ snap' = [snap EXCEPT ![h] = snap[h]]
    BY <1>8 DEF Operator, PrepareStart, ExecuteStart, RefreshStart, FinalizeStart, Approve,
       Cancel, Start, Continue, Finish
  <2>3. session' = session
    BY <1>8 DEF Operator, PrepareStart, ExecuteStart, RefreshStart, FinalizeStart, Approve, Cancel
  <2>4. QED
    BY <1>4, <2>1, <2>2, <2>3
<1>9. ASSUME NEW h \in Handler,
             PrepareFails(h) \/ AcquireBudget(h) \/ ExecuteFails(h) \/ SignFails(h) \/ Post(h)
             \/ ObserveThrows(h) \/ OpenFile(h) \/ WriteFile(h)
      PROVE  \E s : Says(s) /\ snap' = [snap EXCEPT ![h] = s]
                    /\ (session' = session \/ session' = snap[h])
  <2> HIDE DEF Says
  <2>1. snap' = [snap EXCEPT ![h] = NewSession] \/ snap' = [snap EXCEPT ![h] = snap[h]]
    BY <1>9 DEF PrepareFails, AcquireBudget, ExecuteFails, SignFails, Post, ObserveThrows,
       OpenFile, WriteFile, Continue, Finish
  <2>2. session' = session \/ session' = snap[h]
    BY <1>9 DEF PrepareFails, AcquireBudget, ExecuteFails, SignFails, Post, ObserveThrows,
       OpenFile, WriteFile
  <2>3. QED
    BY <1>4, <2>1, <2>2
<1>10. ASSUME NEW h \in Handler, PrepareArtifact(h)
       PROVE  \E s : Says(s) /\ snap' = [snap EXCEPT ![h] = s] /\ session' = session
  <2> DEFINE t == Prepared(snap[h], op[h], NextAction(snap[h], op[h]))
  <2>1. NextAction(snap[h], op[h]) # NoAction
    BY <1>1, <1>10 DEF PrepareArtifact, RequestsChecked
  <2>2. t \in Session
    BY <1>1, <2>1, NextActionFacts, PreparedFacts
  <2>3. PICK s \in Session : snap[h] = s /\ Honest(s)'
    BY <1>4
  <2>4. PICK o \in Operation, v \in Session : o = op[h] /\ v = t
    BY <1>1, <2>2
  <2>5. Honest(v)'
    BY <2>3, <2>4, HonestPrepared
  <2>6. QED
    BY <1>10, <2>4, <2>5 DEF PrepareArtifact, Continue
<1>11. ASSUME NEW h \in Handler, NEW result \in Results, pc[h] \in Executing,
              effects'[Current(h)] = 1,
              result \in {"ACK_RECEIVED", "WRITE_RECEIPT"} => Current(h) \in landed' \cup vague',
              result = "REJECTED" => Current(h) \notin landed' \cup net' \/ Current(h) \in vague',
              result = "SUBMISSION_UNCERTAIN" => Current(h) \in uncertain',
              snap' = [snap EXCEPT ![h] = Recorded(snap[h], op[h], result)],
              session' = session
       PROVE  \E s : Says(s) /\ snap' = [snap EXCEPT ![h] = s] /\ session' = session
  <2> DEFINE t == Recorded(snap[h], op[h], result)
  <2>1. snap[h].pending[op[h]] # NoAction
    BY <1>1, <1>11 DEF RequestsChecked
  <2>2. t \in Session
    BY <1>1, <2>1, RecordedFacts
  <2>3. PICK s \in Session : snap[h] = s /\ Honest(s)'
    BY <1>4
  <2>4. PICK o \in Operation, v \in Session : o = op[h] /\ v = t
    BY <1>1, <2>2
  <2>5. Current(h) = <<o, s.pending[o]>> /\ v = Recorded(s, o, result)
    BY <2>3, <2>4 DEF Current
  <2>6. Honest(v)'
    BY <1>11, <2>3, <2>5, HonestRecorded
  <2>7. QED
    BY <1>11, <2>4, <2>6
<1>12. ASSUME NEW h \in Handler, SignReturns(h)
       PROVE  \E s : Says(s) /\ snap' = [snap EXCEPT ![h] = s] /\ session' = session
  <2>1. Current(h) \in Attempt /\ effects[Current(h)] = 0
    BY <1>1, <1>12, CurrentAttempt DEF SignReturns, Executing, BudgetsHeld
  <2>2. effects'[Current(h)] = 1
    BY <1>1, <1>12, <2>1 DEF SignReturns
  <2> HIDE DEF Says
  <2>3. QED
    BY <1>11, <1>12, <2>2 DEF SignReturns, Continue, Executing, Results
<1>13. ASSUME NEW h \in Handler, pc[h] = "sent", effects' = effects
       PROVE  Current(h) \in Attempt /\ effects'[Current(h)] = 1
  BY <1>1, <1>13, CurrentAttempt DEF Executing, AnswersHonest
<1>14. ASSUME NEW h \in Handler, NEW verdict \in {"ok", "refused"},
              Answered(h, verdict) \/ AnsweredVaguely(h, verdict)
       PROVE  \E s : Says(s) /\ snap' = [snap EXCEPT ![h] = s] /\ session' = session
  <2>1. Current(h) \in Attempt /\ effects'[Current(h)] = 1
    BY <1>13, <1>14 DEF Answered, AnsweredVaguely
  <2>2. \/ Current(h) \in vague'
        \/ /\ verdict = "ok" => Current(h) \in landed'
           /\ verdict = "refused" => Current(h) \notin landed' \cup net'
    BY <1>1, <1>14, <2>1 DEF Answered, AnsweredVaguely, AnswersHonest
  <2> PICK result \in Results : result = Filed(op[h], verdict)
    BY DEF Filed, Results
  <2>3. /\ result \in {"ACK_RECEIVED", "WRITE_RECEIPT"} => verdict = "ok"
        /\ result = "REJECTED" => verdict = "refused"
        /\ result # "SUBMISSION_UNCERTAIN"
    BY DEF Filed
  <2>4. /\ pc[h] \in Executing /\ session' = session
        /\ snap' = [snap EXCEPT ![h] = Recorded(snap[h], op[h], result)]
    BY <1>14 DEF Answered, AnsweredVaguely, Continue, Executing
  <2> HIDE DEF Says
  <2>5. QED
    BY <1>11, <2>1, <2>2, <2>3, <2>4
<1>15. ASSUME NEW h \in Handler, NoAnswer(h)
       PROVE  \E s : Says(s) /\ snap' = [snap EXCEPT ![h] = s] /\ session' = session
  <2>1. effects'[Current(h)] = 1 /\ Current(h) \in uncertain'
    BY <1>13, <1>15 DEF NoAnswer
  <2> HIDE DEF Says
  <2>2. QED
    BY <1>11, <1>15, <2>1 DEF NoAnswer, Continue, Executing, Results
<1>16. ASSUME NEW h \in Handler, Observe(h)
       PROVE  \E s : Says(s) /\ snap' = [snap EXCEPT ![h] = s] /\ session' = session
  <2>1. PICK read \in BOOLEAN :
           /\ snap' = [snap EXCEPT ![h] =
                          Observed(snap[h], op[h], read /\ ExactlyPublic(op[h]))]
           /\ session' = session
    BY <1>16 DEF Observe, Continue
  <2>2. Says(Verified(snap[h], op[h]))
    <3>1. /\ Verified(snap[h], op[h]).attempts = snap[h].attempts
          /\ Verified(snap[h], op[h]).recovery = snap[h].recovery
          /\ Verified(snap[h], op[h]).pending = snap[h].pending
      BY <1>1 DEF Verified, Session
    <3>2. Verified(snap[h], op[h]) \in Session /\ Says(snap[h])
      BY <1>1, <1>4, VerifiedFacts
    <3> HIDE DEF Says
    <3>3. QED
      BY <1>7, <3>1, <3>2
  <2>3. Says(NotObserved(snap[h], op[h]))
    <3>1. PICK s \in Session : snap[h] = s /\ Honest(s)'
      BY <1>4
    <3>2. PICK o \in Operation, v \in Session : o = op[h] /\ v = NotObserved(snap[h], op[h])
      BY <1>1, NotObservedFacts
    <3>3. Honest(v)'
      BY <3>1, <3>2, HonestNotObserved
    <3>4. QED
      BY <3>2, <3>3
  <2> HIDE DEF Says
  <2>4. QED
    BY <2>1, <2>2, <2>3 DEF Observed
<1>17. ASSUME NEW h \in Handler, Work(h) \/ Signer(h)
       PROVE  \E s : Says(s) /\ snap' = [snap EXCEPT ![h] = s]
                     /\ (session' = session \/ session' = snap[h])
  <2> HIDE DEF Says
  <2>1. QED
    BY <1>9, <1>10, <1>12, <1>14, <1>15, <1>16, <1>17 DEF Work, Signer
<1> HIDE DEF Says
<1>18. CASE Venue
  <2>1. snap' = snap /\ session' = session
    BY <1>18 DEF Venue, Accept, Refuse, Lose, ForeignWrite
  <2>2. QED
    BY <1>4, <2>1
<1>19. CASE Crash
  <2>1. snap' = [h \in Handler |-> NewSession] /\ session' = session
    BY <1>19 DEF Crash
  <2>2. QED
    BY <1>4, <2>1
<1>20. QED
  BY <1>6, <1>8, <1>17, <1>18, <1>19 DEF Next

\* A request that waits for an answer has just posted or was waiting already.
LEMMA SentStep ==
    ASSUME Inductive, Next, NEW h \in Handler, pc'[h] = "sent"
    PROVE  Post(h) \/ (pc[h] = "sent" /\ Current(h)' = Current(h))
<1> DEFINE Waits == pc[h] = "sent" /\ op'[h] = op[h] /\ snap'[h] = snap[h]
<1>1. /\ op \in [Handler -> Operation] /\ snap \in [Handler -> Session]
      /\ pc \in [Handler -> PCs]
  BY DEF Inductive, TypeOK
<1>2. ASSUME NEW g \in Handler, NEW o, NEW label, label # "sent", NEW s,
             Start(g, o, label, s) \/ Continue(g, label, s)
      PROVE  Waits
  BY <1>1, <1>2 DEF Start, Continue
<1>3. ASSUME NEW g \in Handler, Finish(g)
      PROVE  Waits
  BY <1>1, <1>3 DEF Finish
<1>4. ASSUME UNCHANGED <<pc, op, snap>>
      PROVE  Waits
  BY <1>4
<1>5. ASSUME NEW g \in Handler, g # h, Post(g)
      PROVE  Waits
  BY <1>1, <1>5 DEF Post, Continue
<1>6. Waits => pc[h] = "sent" /\ Current(h)' = Current(h)
  BY DEF Current
<1> HIDE DEF Waits
<1>7. ASSUME NEW g \in Handler, Work(g) \/ Signer(g) \/ Operator(g), ~Post(h)
      PROVE  Waits
  BY <1>2, <1>3, <1>5, <1>7 DEF Work, Signer, Operator, PrepareStart, ExecuteStart, RefreshStart,
     FinalizeStart, Approve, Cancel, PrepareArtifact, PrepareFails, AcquireBudget, ExecuteFails,
     SignReturns, SignFails, Answered, AnsweredVaguely,
     DropAnswer, NoAnswer, Observe, ObserveThrows, OpenFile, WriteFile
<1>8. ASSUME Venue PROVE Waits
  BY <1>4, <1>8 DEF Venue, Accept, Refuse, Lose, ForeignWrite, memory
<1>9. ~Crash
  BY DEF Crash
<1>10. Venue \/ \E g \in Handler : Work(g) \/ Signer(g) \/ Operator(g)
  BY <1>9 DEF Next
<1>11. QED
  BY <1>6, <1>7, <1>8, <1>10

\* The answer that a request waits for tells what became of its POST.
LEMMA AnswersStep ==
    ASSUME Inductive, Next
    PROVE  AnswersHonest'
<1>1. /\ TypeOK /\ AnswersHonest /\ effects \in [Attempt -> Nat] /\ RequestsChecked
      /\ pc \in [Handler -> PCs] /\ net \subseteq Attempt /\ landed \subseteq Attempt
  BY DEF Inductive, TypeOK
<1>2. \A a \in Attempt : effects[a] = 1 => effects'[a] = 1
  BY EffectStays
<1>3. \A h \in Handler : pc'[h] = "sent" => effects'[Current(h)'] = 1
  <2>1. ASSUME NEW h \in Handler, pc'[h] = "sent"
        PROVE  effects'[Current(h)'] = 1
    <3>1. Post(h) \/ (pc[h] = "sent" /\ Current(h)' = Current(h))
      BY <2>1, SentStep
    <3>2. ASSUME Post(h) PROVE Current(h)' = Current(h)
      BY <1>1, <3>2 DEF Post, Continue, Current, TypeOK
    <3>3. CASE Post(h)
      BY <3>2, <3>3, PostStep
    <3>4. CASE pc[h] = "sent" /\ Current(h)' = Current(h)
      BY <1>1, <1>2, <3>4, CurrentAttempt DEF AnswersHonest, Executing
    <3>5. QED
      BY <3>1, <3>3, <3>4
  <2>2. QED
    BY <2>1
<1>4. CASE \E h \in Handler : Post(h)
  <2>1. PICK h \in Handler : Post(h)
    BY <1>4
  <2>2. /\ Current(h) \in Attempt /\ effects[Current(h)] = 0 /\ effects'[Current(h)] = 1
        /\ net' = net \cup {Current(h)} /\ landed' = landed /\ answer' = answer
    BY <2>1, PostStep
  <2>3. Current(h) \notin landed
    BY <1>1, <2>2 DEF AnswersHonest
  <2>4. QED
    BY <1>1, <1>2, <1>3, <2>2, <2>3 DEF AnswersHonest
<1>5. CASE \E b \in net : Accept(b)
  <2>1. PICK b \in net : Accept(b)
    BY <1>5
  <2>2. /\ net' = net \ {b} /\ landed' = landed \cup {b}
        /\ answer' \subseteq answer \cup {<<b, "ok">>}
    BY <2>1 DEF Accept, Reply
  <2>3. effects[b] = 1 /\ b \in Attempt
    BY <1>1 DEF AnswersHonest
  <2>4. \A a \in Attempt : <<a, "ok">> \in answer' => a \in landed'
    BY <1>1, <2>2 DEF AnswersHonest
  <2>5. \A a \in Attempt : <<a, "refused">> \in answer'
           => effects'[a] = 1 /\ a \notin landed' \cup net'
    BY <1>1, <1>2, <2>2 DEF AnswersHonest
  <2>6. QED
    BY <1>1, <1>2, <1>3, <2>2, <2>3, <2>4, <2>5 DEF AnswersHonest
<1>6. CASE \E b \in net : Refuse(b)
  <2>1. PICK b \in net : Refuse(b)
    BY <1>6
  <2>2. /\ net' = net \ {b} /\ landed' = landed
        /\ answer' \subseteq answer \cup {<<b, "refused">>}
    BY <2>1 DEF Refuse, Reply, history
  <2>3. effects[b] = 1 /\ b \in Attempt /\ b \notin landed
    BY <1>1 DEF AnswersHonest
  <2>4. \A a \in Attempt : <<a, "ok">> \in answer' => a \in landed'
    BY <1>1, <2>2 DEF AnswersHonest
  <2>5. \A a \in Attempt : <<a, "refused">> \in answer'
           => effects'[a] = 1 /\ a \notin landed' \cup net'
    BY <1>1, <1>2, <2>2, <2>3 DEF AnswersHonest
  <2>6. QED
    BY <1>1, <1>2, <1>3, <2>2, <2>4, <2>5 DEF AnswersHonest
<1>7. CASE net' \subseteq net /\ landed' = landed /\ answer' \subseteq answer
  BY <1>1, <1>2, <1>3, <1>7 DEF AnswersHonest
<1>8. QED
  BY <1>4, <1>5, <1>6, <1>7, WireStep

\* Whoever causes the effect of a recovery holds a session that offered it.
LEMMA RecoveryOnlyStep ==
    ASSUME Inductive, Next
    PROVE  RecoveryOnlyAfterUncertain'
<1>1. /\ TypeOK /\ RecordsHonest /\ RecoveryOnlyAfterUncertain /\ effects \in [Attempt -> Nat]
      /\ op \in [Handler -> Operation]
  BY DEF Inductive, TypeOK
<1>2. uncertain \subseteq uncertain'
  BY UncertainGrows
<1>3. CASE effects' = effects
  BY <1>1, <1>2, <1>3 DEF RecoveryOnlyAfterUncertain
<1>4. ASSUME NEW h \in Handler, Current(h) \in Attempt,
             effects' = [effects EXCEPT ![Current(h)] = @ + 1]
      PROVE  RecoveryOnlyAfterUncertain'
  <2>1. /\ Current(h)[1] = op[h] /\ op[h] \in Operation
        /\ Current(h)[2] = snap[h].pending[op[h]]
    BY <1>1 DEF Current
  <2>2. Current(h)[2] \in Recovery => \E b \in uncertain : b[1] = Current(h)[1] /\ b[2] \notin Recovery
    BY <1>1, <2>1 DEF RecordsHonest, Honest, Earned
  <2>3. \A a \in Attempt : effects'[a] > 0 => a = Current(h) \/ effects[a] > 0
    BY <1>1, <1>4
  <2>4. QED
    BY <1>1, <1>2, <2>2, <2>3 DEF RecoveryOnlyAfterUncertain
<1>5. QED
  BY <1>3, <1>4, EffectStep

-----------------------------------------------------------------------------
(***************************************************************************)
(* The theorems.                                                           *)
(***************************************************************************)
\* The hub starts in the invariant.
LEMMA InitInductive == Init => Inductive
<1> SUFFICES ASSUME Init PROVE Inductive
  OBVIOUS
<1>1. TypeOK
  BY NewSessionFacts, OperationFacts, CrashesAssumption DEF Init, TypeOK, PCs, RailValues
<1>2. SessionsSound
  BY NewSessionSound DEF Init, SessionsSound
<1>3. EvidenceReal /\ RailLockStands
  BY DEF Init, EvidenceReal, RailLockStands, OneRailLock
<1>4. RequestsChecked /\ NamesUnique /\ BudgetsHeld
  BY DEF Init, RequestsChecked, Executing, NamesUnique, BudgetsHeld
<1>5. OneEffectPerAttempt /\ PredecessorsHappened
  BY DEF Init, OneEffectPerAttempt, PredecessorsHappened
<1>6. RecordsHonest
  BY NewSessionHonest DEF Init, RecordsHonest
<1>7. AnswersHonest /\ RecoveryOnlyAfterUncertain
  BY DEF Init, AnswersHonest, RecoveryOnlyAfterUncertain
<1>8. QED
  BY <1>1, <1>2, <1>3, <1>4, <1>5, <1>6, <1>7 DEF Inductive

\* No step of a request, the venue or a crash leaves it.
LEMMA StepInductive == Inductive /\ [Next]_vars => Inductive'
<1>1. ASSUME Inductive, Next PROVE Inductive'
  BY <1>1, TypeStep, SessionsSoundStep, RequestsCheckedStep, NamesUniqueStep,
     PublicEvidenceStep, BudgetsStep, PredecessorsStep, RecordsStep, AnswersStep,
     RecoveryOnlyStep DEF Inductive
<1>2. ASSUME Inductive, UNCHANGED vars PROVE Inductive'
  BY <1>2 DEF Inductive, vars, disk, memory, venue, history, TypeOK, SessionsSound, Sound,
     Happened, IsRail, After, RequestsChecked, NamesUnique, EvidenceReal, RailLockStands,
     OneRailLock, BudgetsHeld, Current,
     OneEffectPerAttempt, PredecessorsHappened, RecordsHonest, Honest, TrueRecord, Earned,
     AnswersHonest, RecoveryOnlyAfterUncertain
<1>3. QED
  BY <1>1, <1>2

\* The inductive invariant holds in every reachable state of a session.
THEOREM InductiveInvariant == Spec => []Inductive
  BY InitInductive, StepInductive, PTL DEF Spec

\* However many requests and crashes there are, an attempt has at most one
\* effect: its signature, POST or rail write is not made twice.
THEOREM AttemptsHaveOneEffect == Spec => []OneEffectPerAttempt
<1>1. Inductive => OneEffectPerAttempt
  BY DEF Inductive
<1>2. QED
  BY <1>1, InductiveInvariant, PTL

\* The steps of a deal take effect in order, whatever stale sessions are saved: a
\* message after every earlier message was accepted and every earlier value was on
\* the rail, if only because somebody else wrote it there.
THEOREM DealKeepsItsOrder == Spec => []PredecessorsHappened
<1>1. Inductive => PredecessorsHappened
  BY DEF Inductive
<1>2. QED
  BY <1>1, InductiveInvariant, PTL

\* However stale the session a request saves, what it records of an attempt is
\* what became of that attempt, unless its answer did not tell: nothing acknowledged
\* was lost, nothing recorded as rejected is or becomes public.
THEOREM RecordsAreTrue == Spec => []RecordedAttemptsAreTrue
<1>1. Inductive => RecordedAttemptsAreTrue
  BY DEF Inductive, RecordsHonest, Honest, RecordedAttemptsAreTrue
<1>2. QED
  BY <1>1, InductiveInvariant, PTL

\* A recovery is sent only after a first attempt that ended without an answer.
THEOREM RecoveriesAreEarned == Spec => []RecoveryOnlyAfterUncertain
<1>1. Inductive => RecoveryOnlyAfterUncertain
  BY DEF Inductive
<1>2. QED
  BY <1>1, InductiveInvariant, PTL

\* Each message of a record that is served as complete was accepted by the venue,
\* and each of its rail values was on the rail.
THEOREM ServedRecordIsTrue == Spec => []ServedRecordHappened
<1>1. Inductive => ServedRecordHappened
  BY DEF Inductive, ServedRecordHappened, Served, SessionsSound, Sound, FinalStates
<1>2. QED
  BY <1>1, InductiveInvariant, PTL

\* No two requests are executing the same operation at a time.
THEOREM ExecutionIsExclusive == Spec => []ExclusiveExecution
<1>1. Inductive => ExclusiveExecution
  BY DEF Inductive, TypeOK, RequestsChecked, NamesUnique, ExclusiveExecution
<1>2. QED
  BY <1>1, InductiveInvariant, PTL

\* A first write of the rail lock that comes late and its recovery do not both land.
THEOREM RailIsLockedOnce == Spec => []OneRailLock
<1>1. Inductive => OneRailLock
  BY DEF Inductive, RailLockStands
<1>2. QED
  BY <1>1, InductiveInvariant, PTL

-----------------------------------------------------------------------------
(***************************************************************************)
(* One request at a time.                                                  *)
(***************************************************************************)
OneRequest == \A g, h \in Handler : g = h

\* What a request holds contains every attempt that is saved.
SnapshotsCurrent == \A h \in Handler :
    pc[h] # "idle" => session.attempts \subseteq snap[h].attempts

\* The session a request holds next keeps every attempt.
Holds(h, s) ==
    /\ snap' = [snap EXCEPT ![h] = s]
    /\ session.attempts \subseteq s.attempts

LEMMA HeldStep ==
    ASSUME TypeOK, SnapshotsCurrent, NEW h \in Handler,
           Work(h) \/ Signer(h) \/ Operator(h)
    PROVE  \/ session' = session /\ Finish(h)
           \/ session' = session /\ \E s : Holds(h, s)
           \/ session' = snap[h] /\ Finish(h) /\ pc[h] = "writing"
<1> USE DEF disk
<1>1. /\ pc \in [Handler -> PCs] /\ snap \in [Handler -> Session] /\ session \in Session
  BY DEF TypeOK
<1>2. ASSUME pc[h] # "idle"
      PROVE  session.attempts \subseteq snap[h].attempts
  BY <1>2 DEF SnapshotsCurrent
<1>3. ASSUME NEW o \in Operation, PrepareStart(h, o) \/ ExecuteStart(h, o) \/ RefreshStart(h, o)
      PROVE  session' = session /\ \E s : Holds(h, s)
  BY <1>3 DEF PrepareStart, ExecuteStart, RefreshStart, Start, Holds
<1>4. ASSUME FinalizeStart(h)
      PROVE  session' = session /\ \E s : Holds(h, s)
  <2>1. Finalized(session).attempts = session.attempts
    BY <1>1 DEF Finalized, Session
  <2>2. QED
    BY <1>4, <2>1 DEF FinalizeStart, Start, Holds
<1>5. ASSUME NEW s, NEW label, Continue(h, label, s), session' = session, pc[h] # "idle",
             snap[h].attempts \subseteq s.attempts
      PROVE  session' = session /\ \E t : Holds(h, t)
  BY <1>2, <1>5 DEF Continue, Holds
<1>6. CASE Approve(h) \/ AcquireBudget(h) \/ Post(h) \/ OpenFile(h)
  BY <1>5, <1>6 DEF Approve, AcquireBudget, Post, OpenFile
<1>7. \A o, result, action : /\ snap[h].attempts \subseteq Recorded(snap[h], o, result).attempts
                             /\ Prepared(snap[h], o, action).attempts = snap[h].attempts
  BY <1>1 DEF Recorded, Prepared, Session
<1>8. \A o, exact : Observed(snap[h], o, exact).attempts = snap[h].attempts
  BY <1>1 DEF Observed, Verified, NotObserved, Session
<1>9. CASE PrepareArtifact(h)
  BY <1>5, <1>7, <1>9 DEF PrepareArtifact
<1>10. CASE SignReturns(h) \/ NoAnswer(h)
  BY <1>5, <1>7, <1>10 DEF SignReturns, NoAnswer
<1>11. CASE Observe(h)
  BY <1>5, <1>8, <1>11 DEF Observe
<1>12. ASSUME NEW verdict \in {"ok", "refused"}, Answered(h, verdict) \/ AnsweredVaguely(h, verdict)
       PROVE  session' = session /\ \E s : Holds(h, s)
  BY <1>5, <1>7, <1>12 DEF Answered, AnsweredVaguely
<1>13. CASE PrepareFails(h) \/ Cancel(h) \/ ExecuteFails(h) \/ SignFails(h) \/ ObserveThrows(h)
  BY <1>13 DEF PrepareFails, Cancel, ExecuteFails, SignFails, ObserveThrows
<1>14. CASE WriteFile(h)
  BY <1>14 DEF WriteFile
<1>15. QED
  BY <1>3, <1>4, <1>6, <1>9, <1>10, <1>11, <1>12, <1>13, <1>14 DEF Work, Signer, Operator

LEMMA OneRequestStep ==
    ASSUME OneRequest, TypeOK, SnapshotsCurrent, [Next]_vars
    PROVE  SnapshotsCurrent' /\ session.attempts \subseteq session'.attempts
<1>1. pc \in [Handler -> PCs] /\ snap \in [Handler -> Session]
  BY DEF TypeOK
<1>2. CASE UNCHANGED <<session, pc, snap>>
  BY <1>2 DEF SnapshotsCurrent
<1>3. CASE Crash
  BY <1>1, <1>3 DEF Crash, SnapshotsCurrent
<1>4. ASSUME NEW h \in Handler, Work(h) \/ Signer(h) \/ Operator(h)
      PROVE  SnapshotsCurrent' /\ session.attempts \subseteq session'.attempts
  <2>1. Handler = {h}
    BY DEF OneRequest
  <2>2. CASE session' = session /\ Finish(h)
    BY <1>1, <2>1, <2>2 DEF Finish, SnapshotsCurrent
  <2>3. ASSUME NEW s, session' = session, Holds(h, s)
        PROVE  SnapshotsCurrent' /\ session.attempts \subseteq session'.attempts
    BY <1>1, <2>1, <2>3 DEF Holds, SnapshotsCurrent
  <2>4. CASE pc[h] = "writing" /\ session' = snap[h] /\ Finish(h)
    BY <1>1, <2>1, <2>4 DEF Finish, SnapshotsCurrent
  <2>5. QED
    BY <1>4, <2>2, <2>3, <2>4, HeldStep
<1>5. CASE Venue
  BY <1>2, <1>5 DEF Venue, Accept, Refuse, Lose, ForeignWrite, disk, memory
<1>6. QED
  BY <1>2, <1>3, <1>4, <1>5 DEF Next, vars, disk, memory

\* With one request at a time, nothing that is saved drops an attempt
\* (saveSession rewrites the whole file; DEAL_HUB_V1.md).
THEOREM AttemptsStay ==
    ASSUME OneRequest
    PROVE  Spec => AttemptsImmutable
<1>1. Init => SnapshotsCurrent
  BY DEF Init, SnapshotsCurrent
<1>2. Inductive => TypeOK
  BY DEF Inductive
<1>3. Spec => []SnapshotsCurrent
  BY <1>1, <1>2, InductiveInvariant, OneRequestStep, PTL DEF Spec
<1>4. TypeOK /\ SnapshotsCurrent /\ [Next]_vars
        => [session.attempts \subseteq session'.attempts]_session
  BY OneRequestStep
<1>5. QED
  BY <1>2, <1>3, <1>4, InductiveInvariant, PTL DEF Spec, AttemptsImmutable
=============================================================================
