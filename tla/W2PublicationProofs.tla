------------------------ MODULE W2PublicationProofs ------------------------
(***************************************************************************)
(* Proofs about W2Publication for any drafts, any number of concurrent     *)
(* calls, any number of nonces and of crashes.                             *)
(***************************************************************************)
EXTENDS W2Publication, TLAPS

\* The constants and the sets of labels the steps work with.
LEMMA OperationFacts ==
    /\ \A o \in Operation : o[1] \in Draft /\ o[2] \in Nonce /\ o = <<o[1], o[2]>>
    /\ \A d \in Draft, n \in Nonce : <<d, n>> \in Operation
    /\ Nonce \subseteq Nat
  BY BoundsAssumption DEF Operation, Nonce

\* A ledger with the recorded result of a POST is a ledger.
LEMMA AnsweredLedger ==
    ASSUME NEW l \in Ledger, NEW state \in LedgerState
    PROVE  [l EXCEPT !.state = state, !.postCalls = 1] \in Ledger
<1>1. 1 \in 0 .. 1
  OBVIOUS
<1>2. QED
  BY <1>1 DEF Ledger

\* Type correctness is kept by every step.
LEMMA TypeStep == ASSUME Inductive, Next PROVE TypeOK'
<1> USE OperationFacts, BoundsAssumption DEF disk, call, external, venue, world, history
<1>1. TypeOK /\ CallsInOrder
  BY DEF Inductive
<1>2. ASSUME NEW c \in Caller, NEW step \in Step, NEW o \in Operation,
             NEW outcome \in Answer \cup Sighting \cup {"NONE"}, Goes(c, step, o, outcome)
      PROVE  /\ pc' \in [Caller -> Step]
             /\ op' \in [Caller -> Operation \cup {NoOperation}]
             /\ \A b \in Caller : pc'[b] # "idle" => op'[b] \in Operation
             /\ result' \in [Caller -> Answer \cup Sighting \cup {"NONE"}]
  BY <1>1, <1>2 DEF TypeOK, Goes
<1>3. ASSUME NEW c \in Caller, Ends(c)
      PROVE  /\ pc' \in [Caller -> Step]
             /\ op' \in [Caller -> Operation \cup {NoOperation}]
             /\ \A b \in Caller : pc'[b] # "idle" => op'[b] \in Operation
             /\ result' \in [Caller -> Answer \cup Sighting \cup {"NONE"}]
  BY <1>1, <1>3 DEF TypeOK, Ends, Goes, Step
<1>4. ASSUME NEW o \in Operation, NEW value \in Ledger, Saves(o, value)
      PROVE  ledger' \in [Operation -> Ledger] /\ budgets' \subseteq Operation
  BY <1>1, <1>4 DEF TypeOK, Saves
<1>5. \A state \in LedgerState : NewLedger(state) \in Ledger
  BY DEF NewLedger, Ledger, Budget
<1>6. ASSUME NEW c \in Caller, NEW d \in Draft, Reserve(c, d) PROVE TypeOK'
  <2>1. custody' \in [Draft -> Reservation] /\ counter' \in 0 .. MaxNonce
          /\ custody'[d].nonce \in Nonce
    <3>1. CASE custody[d].state = "RESERVED" /\ UNCHANGED external
      <4>1. custody[d] \in Reservation /\ custody[d].nonce > 0
        BY <1>1, <3>1 DEF TypeOK, Inductive, ReservationsInOrder
      <4>2. QED
        BY <4>1, <3>1, <1>1 DEF TypeOK, Reservation, Nonce
    <3>2. CASE /\ counter < MaxNonce
               /\ counter' = counter + 1
               /\ custody' = [custody EXCEPT ![d] = [nonce |-> counter', state |-> "RESERVED"]]
      <4>1. counter' \in Nonce /\ counter' \in 0 .. MaxNonce
        BY <3>2, <1>1 DEF TypeOK, Nonce
      <4>2. [nonce |-> counter', state |-> "RESERVED"] \in Reservation
        BY <4>1 DEF Reservation
      <4>3. QED
        BY <4>1, <4>2, <3>2, <1>1 DEF TypeOK
    <3>3. QED
      BY <3>1, <3>2, <1>6 DEF Reserve
  <2>2. <<d, custody'[d].nonce>> \in Operation
    BY <2>1
  <2>3. QED
    BY <2>1, <2>2, <1>1, <1>2, <1>6 DEF Reserve, TypeOK, Step
<1>7. ASSUME NEW c \in Caller, NEW o \in Operation,
             SignStart(c, o) \/ CancelStart(c, o) \/ SubmitStart(c, o) \/ ObserveStart(c, o)
      PROVE  TypeOK'
  BY <1>7, <1>1, <1>2 DEF SignStart, CancelStart, SubmitStart, ObserveStart, TypeOK, Step
<1>8. ASSUME NEW c \in Caller, Create(c) \/ SaveCancelled(c) \/ SaveSigned(c)
                                \/ SaveAnswer(c) \/ SaveObservation(c) \/ Fails(c)
      PROVE  TypeOK'
  <2>1. op[c] \in Operation
    BY <1>8, <1>1 DEF Create, SaveCancelled, SaveSigned, SaveAnswer, SaveObservation, Fails, TypeOK
  <2>2. ledger[op[c]] \in Ledger
    BY <2>1, <1>1 DEF TypeOK
  <2>3. ledger' \in [Operation -> Ledger] /\ budgets' \subseteq Operation
    <3>1. CASE Create(c)
      BY <3>1, <2>1, <1>1, <1>4, <1>5 DEF Create, TypeOK, LedgerState
    <3>2. CASE SaveCancelled(c)
      BY <3>2, <2>1, <2>2, <1>4 DEF SaveCancelled, Ledger, LedgerState
    <3>3. CASE SaveSigned(c)
      BY <3>3, <2>1, <2>2, <1>1, <1>4 DEF SaveSigned, TypeOK, Ledger, LedgerState
    <3>4. CASE SaveAnswer(c)
      <4>1. result[c] \in Answer
        BY <3>4, <1>1 DEF SaveAnswer, CallsInOrder, CallInOrder
      <4> DEFINE refused == [ledger[op[c]] EXCEPT !.state = "SUBMISSION_UNCERTAIN"]
                 answered == [ledger[op[c]] EXCEPT !.state = result[c], !.postCalls = 1]
      <4>2. refused \in Ledger
        BY <2>2 DEF Ledger, LedgerState
      <4>3. result[c] # "BUDGET_REFUSED" => answered \in Ledger
        <5>1. result[c] # "BUDGET_REFUSED" => result[c] \in LedgerState
          BY <4>1 DEF LedgerState, Answer
        <5>2. QED
          BY <2>2, <5>1, AnsweredLedger
      <4>4. Saves(op[c], IF result[c] = "BUDGET_REFUSED" THEN refused ELSE answered)
        BY <3>4 DEF SaveAnswer
      <4> HIDE DEF refused, answered
      <4>5. QED
        BY <4>2, <4>3, <4>4, <2>1, <1>4
    <3>5. CASE SaveObservation(c)
      BY <3>5, <2>1, <2>2, <1>1, <1>4 DEF SaveObservation, TypeOK, Ledger, LedgerState
    <3>6. CASE Fails(c)
      BY <3>6, <1>1 DEF Fails, TypeOK
    <3>7. QED
      BY <3>1, <3>2, <3>3, <3>4, <3>5, <3>6, <1>8
  <2>4. QED
    BY <2>3, <1>1, <1>3, <1>8 DEF Create, SaveCancelled, SaveSigned, SaveAnswer, SaveObservation,
                                 Fails, TypeOK
<1>9. ASSUME NEW c \in Caller, ApproveSign(c) \/ ApproveSubmit(c) PROVE TypeOK'
  <2>1. op[c] \in Operation /\ ledger[op[c]] \in Ledger
    BY <1>9, <1>1 DEF ApproveSign, ApproveSubmit, TypeOK
  <2>2. ledger' \in [Operation -> Ledger] /\ budgets' \subseteq Operation
    BY <2>1, <1>4, <1>9 DEF ApproveSign, ApproveSubmit, Ledger, LedgerState, Budget
  <2>3. QED
    BY <2>1, <2>2, <1>1, <1>2, <1>9 DEF ApproveSign, ApproveSubmit, Proceeds, TypeOK, Step
<1>10. ASSUME NEW c \in Caller, Burn(c) \/ CustodySigns(c) \/ Post(c) PROVE TypeOK'
  <2>1. op[c] \in Operation
    BY <1>10, <1>1 DEF Burn, CustodySigns, Post, TypeOK
  <2>2. custody' \in [Draft -> Reservation]
    <3>1. CASE Burn(c)
      <4>1. op[c][1] \in Draft
        BY <2>1
      <4>2. custody[op[c][1]] \in Reservation
        BY <4>1, <1>1 DEF TypeOK
      <4>3. [custody[op[c][1]] EXCEPT !.state = "BURNED"] \in Reservation
        BY <4>2 DEF Reservation
      <4>4. custody' = [custody EXCEPT ![op[c][1]] = [custody[op[c][1]] EXCEPT !.state = "BURNED"]]
        BY <3>1 DEF Burn
      <4>5. QED
        BY <4>1, <4>3, <4>4, <1>1 DEF TypeOK
    <3>2. QED
      BY <3>1, <1>10, <1>1 DEF CustodySigns, Post, TypeOK
  <2>3. signatures' \in [Operation -> Nat] /\ posts' \in [Operation -> Nat]
    <3>1. CASE Burn(c)
      BY <3>1, <1>1 DEF Burn, TypeOK
    <3>2. CASE CustodySigns(c)
      <4>1. signatures[op[c]] + 1 \in Nat
        BY <2>1, <1>1 DEF TypeOK
      <4>2. QED
        BY <4>1, <3>2, <1>1 DEF CustodySigns, TypeOK
    <3>3. CASE Post(c)
      <4>1. posts[op[c]] + 1 \in Nat
        BY <2>1, <1>1 DEF TypeOK
      <4>2. QED
        BY <4>1, <3>3, <1>1 DEF Post, TypeOK
    <3>4. QED
      BY <3>1, <3>2, <3>3, <1>10
  <2>4. QED
    BY <2>1, <2>2, <2>3, <1>1, <1>2, <1>10 DEF Burn, CustodySigns, Post, Proceeds, TypeOK, Step
<1>11. ASSUME NEW c \in Caller, BudgetRefused(c) \/ Answered(c) \/ AnsweredVaguely(c)
                                \/ NoAnswer(c) \/ Observe(c)
       PROVE  TypeOK'
  <2>1. op[c] \in Operation
    BY <1>11, <1>1 DEF BudgetRefused, Answered, NoAnswer, AnsweredVaguely, Observe, TypeOK
  <2>2. QED
    BY <2>1, <1>1, <1>2, <1>11 DEF BudgetRefused, Answered, NoAnswer, AnsweredVaguely, Observe,
                                   TypeOK, Step,
                                   Answer, Sighting
<1>12. ASSUME Environment PROVE TypeOK'
  BY <1>12, <1>1 DEF Environment, Accept, Reject, Lose, Expire, ChangeRecord, Crash, TypeOK, Step
<1>13. QED
  BY <1>6, <1>7, <1>8, <1>9, <1>10, <1>11, <1>12 DEF Next, Work, Awaited, Request

\* A step changes one ledger, the one of its call, or none.
LEMMA LedgerChange ==
    ASSUME Inductive, Next, ledger' # ledger
    PROVE  \E c \in Caller :
              /\ op[c] \in Operation
              /\ ledger' = [ledger EXCEPT ![op[c]] = ledger'[op[c]]]
              /\ UNCHANGED <<external, venue, history>>
              /\ Create(c) \/ SaveCancelled(c) \/ ApproveSign(c) \/ SaveSigned(c)
                 \/ ApproveSubmit(c) \/ SaveAnswer(c) \/ SaveObservation(c)
<1> USE DEF disk, call, external, venue, world, history
<1>1. ledger \in [Operation -> Ledger] /\ \A c \in Caller : pc[c] # "idle" => op[c] \in Operation
  BY DEF Inductive, TypeOK
<1>2. PICK c \in Caller : Create(c) \/ SaveCancelled(c) \/ ApproveSign(c) \/ SaveSigned(c)
                         \/ ApproveSubmit(c) \/ SaveAnswer(c) \/ SaveObservation(c)
  BY ZenonT(30) DEF Next, Work, Awaited, Request, Environment, Reserve, SignStart, CancelStart, SubmitStart,
         ObserveStart, Burn, CustodySigns, Fails, Post, BudgetRefused, Answered, NoAnswer,
         AnsweredVaguely, Observe,
         Accept, Reject, Lose, Expire, ChangeRecord, Crash
<1>3. op[c] \in Operation
  BY <1>1, <1>2 DEF Create, SaveCancelled, ApproveSign, SaveSigned, ApproveSubmit, SaveAnswer,
                    SaveObservation
<1>4. UNCHANGED <<external, venue, history>>
  BY <1>2 DEF Create, SaveCancelled, ApproveSign, SaveSigned, ApproveSubmit, SaveAnswer,
              SaveObservation
<1>5. \E value : ledger' = [ledger EXCEPT ![op[c]] = value]
  BY <1>2 DEF Create, SaveCancelled, ApproveSign, SaveSigned, ApproveSubmit, SaveAnswer,
              SaveObservation, Saves
<1>6. QED
  BY <1>1, <1>2, <1>3, <1>4, <1>5

\* What each step writes into the ledger of its call.
LEMMA LedgerValue ==
    ASSUME Inductive, NEW c \in Caller, op[c] \in Operation, ledger' # ledger
    PROVE  LET l == ledger[op[c]]
               m == ledger'[op[c]]
           IN  /\ Create(c) => l.state = "NONE" /\ m = NewLedger("APPROVAL_PENDING")
               /\ SaveCancelled(c) => m = [l EXCEPT !.state = "CANCELLED_NONCE_BURNED"]
               /\ ApproveSign(c) => m = [l EXCEPT !.signBudget = "SPENT",
                                                 !.state = "SIGNING_OUTCOME_UNCERTAIN"]
               /\ SaveSigned(c) => m = [l EXCEPT !.state = "SIGNED", !.signature = TRUE]
               /\ ApproveSubmit(c) => m = [l EXCEPT !.submitBudget = "SPENT",
                                                   !.state = "SUBMISSION_UNCERTAIN"]
               /\ SaveAnswer(c) /\ result[c] = "BUDGET_REFUSED" =>
                     m = [l EXCEPT !.state = "SUBMISSION_UNCERTAIN"]
               /\ SaveAnswer(c) /\ result[c] # "BUDGET_REFUSED" =>
                     m = [l EXCEPT !.state = result[c], !.postCalls = 1]
               /\ SaveObservation(c) => /\ result[c] = "OBSERVED_PUBLIC"
                                       /\ m = [l EXCEPT !.state = "COMPLETE", !.observed = TRUE]
<1>1. ledger \in [Operation -> Ledger]
  BY DEF Inductive, TypeOK
<1>2. QED
  BY <1>1 DEF Create, SaveCancelled, ApproveSign, SaveSigned, ApproveSubmit, SaveAnswer,
              SaveObservation, Saves, disk

\* The counter of nonces does not go back, and a nonce that is not reserved now
\* and was given out is not reserved afterwards.
LEMMA CustodyChange ==
    ASSUME Inductive, Next
    PROVE  /\ counter <= counter'
           /\ \A o \in Operation : o[2] <= counter /\ ~Reserved(o) => ~Reserved(o)'
           /\ ~(external' = external) => UNCHANGED <<disk, venue, history>>
<1> USE DEF disk, call, external, venue, world, history
<1>1. counter \in Nat /\ custody \in [Draft -> Reservation] /\ BoundsAssumption
  BY BoundsAssumption DEF Inductive, TypeOK
<1>2. ASSUME NEW c \in Caller, NEW d \in Draft, Reserve(c, d), counter' = counter + 1
      PROVE  \A o \in Operation : o[2] <= counter /\ ~Reserved(o) => ~Reserved(o)'
  <2>1. custody' = [custody EXCEPT ![d] = [nonce |-> counter', state |-> "RESERVED"]]
    BY <1>2, <1>1 DEF Reserve
  <2>2. \A o \in Operation : o[1] \in Draft /\ o[2] \in Nat
    BY OperationFacts
  <2>3. QED
    BY <2>1, <2>2, <1>1, <1>2 DEF Reserved
<1>3. ASSUME NEW c \in Caller, NEW d \in Draft, Reserve(c, d), ~(counter' = counter + 1)
      PROVE  external' = external
  BY <1>3 DEF Reserve
<1>4. ASSUME NEW c \in Caller, NEW d \in Draft, Reserve(c, d)
      PROVE  counter <= counter' /\ UNCHANGED <<disk, venue, history>>
  BY <1>4, <1>1 DEF Reserve
<1>5. ASSUME NEW c \in Caller, Burn(c)
      PROVE  /\ counter' = counter
             /\ \A o \in Operation : ~Reserved(o) => ~Reserved(o)'
             /\ UNCHANGED <<disk, venue, history>>
  <2>1. op[c] \in Operation
    BY <1>5 DEF Burn, Inductive, TypeOK
  <2>2. op[c][1] \in Draft
    BY <2>1, OperationFacts
  <2>3. custody' = [custody EXCEPT ![op[c][1]] = [custody[op[c][1]] EXCEPT !.state = "BURNED"]]
    BY <1>5 DEF Burn
  <2>4. \A o \in Operation : o[1] \in Draft
    BY OperationFacts
  <2>5. custody'[op[c][1]].state = "BURNED"
    BY <2>2, <2>3, <1>1 DEF Reservation
  <2>6. \A o \in Operation : Reserved(o)' => o[1] # op[c][1]
    BY <2>5 DEF Reserved
  <2>7. QED
    BY <2>2, <2>3, <2>4, <2>6, <1>1, <1>5 DEF Burn, Reserved
<1>6. ASSUME \A c \in Caller : ~Burn(c) /\ \A d \in Draft : ~Reserve(c, d)
      PROVE  external' = external
  BY ZenonT(30), <1>6 DEF Next, Work, Awaited, Request, Environment, SignStart, CancelStart, SubmitStart,
              ObserveStart, CustodySigns, Fails, Post, BudgetRefused, Answered, NoAnswer,
         AnsweredVaguely, Observe,
              Create, SaveCancelled, ApproveSign, SaveSigned, ApproveSubmit, SaveAnswer,
              SaveObservation, Accept, Reject, Lose, Expire, ChangeRecord, Crash
<1>7. external' = external => counter <= counter' /\ \A o \in Operation : Reserved(o)' <=> Reserved(o)
  BY <1>1 DEF Reserved
<1>8. QED
  BY <1>2, <1>3, <1>4, <1>5, <1>6, <1>7, <1>1

\* The fields of a ledger still agree with its state after every step.
LEMMA LedgersStep == ASSUME Inductive, Next PROVE LedgersInOrder'
<1> DEFINE InOrder(l) ==
       /\ l.signBudget = "SPENT"
             <=> l.state \notin {"NONE", "APPROVAL_PENDING", "CANCELLED_NONCE_BURNED"}
       /\ l.signature <=> l.state \in {"SIGNED"} \cup Sent
       /\ l.submitBudget = "SPENT" <=> l.state \in Sent
<1>1. counter \in Nat /\ counter' \in Nat /\ ledger \in [Operation -> Ledger]
  BY TypeStep, BoundsAssumption DEF Inductive, TypeOK
<1>2. counter <= counter' /\ \A o \in Operation : o[2] \in Nat
  BY CustodyChange, OperationFacts
<1>3. \A o \in Operation : InOrder(ledger[o]) /\ (ledger[o].state # "NONE" => o[2] <= counter)
  BY DEF Inductive, LedgersInOrder
<1>4. ASSUME ledger' = ledger PROVE LedgersInOrder'
  BY <1>1, <1>2, <1>3, <1>4 DEF LedgersInOrder
<1>5. ASSUME ledger' # ledger PROVE LedgersInOrder'
  <2>1. PICK c \in Caller :
           /\ op[c] \in Operation
           /\ ledger' = [ledger EXCEPT ![op[c]] = ledger'[op[c]]]
           /\ Create(c) \/ SaveCancelled(c) \/ ApproveSign(c) \/ SaveSigned(c)
              \/ ApproveSubmit(c) \/ SaveAnswer(c) \/ SaveObservation(c)
    BY <1>5, LedgerChange
  <2> DEFINE o == op[c]
             l == ledger[o]
             m == ledger'[o]
  <2>2. CallInOrder(c, o)
    BY DEF Inductive, CallsInOrder
  <2>3. l \in Ledger /\ InOrder(l)
    BY <2>1, <1>1, <1>3
  <2>4. InOrder(m) /\ m.state # "NONE" /\ o[2] <= counter
    <3>1. CASE Create(c)
      <4>1. m = NewLedger("APPROVAL_PENDING")
        BY <3>1, <2>1, <1>5, LedgerValue
      <4>2. o[2] <= counter
        BY <3>1, <2>2 DEF Create, CallInOrder
      <4>3. QED
        BY <4>1, <4>2 DEF NewLedger, Sent
    <3>2. CASE SaveCancelled(c)
      <4>1. m = [l EXCEPT !.state = "CANCELLED_NONCE_BURNED"]
        BY <3>2, <2>1, <1>5, LedgerValue
      <4>2. l.state = "APPROVAL_PENDING"
        BY <3>2, <2>2 DEF SaveCancelled, CallInOrder
      <4>3. QED
        BY <4>1, <4>2, <2>1, <2>3, <1>3 DEF Ledger, Sent
    <3>3. CASE ApproveSign(c)
      <4>1. m = [l EXCEPT !.signBudget = "SPENT", !.state = "SIGNING_OUTCOME_UNCERTAIN"]
        BY <3>3, <2>1, <1>5, LedgerValue
      <4>2. l.state = "APPROVAL_PENDING"
        BY <3>3, <2>2 DEF ApproveSign, CallInOrder
      <4>3. QED
        BY <4>1, <4>2, <2>1, <2>3, <1>3 DEF Ledger, Sent
    <3>4. CASE SaveSigned(c)
      <4>1. m = [l EXCEPT !.state = "SIGNED", !.signature = TRUE]
        BY <3>4, <2>1, <1>5, LedgerValue
      <4>2. l.state = "SIGNING_OUTCOME_UNCERTAIN"
        BY <3>4, <2>2 DEF SaveSigned, CallInOrder
      <4>3. QED
        BY <4>1, <4>2, <2>1, <2>3, <1>3 DEF Ledger, Sent
    <3>5. CASE ApproveSubmit(c)
      <4>1. m = [l EXCEPT !.submitBudget = "SPENT", !.state = "SUBMISSION_UNCERTAIN"]
        BY <3>5, <2>1, <1>5, LedgerValue
      <4>2. l.state = "SIGNED"
        BY <3>5, <2>2 DEF ApproveSubmit, CallInOrder
      <4>3. QED
        BY <4>1, <4>2, <2>1, <2>3, <1>3 DEF Ledger, Sent
    <3>6. CASE SaveAnswer(c)
      <4>1. l.state \in Sent /\ result[c] \in Answer
        BY <3>6, <2>2 DEF SaveAnswer, CallInOrder
      <4>2. \/ m = [l EXCEPT !.state = "SUBMISSION_UNCERTAIN"]
            \/ result[c] \in Sent /\ m = [l EXCEPT !.state = result[c], !.postCalls = 1]
        BY <3>6, <4>1, <2>1, <1>5, LedgerValue DEF Answer, Sent
      <4>3. QED
        BY <4>1, <4>2, <2>1, <2>3, <1>3 DEF Ledger, Sent
    <3>7. CASE SaveObservation(c)
      <4>1. m = [l EXCEPT !.state = "COMPLETE", !.observed = TRUE]
        BY <3>7, <2>1, <1>5, LedgerValue
      <4>2. l.state \in Sent
        BY <3>7, <2>2 DEF SaveObservation, CallInOrder
      <4>3. QED
        BY <4>1, <4>2, <2>1, <2>3, <1>3 DEF Ledger, Sent
    <3>8. QED
      BY <3>1, <3>2, <3>3, <3>4, <3>5, <3>6, <3>7, <2>1
  <2>5. ASSUME NEW p \in Operation
        PROVE  InOrder(ledger'[p]) /\ (ledger'[p].state # "NONE" => p[2] <= counter')
    <3>1. CASE p = o
      BY <3>1, <2>4, <1>1, <1>2
    <3>2. CASE p # o
      BY <3>2, <2>1, <1>1, <1>2, <1>3
    <3>3. QED
      BY <3>1, <3>2
  <2>6. QED
    BY <2>5 DEF LedgersInOrder
<1>6. QED
  BY <1>4, <1>5

\* No step takes back a budget, a signature, a recorded result or an observation.
LEMMA EvidenceGrows ==
    ASSUME Inductive, Next, NEW o \in Operation
    PROVE  /\ ledger[o].signBudget = "SPENT" => ledger'[o].signBudget = "SPENT"
           /\ ledger[o].submitBudget = "SPENT" => ledger'[o].submitBudget = "SPENT"
           /\ ledger[o].signature => ledger'[o].signature
           /\ ledger[o].observed => ledger'[o].observed
           /\ ledger[o].postCalls <= ledger'[o].postCalls
<1>1. ledger \in [Operation -> Ledger] /\ ledger' \in [Operation -> Ledger]
  BY TypeStep DEF Inductive, TypeOK
<1>2. ledger[o] \in Ledger /\ ledger'[o] \in Ledger
  BY <1>1
<1>3. CASE ledger'[o] = ledger[o]
  BY <1>2, <1>3 DEF Ledger
<1>4. CASE ledger'[o] # ledger[o]
  <2>1. PICK c \in Caller :
           /\ op[c] \in Operation
           /\ ledger' = [ledger EXCEPT ![op[c]] = ledger'[op[c]]]
           /\ Create(c) \/ SaveCancelled(c) \/ ApproveSign(c) \/ SaveSigned(c)
              \/ ApproveSubmit(c) \/ SaveAnswer(c) \/ SaveObservation(c)
    BY <1>4, LedgerChange
  <2>2. op[c] = o
    BY <2>1, <1>1, <1>4
  <2> DEFINE l == ledger[o]
             m == ledger'[o]
  <2>3. CASE Create(c)
    <3>1. l.state = "NONE"
      BY <2>1, <2>2, <2>3, <1>4, LedgerValue
    <3>2. l.signBudget # "SPENT" /\ l.submitBudget # "SPENT" /\ ~l.signature
      BY <3>1 DEF Inductive, LedgersInOrder, Sent
    <3>3. posts[o] # 1
      BY <3>2 DEF Inductive, EffectsInOrder
    <3>4. ~l.observed /\ l.postCalls # 1
      BY <3>3 DEF Inductive, EffectsInOrder, VenueInOrder
    <3>5. QED
      BY <3>2, <3>4, <1>2 DEF Ledger
  <2>4. CASE SaveCancelled(c)
    <3>1. m = [l EXCEPT !.state = "CANCELLED_NONCE_BURNED"]
      BY <2>1, <2>2, <2>4, <1>4, LedgerValue
    <3>2. QED
      BY <3>1, <1>2 DEF Ledger
  <2>5. CASE ApproveSign(c)
    <3>1. m = [l EXCEPT !.signBudget = "SPENT", !.state = "SIGNING_OUTCOME_UNCERTAIN"]
      BY <2>1, <2>2, <2>5, <1>4, LedgerValue
    <3>2. QED
      BY <3>1, <1>2 DEF Ledger
  <2>6. CASE SaveSigned(c)
    <3>1. m = [l EXCEPT !.state = "SIGNED", !.signature = TRUE]
      BY <2>1, <2>2, <2>6, <1>4, LedgerValue
    <3>2. QED
      BY <3>1, <1>2 DEF Ledger
  <2>7. CASE ApproveSubmit(c)
    <3>1. m = [l EXCEPT !.submitBudget = "SPENT", !.state = "SUBMISSION_UNCERTAIN"]
      BY <2>1, <2>2, <2>7, <1>4, LedgerValue
    <3>2. QED
      BY <3>1, <1>2 DEF Ledger
  <2>8. CASE SaveAnswer(c)
    <3>1. \/ m = [l EXCEPT !.state = "SUBMISSION_UNCERTAIN"]
          \/ m = [l EXCEPT !.state = result[c], !.postCalls = 1]
      BY <2>1, <2>2, <2>8, <1>4, LedgerValue
    <3>2. CASE m = [l EXCEPT !.state = "SUBMISSION_UNCERTAIN"]
      BY <3>2, <1>2 DEF Ledger
    <3>3. CASE m = [l EXCEPT !.state = result[c], !.postCalls = 1]
      <4>1. l.postCalls \in 0 .. 1 /\ m.postCalls = 1
        BY <3>3, <1>2 DEF Ledger
      <4>2. /\ m.signBudget = l.signBudget /\ m.submitBudget = l.submitBudget
            /\ m.signature = l.signature /\ m.observed = l.observed
        BY <3>3, <1>2 DEF Ledger
      <4>3. QED
        BY <4>1, <4>2
    <3>4. QED
      BY <3>1, <3>2, <3>3
  <2>9. CASE SaveObservation(c)
    <3>1. m = [l EXCEPT !.state = "COMPLETE", !.observed = TRUE]
      BY <2>1, <2>2, <2>9, <1>4, LedgerValue
    <3>2. QED
      BY <3>1, <1>2 DEF Ledger
  <2>10. QED
    BY <2>1, <2>3, <2>4, <2>5, <2>6, <2>7, <2>8, <2>9
<1>5. QED
  BY <1>3, <1>4

\* What a ledger newly claims was known to the call that writes it.
LEMMA NewClaims ==
    ASSUME Inductive, Next, NEW o \in Operation, ledger'[o] # ledger[o]
    PROVE  /\ ledger'[o].signature => signatures[o] = 1
           /\ ledger'[o].postCalls = 1 => posts[o] = 1
           /\ ledger'[o].state = "REJECTED" => reply[o] = "CLIENT_ERROR" \/ o \in vague
           /\ ledger'[o].state \in {"ACK_RECEIVED", "COMPLETE"} => reply[o] = "OK"
           /\ ledger'[o].state = "COMPLETE" => ledger'[o].observed
           /\ ledger'[o].observed => reply[o] = "OK"
           /\ ledger'[o].state = "CANCELLED_NONCE_BURNED" => ~Reserved(o)
<1>1. ledger \in [Operation -> Ledger]
  BY DEF Inductive, TypeOK
<1>2. PICK c \in Caller :
         /\ op[c] \in Operation
         /\ ledger' = [ledger EXCEPT ![op[c]] = ledger'[op[c]]]
         /\ Create(c) \/ SaveCancelled(c) \/ ApproveSign(c) \/ SaveSigned(c)
            \/ ApproveSubmit(c) \/ SaveAnswer(c) \/ SaveObservation(c)
  BY LedgerChange
<1>3. op[c] = o
  BY <1>1, <1>2
<1> DEFINE l == ledger[o]
           m == ledger'[o]
<1>4. l \in Ledger /\ CallInOrder(c, o)
  BY <1>1, <1>3 DEF Inductive, CallsInOrder
<1>5. /\ l.signature => signatures[o] = 1
      /\ l.postCalls = 1 => posts[o] = 1
      /\ l.observed => reply[o] = "OK"
      /\ l.state = "COMPLETE" => l.observed
  BY DEF Inductive, EffectsInOrder, VenueInOrder
<1>6. CASE Create(c)
  <2>1. m = NewLedger("APPROVAL_PENDING")
    BY <1>2, <1>3, <1>6, LedgerValue
  <2>2. QED
    BY <2>1 DEF NewLedger
<1>7. CASE SaveCancelled(c)
  <2>1. m = [l EXCEPT !.state = "CANCELLED_NONCE_BURNED"] /\ ~Reserved(o)
    BY <1>2, <1>3, <1>4, <1>7, LedgerValue DEF SaveCancelled, CallInOrder
  <2>2. QED
    BY <2>1, <1>4, <1>5 DEF Ledger
<1>8. CASE ApproveSign(c)
  <2>1. m = [l EXCEPT !.signBudget = "SPENT", !.state = "SIGNING_OUTCOME_UNCERTAIN"]
    BY <1>2, <1>3, <1>8, LedgerValue
  <2>2. QED
    BY <2>1, <1>4, <1>5 DEF Ledger
<1>9. CASE SaveSigned(c)
  <2>1. m = [l EXCEPT !.state = "SIGNED", !.signature = TRUE] /\ signatures[o] = 1
    BY <1>2, <1>3, <1>4, <1>9, LedgerValue DEF SaveSigned, CallInOrder
  <2>2. QED
    BY <2>1, <1>4, <1>5 DEF Ledger
<1>10. CASE ApproveSubmit(c)
  <2>1. m = [l EXCEPT !.submitBudget = "SPENT", !.state = "SUBMISSION_UNCERTAIN"]
    BY <1>2, <1>3, <1>10, LedgerValue
  <2>2. QED
    BY <2>1, <1>4, <1>5 DEF Ledger
<1>11. CASE SaveAnswer(c) /\ result[c] = "BUDGET_REFUSED"
  <2>1. m = [l EXCEPT !.state = "SUBMISSION_UNCERTAIN"]
    BY <1>2, <1>3, <1>11, LedgerValue
  <2>2. QED
    BY <2>1, <1>4, <1>5 DEF Ledger
<1>12. CASE SaveAnswer(c) /\ result[c] # "BUDGET_REFUSED"
  <2>1. m = [l EXCEPT !.state = result[c], !.postCalls = 1]
    BY <1>2, <1>3, <1>12, LedgerValue
  <2>2. /\ result[c] \in {"ACK_RECEIVED", "REJECTED", "SUBMISSION_UNCERTAIN"}
        /\ result[c] = "ACK_RECEIVED" => reply[o] = "OK"
        /\ result[c] = "REJECTED" => reply[o] = "CLIENT_ERROR" \/ o \in vague
        /\ posts[o] = 1
    BY <1>4, <1>12 DEF SaveAnswer, CallInOrder, Answer
  <2>3. QED
    BY <2>1, <2>2, <1>4, <1>5 DEF Ledger
<1>13. CASE SaveObservation(c)
  <2>1. /\ m = [l EXCEPT !.state = "COMPLETE", !.observed = TRUE]
        /\ reply[o] = "OK"
    BY <1>2, <1>3, <1>4, <1>13, LedgerValue DEF SaveObservation, CallInOrder
  <2>2. QED
    BY <2>1, <1>4, <1>5 DEF Ledger
<1>14. QED
  BY <1>2, <1>6, <1>7, <1>8, <1>9, <1>10, <1>11, <1>12, <1>13

\* The reservation of a signed operation stays: only a pending one is burned.
LEMMA SignedStaysReserved ==
    ASSUME Inductive, Next, NEW o \in Operation, ledger[o].signBudget = "SPENT", Reserved(o)
    PROVE  Reserved(o)'
<1> USE DEF disk, call, external, venue, world, history
<1>1. custody \in [Draft -> Reservation] /\ o[1] \in Draft
  BY OperationFacts DEF Inductive, TypeOK
<1>2. ASSUME NEW c \in Caller, NEW d \in Draft, Reserve(c, d) PROVE Reserved(o)'
  <2>1. CASE external' = external
    BY <2>1 DEF Reserved
  <2>2. CASE custody[d].state = "BURNED"
             /\ custody' = [custody EXCEPT ![d] = [nonce |-> counter', state |-> "RESERVED"]]
    <3>1. d # o[1]
      BY <2>2 DEF Reserved
    <3>2. QED
      BY <3>1, <2>2, <1>1 DEF Reserved
  <2>3. QED
    BY <2>1, <2>2, <1>2 DEF Reserve
<1>3. ASSUME NEW c \in Caller, Burn(c) PROVE Reserved(o)'
  <2>1. op[c] \in Operation /\ ledger[op[c]].state = "APPROVAL_PENDING"
    BY <1>3 DEF Burn, Inductive, TypeOK, CallsInOrder, CallInOrder
  <2>2. op[c] # o
    BY <2>1 DEF Inductive, LedgersInOrder
  <2>3. op[c][1] # o[1]
    BY <2>1, <2>2, <1>3, OperationFacts DEF Burn, Reserved
  <2>4. custody'[o[1]] = custody[o[1]]
    BY <2>3, <1>1, <1>3 DEF Burn
  <2>5. QED
    BY <2>4 DEF Reserved
<1>4. ASSUME \A c \in Caller : ~Burn(c) /\ \A d \in Draft : ~Reserve(c, d)
      PROVE  Reserved(o)'
  <2>1. custody' = custody
    BY ZenonT(30), <1>4 DEF Next, Work, Awaited, Request, Environment, SignStart, CancelStart, SubmitStart,
                ObserveStart, CustodySigns, Fails, Post, BudgetRefused, Answered, NoAnswer,
         AnsweredVaguely, Observe,
                Create, SaveCancelled, ApproveSign, SaveSigned, ApproveSubmit, SaveAnswer,
                SaveObservation, Accept, Reject, Lose, Expire, ChangeRecord, Crash
  <2>2. QED
    BY <2>1 DEF Reserved
<1>5. QED
  BY <1>2, <1>3, <1>4

\* Signatures and POSTs are made by CustodySigns and Post only.
LEMMA EffectChange ==
    ASSUME Inductive, Next, history' # history
    PROVE  \E c \in Caller :
              /\ op[c] \in Operation
              /\ \/ /\ CustodySigns(c)
                    /\ pc[c] = "signing"
                    /\ signatures[op[c]] = 0
                    /\ signatures' = [signatures EXCEPT ![op[c]] = 1]
                    /\ UNCHANGED <<posts, venue>>
                 \/ /\ Post(c)
                    /\ pc[c] = "submitting"
                    /\ posts[op[c]] = 0
                    /\ posts' = [posts EXCEPT ![op[c]] = 1]
                    /\ UNCHANGED signatures
              /\ UNCHANGED <<ledger, external>>
<1> USE DEF disk, call, external, venue, world, history
<1>1. PICK c \in Caller : CustodySigns(c) \/ Post(c)
  BY ZenonT(30) DEF Next, Work, Awaited, Request, Environment, Reserve, SignStart, CancelStart, SubmitStart,
         ObserveStart, Burn, Fails, BudgetRefused, Answered, NoAnswer,
         AnsweredVaguely, Observe,
         Create, SaveCancelled, ApproveSign, SaveSigned, ApproveSubmit, SaveAnswer,
         SaveObservation, Accept, Reject, Lose, Expire, ChangeRecord, Crash
<1>2. op[c] \in Operation /\ CallInOrder(c, op[c])
  BY <1>1 DEF CustodySigns, Post, Inductive, TypeOK, CallsInOrder
<1>3. CASE CustodySigns(c)
  <2>1. signatures[op[c]] = 0
    BY <1>2, <1>3 DEF CustodySigns, CallInOrder
  <2>2. signatures[op[c]] + 1 = 1
    BY <2>1
  <2>3. signatures' = [signatures EXCEPT ![op[c]] = signatures[op[c]] + 1]
    BY <1>3 DEF CustodySigns
  <2>4. signatures' = [signatures EXCEPT ![op[c]] = 1]
    BY <2>2, <2>3
  <2>5. QED
    BY <2>1, <2>4, <1>2, <1>3 DEF CustodySigns
<1>4. CASE Post(c)
  <2>1. posts[op[c]] = 0
    BY <1>2, <1>4 DEF Post, CallInOrder
  <2>2. posts[op[c]] + 1 = 1
    BY <2>1
  <2>3. posts' = [posts EXCEPT ![op[c]] = posts[op[c]] + 1]
    BY <1>4 DEF Post
  <2>4. posts' = [posts EXCEPT ![op[c]] = 1]
    BY <2>2, <2>3
  <2>5. QED
    BY <2>1, <2>4, <1>2, <1>4 DEF Post
<1>5. QED
  BY <1>1, <1>3, <1>4

\* An effect is made once, after its budget was spent on disk.
LEMMA EffectsStep == ASSUME Inductive, Next PROVE EffectsInOrder'
<1> USE DEF disk, external, venue, history
<1>1. TypeOK /\ EffectsInOrder /\ LedgersInOrder /\ TypeOK'
  BY TypeStep DEF Inductive
<1> SUFFICES ASSUME NEW o \in Operation
             PROVE  /\ signatures'[o] <= 1 /\ posts'[o] <= 1
                    /\ signatures'[o] = 1 => ledger'[o].signBudget = "SPENT" /\ Reserved(o)'
                    /\ ledger'[o].signature => signatures'[o] = 1
                    /\ posts'[o] = 1 => ledger'[o].submitBudget = "SPENT"
                    /\ ledger'[o].postCalls = 1 => posts'[o] = 1
  BY DEF EffectsInOrder
<1>2. /\ signatures[o] <= 1 /\ posts[o] <= 1
      /\ signatures[o] = 1 => ledger[o].signBudget = "SPENT" /\ Reserved(o)
      /\ ledger[o].signature => signatures[o] = 1
      /\ posts[o] = 1 => ledger[o].submitBudget = "SPENT"
      /\ ledger[o].postCalls = 1 => posts[o] = 1
  BY <1>1 DEF EffectsInOrder
<1>3. CASE history' = history
  <2>1. signatures' = signatures /\ posts' = posts
    BY <1>3
  <2>2. signatures[o] = 1 => ledger'[o].signBudget = "SPENT" /\ Reserved(o)'
    BY <1>2, EvidenceGrows, SignedStaysReserved
  <2>3. posts[o] = 1 => ledger'[o].submitBudget = "SPENT"
    BY <1>2, EvidenceGrows
  <2>4. /\ ledger'[o].signature => signatures[o] = 1
        /\ ledger'[o].postCalls = 1 => posts[o] = 1
    BY <1>2, NewClaims
  <2>5. QED
    BY <2>1, <2>2, <2>3, <2>4, <1>2
<1>4. CASE history' # history
  <2>1. PICK c \in Caller :
              /\ op[c] \in Operation
              /\ \/ /\ CustodySigns(c)
                    /\ pc[c] = "signing"
                    /\ signatures' = [signatures EXCEPT ![op[c]] = 1]
                    /\ UNCHANGED posts
                 \/ /\ Post(c)
                    /\ pc[c] = "submitting"
                    /\ posts' = [posts EXCEPT ![op[c]] = 1]
                    /\ UNCHANGED signatures
              /\ UNCHANGED <<ledger, external>>
    BY <1>4, EffectChange
  <2>2. Reserved(o)' <=> Reserved(o)
    BY <2>1 DEF Reserved
  <2>3. CallInOrder(c, op[c])
    BY DEF Inductive, CallsInOrder
  <2>4. CASE CustodySigns(c) /\ pc[c] = "signing"
             /\ signatures' = [signatures EXCEPT ![op[c]] = 1] /\ UNCHANGED posts
    <3>1. Reserved(op[c]) /\ ledger[op[c]].signBudget = "SPENT"
      BY <2>1, <2>3, <2>4, <1>1 DEF CustodySigns, CallInOrder, LedgersInOrder
    <3>2. QED
      BY <3>1, <2>1, <2>2, <2>4, <1>1, <1>2 DEF TypeOK
  <2>5. CASE Post(c) /\ pc[c] = "submitting"
             /\ posts' = [posts EXCEPT ![op[c]] = 1] /\ UNCHANGED signatures
    <3>1. ledger[op[c]].submitBudget = "SPENT"
      BY <2>1, <2>3, <2>5, <1>1 DEF CallInOrder, LedgersInOrder
    <3>2. QED
      BY <3>1, <2>1, <2>2, <2>5, <1>1, <1>2 DEF TypeOK
  <2>6. QED
    BY <2>1, <2>4, <2>5
<1>5. QED
  BY <1>3, <1>4

\* A nonce was given out once; what a ledger calls cancelled is not reserved.
LEMMA ReservationsStep == ASSUME Inductive, Next PROVE ReservationsInOrder'
<1> USE DEF disk, call, external, venue, world, history
<1>1. /\ counter \in Nat
      /\ custody \in [Draft -> Reservation]
      /\ \A c \in Caller : pc[c] # "idle" => op[c] \in Operation
      /\ ledger \in [Operation -> Ledger]
      /\ \A o \in Operation : o[1] \in Draft
  BY OperationFacts DEF Inductive, TypeOK
<1>2. /\ \A d \in Draft : /\ custody[d].nonce <= counter
                          /\ custody[d].state = "RESERVED" => custody[d].nonce > 0
      /\ \A o \in Operation : ledger[o].state = "CANCELLED_NONCE_BURNED" => ~Reserved(o)
  BY DEF Inductive, ReservationsInOrder
<1>3. ASSUME NEW d \in Draft
      PROVE  /\ custody'[d].nonce <= counter'
             /\ custody'[d].state = "RESERVED" => custody'[d].nonce > 0
  <2>1. CASE external' = external
    BY <2>1, <1>2
  <2>2. ASSUME NEW c \in Caller, NEW e \in Draft, Reserve(c, e), ~(external' = external)
        PROVE  /\ custody'[d].nonce <= counter'
               /\ custody'[d].state = "RESERVED" => custody'[d].nonce > 0
    <3>1. /\ counter' = counter + 1
          /\ custody' = [custody EXCEPT ![e] = [nonce |-> counter', state |-> "RESERVED"]]
      BY <2>2 DEF Reserve
    <3>2. custody[d].nonce \in Nat
      BY <1>1 DEF Reservation
    <3>3. CASE d = e
      BY <3>1, <3>3, <1>1
    <3>4. CASE d # e
      BY <3>1, <3>2, <3>4, <1>1, <1>2
    <3>5. QED
      BY <3>3, <3>4
  <2>3. ASSUME NEW c \in Caller, Burn(c)
        PROVE  /\ custody'[d].nonce <= counter'
               /\ custody'[d].state = "RESERVED" => custody'[d].nonce > 0
    <3>1. /\ op[c][1] \in Draft
          /\ custody' = [custody EXCEPT ![op[c][1]] = [custody[op[c][1]] EXCEPT !.state = "BURNED"]]
          /\ counter' = counter
      BY <2>3, <1>1 DEF Burn
    <3>2. custody[d] \in Reservation
      BY <1>1
    <3>3. CASE d = op[c][1]
      <4>1. custody'[d] = [custody[d] EXCEPT !.state = "BURNED"]
        BY <3>1, <3>3, <1>1
      <4>2. QED
        BY <4>1, <3>1, <3>2, <1>2 DEF Reservation
    <3>4. CASE d # op[c][1]
      BY <3>1, <3>4, <1>1, <1>2
    <3>5. QED
      BY <3>3, <3>4
  <2>4. ASSUME \A c \in Caller : ~Burn(c) /\ \A e \in Draft : ~Reserve(c, e)
        PROVE  external' = external
    BY ZenonT(30), <2>4 DEF Next, Work, Awaited, Request, Environment, SignStart, CancelStart, SubmitStart,
                ObserveStart, CustodySigns, Fails, Post, BudgetRefused, Answered, NoAnswer,
         AnsweredVaguely, Observe,
                Create, SaveCancelled, ApproveSign, SaveSigned, ApproveSubmit, SaveAnswer,
                SaveObservation, Accept, Reject, Lose, Expire, ChangeRecord, Crash
  <2>5. QED
    BY <2>1, <2>2, <2>3, <2>4
<1>4. ASSUME NEW o \in Operation, ledger'[o].state = "CANCELLED_NONCE_BURNED"
      PROVE  ~Reserved(o)'
  <2>1. ~Reserved(o)
    BY <1>2, <1>4, NewClaims
  <2>2. CASE ledger'[o] = ledger[o]
    <3>1. o[2] <= counter
      BY <2>2, <1>4 DEF Inductive, LedgersInOrder
    <3>2. QED
      BY <3>1, <2>1, CustodyChange
  <2>3. CASE ledger'[o] # ledger[o]
    <3>1. external' = external
      BY <2>3, LedgerChange
    <3>2. QED
      BY <3>1, <2>1 DEF Reserved
  <2>4. QED
    BY <2>2, <2>3
<1>5. QED
  BY <1>3, <1>4 DEF ReservationsInOrder

\* The venue changes by a POST that is sent or arrives, and by nothing else.
LEMMA VenueChange ==
    ASSUME Inductive, Next
    PROVE  \/ UNCHANGED <<venue, posts>>
           \/ \E c \in Caller : Post(c)
           \/ \E p \in Operation : Accept(p) \/ Reject(p) \/ Lose(p)
<1> USE DEF disk, call, external, venue, world, history
<1>1. ASSUME NEW c \in Caller, Work(c) \/ Awaited(c) \/ Request(c), ~Post(c)
      PROVE  UNCHANGED <<venue, posts>>
  BY <1>1 DEF Work, Awaited, Request, Reserve, SignStart, CancelStart, SubmitStart,
         ObserveStart, Burn, CustodySigns, Fails, BudgetRefused, Answered, NoAnswer,
         AnsweredVaguely, Observe,
         Create, SaveCancelled, ApproveSign, SaveSigned, ApproveSubmit, SaveAnswer, SaveObservation
<1>2. ASSUME Environment, ~\E p \in Operation : Accept(p) \/ Reject(p) \/ Lose(p)
      PROVE  UNCHANGED <<venue, posts>>
  BY <1>2 DEF Environment, Expire, ChangeRecord, Crash
<1>3. QED
  BY <1>1, <1>2 DEF Next

\* That an answer was vague is never taken back.
LEMMA VagueStays == ASSUME Next PROVE vague \subseteq vague'
<1> USE DEF disk, call, external, venue, world, history
<1>1. ASSUME NEW c \in Caller, Work(c) PROVE vague \subseteq vague'
  BY <1>1 DEF Work, Create, SaveCancelled, SaveSigned, Post, BudgetRefused, Answered,
         AnsweredVaguely, NoAnswer, SaveAnswer, Observe, SaveObservation
<1>2. ASSUME NEW c \in Caller, Awaited(c) \/ Request(c) PROVE vague' = vague
  BY <1>2 DEF Awaited, Burn, ApproveSign, CustodySigns, ApproveSubmit, Fails, Request, Reserve,
         SignStart, CancelStart, SubmitStart, ObserveStart
<1>3. ASSUME Environment PROVE vague' = vague
  BY <1>3 DEF Environment, Accept, Reject, Lose, Expire, ChangeRecord, Crash
<1>4. QED
  BY <1>1, <1>2, <1>3 DEF Next

\* What the venue holds and answers was posted, and stays.
LEMMA VenueStep == ASSUME Inductive, Next PROVE VenueInOrder'
<1> USE DEF disk, external, venue, history
<1> SUFFICES ASSUME NEW o \in Operation
             PROVE  /\ o \in wire' => posts'[o] = 1 /\ reply'[o] = "NONE"
                    /\ o \in public' <=> reply'[o] = "OK"
                    /\ reply'[o] # "NONE" => posts'[o] = 1
                    /\ ledger'[o].state = "REJECTED" => reply'[o] = "CLIENT_ERROR" \/ o \in vague'
                    /\ ledger'[o].state \in {"ACK_RECEIVED", "COMPLETE"} => reply'[o] = "OK"
                    /\ ledger'[o].state = "COMPLETE" => ledger'[o].observed
                    /\ ledger'[o].observed => reply'[o] = "OK"
  BY DEF VenueInOrder
<1>1. /\ ledger \in [Operation -> Ledger] /\ reply \in [Operation -> {"NONE", "OK", "CLIENT_ERROR"}]
      /\ posts \in [Operation -> Nat]
  BY DEF Inductive, TypeOK
<1>2. /\ o \in wire => posts[o] = 1 /\ reply[o] = "NONE"
      /\ o \in public <=> reply[o] = "OK"
      /\ reply[o] # "NONE" => posts[o] = 1
      /\ ledger[o].state = "REJECTED" => reply[o] = "CLIENT_ERROR" \/ o \in vague
      /\ ledger[o].state \in {"ACK_RECEIVED", "COMPLETE"} => reply[o] = "OK"
      /\ ledger[o].state = "COMPLETE" => ledger[o].observed
      /\ ledger[o].observed => reply[o] = "OK"
  BY DEF Inductive, VenueInOrder
<1>3. CASE ledger'[o] # ledger[o]
  <2>1. UNCHANGED <<venue, history>>
    BY <1>3, LedgerChange
  <2>2. QED
    BY <2>1, <1>2, <1>3, NewClaims, VagueStays
<1>4. CASE ledger'[o] = ledger[o]
  <2>1. CASE UNCHANGED <<venue, posts>>
    BY <2>1, <1>2, <1>4, VagueStays
  <2>2. ASSUME NEW c \in Caller, Post(c)
        PROVE  /\ o \in wire' => posts'[o] = 1 /\ reply'[o] = "NONE"
               /\ reply' = reply /\ public' = public
               /\ posts[o] = 1 => posts'[o] = 1
    <3>1. op[c] \in Operation /\ posts[op[c]] = 0
      BY <2>2 DEF Post, Inductive, TypeOK, CallsInOrder, CallInOrder
    <3>2. posts' = [posts EXCEPT ![op[c]] = posts[op[c]] + 1]
      BY <2>2 DEF Post
    <3>3. /\ wire' = wire \cup {op[c]}
          /\ reply' = reply /\ public' = public
      BY <2>2 DEF Post
    <3>4. posts'[op[c]] = 1
      BY <3>1, <3>2, <1>1
    <3>5. o # op[c] => posts'[o] = posts[o]
      BY <3>1, <3>2, <1>1
    <3>6. QED
      BY <3>1, <3>3, <3>4, <3>5, <1>2
  <2>3. ASSUME NEW p \in Operation, Accept(p) \/ Reject(p) \/ Lose(p)
        PROVE  /\ o \in wire' => posts'[o] = 1 /\ reply'[o] = "NONE"
               /\ o \in public' <=> reply'[o] = "OK"
               /\ reply'[o] # "NONE" => posts'[o] = 1
               /\ reply[o] # "NONE" => reply'[o] = reply[o]
    <3>1. p \in wire => reply[p] = "NONE" /\ posts[p] = 1 /\ p \notin public
      BY DEF Inductive, VenueInOrder
    <3>2. QED
      BY <3>1, <2>3, <1>1, <1>2 DEF Accept, Reject, Lose
  <2>4. QED
    BY <2>1, <2>2, <2>3, <1>2, <1>4, VenueChange, VagueStays
<1>5. QED
  BY <1>3, <1>4

\* An answer of the venue is never replaced.
LEMMA ReplyStays ==
    ASSUME Inductive, Next, NEW o \in Operation, reply[o] # "NONE"
    PROVE  reply'[o] = reply[o]
<1>1. reply \in [Operation -> {"NONE", "OK", "CLIENT_ERROR"}]
  BY DEF Inductive, TypeOK
<1>2. ASSUME NEW p \in Operation, Accept(p) \/ Reject(p) \/ Lose(p)
      PROVE  reply'[o] = reply[o]
  <2>1. p \in wire => reply[p] = "NONE"
    BY DEF Inductive, VenueInOrder
  <2>2. QED
    BY <2>1, <1>1, <1>2 DEF Accept, Reject, Lose
<1>3. QED
  BY <1>2, VenueChange DEF Post, venue

\* A call that does not move is not disturbed by the step of another one.
LEMMA SameCall ==
    ASSUME Inductive, Next, NEW b \in Caller,
           pc'[b] = pc[b], op'[b] = op[b], result'[b] = result[b]
    PROVE  CallInOrder(b, op[b])'
<1>0. PICK o : o = op[b]
  OBVIOUS
<1> USE DEF disk, external, venue, history
<1>1. CASE pc[b] = "idle"
  BY <1>1 DEF CallInOrder
<1>2. CASE pc[b] # "idle"
  <2>1. o \in Operation /\ CallInOrder(b, o) /\ o[2] \in Nat
    BY <1>0, <1>2, OperationFacts DEF Inductive, TypeOK, CallsInOrder, Nonce
  <2>2. counter <= counter' /\ counter \in Nat /\ counter' \in Nat
    BY CustodyChange, TypeStep, BoundsAssumption DEF Inductive, TypeOK
  <2>3. ledger[o].state \in Sent => ledger'[o].state \in Sent
    BY <2>1, EvidenceGrows, LedgersStep DEF Inductive, LedgersInOrder
  <2>4. ASSUME pc[b] \in Working, ledger'[o] # ledger[o]
        PROVE  ledger[o].state \in Sent /\ ledger'[o].postCalls = ledger[o].postCalls
    <3>1. PICK c \in Caller :
             /\ op[c] \in Operation
             /\ ledger' = [ledger EXCEPT ![op[c]] = ledger'[op[c]]]
             /\ Create(c) \/ SaveCancelled(c) \/ ApproveSign(c) \/ SaveSigned(c)
                \/ ApproveSubmit(c) \/ SaveAnswer(c) \/ SaveObservation(c)
      BY <2>4, LedgerChange
    <3>2. op[c] = o /\ ledger \in [Operation -> Ledger] /\ pc \in [Caller -> Step]
      BY <3>1, <2>1, <2>4 DEF Inductive, TypeOK
    <3>3. c # b
      BY <3>1, <3>2 DEF Create, SaveCancelled, ApproveSign, SaveSigned, ApproveSubmit, SaveAnswer,
                        SaveObservation, Proceeds, Ends, Goes
    <3>4. pc[c] \notin Working
      BY <1>0, <3>2, <3>3, <2>4 DEF Inductive, OneWorker
    <3>5. Create(c) \/ SaveObservation(c)
      BY <3>1, <3>4 DEF SaveCancelled, ApproveSign, SaveSigned, ApproveSubmit, SaveAnswer,
                        Working, Holding
    <3>6. ledger[o].state # "NONE"
      BY <2>1, <2>4 DEF CallInOrder, Working, Holding, Sent
    <3>7. SaveObservation(c)
      BY <3>1, <3>2, <3>5, <3>6, <2>4, LedgerValue
    <3>8. ledger[o].state \in Sent
      BY <3>2, <3>7 DEF SaveObservation, Inductive, CallsInOrder, CallInOrder
    <3>9. ledger'[o] = [ledger[o] EXCEPT !.state = "COMPLETE", !.observed = TRUE]
      BY <3>1, <3>2, <3>7, <2>4, LedgerValue
    <3>10. ledger[o] \in Ledger
      BY <3>2, <2>1
    <3>11. QED
      BY <3>8, <3>9, <3>10 DEF Ledger
  <2>5. ASSUME pc[b] \in Working PROVE signatures'[o] = signatures[o] /\ posts'[o] = posts[o]
    <3>1. CASE history' = history
      BY <3>1
    <3>2. CASE history' # history
      <4>1. PICK c \in Caller :
              /\ op[c] \in Operation
              /\ \/ /\ CustodySigns(c)
                    /\ pc[c] = "signing"
                    /\ signatures' = [signatures EXCEPT ![op[c]] = 1]
                    /\ UNCHANGED posts
                 \/ /\ Post(c)
                    /\ pc[c] = "submitting"
                    /\ posts' = [posts EXCEPT ![op[c]] = 1]
                    /\ UNCHANGED signatures
        BY <3>2, EffectChange
      <4>2. c # b
        BY <4>1 DEF CustodySigns, Post, Proceeds, Goes, Inductive, TypeOK
      <4>3. op[c] # o
        BY <1>0, <4>1, <4>2, <2>5 DEF Inductive, OneWorker, Working
      <4>4. QED
        BY <4>1, <4>3, <2>1 DEF Inductive, TypeOK
    <3>3. QED
      BY <3>1, <3>2
  <2>6. reply[o] # "NONE" => reply'[o] = reply[o]
    BY <2>1, ReplyStays
  <2>7. ledger[o].state = "APPROVAL_PENDING" /\ ~Reserved(o) => ~Reserved(o)'
    BY <2>1, CustodyChange DEF Inductive, LedgersInOrder
  <2>8. pc[b] \in Working => \/ ledger'[o] = ledger[o]
                            \/ /\ ledger[o].state \in Sent
                               /\ ledger'[o].state \in Sent
                               /\ ledger'[o].postCalls = ledger[o].postCalls
    BY <2>3, <2>4
  <2>9. pc[b] \in Step
    BY DEF Inductive, TypeOK
  <2>10. /\ pc'[b] = pc[b] /\ result'[b] = result[b]
    OBVIOUS
  <2>11. CallInOrder(b, o)'
    <3>1. pc[b] = "reserved" => o[2] <= counter'
      BY <2>1, <2>2 DEF CallInOrder
    <3>2. CASE pc[b] \in {"approving", "cancelling", "cancelled", "signing", "signed", "confirming"}
      <4>1. pc[b] \in Working /\ ledger[o].state \notin Sent
        BY <3>2, <2>1 DEF CallInOrder, Working, Holding, Sent
      <4>2. ledger'[o] = ledger[o]
        BY <4>1, <2>8
      <4>3. QED
        BY <4>1, <4>2, <3>2, <2>1, <2>5, <2>7, <2>10 DEF CallInOrder
    <3>3. CASE pc[b] \in {"submitting", "posting", "answered"}
      <4>1. pc[b] \in Working
        BY <3>3 DEF Working
      <4>2. ledger'[o].state \in Sent /\ ledger'[o].postCalls = ledger[o].postCalls
        BY <4>1, <3>3, <2>1, <2>8 DEF CallInOrder
      <4>3. QED
        BY <4>1, <4>2, <3>3, <2>1, <2>5, <2>6, <2>10, VagueStays DEF CallInOrder
    <3>4. CASE pc[b] \in {"observing", "observed"}
      BY <3>4, <2>1, <2>3, <2>6, <2>10 DEF CallInOrder
    <3>5. CASE pc[b] \in {"idle", "reserved"}
      BY <3>1, <3>5, <2>10 DEF CallInOrder
    <3>6. QED
      BY <3>2, <3>3, <3>4, <3>5, <2>9 DEF Step
  <2>12. QED
    BY <2>11, <1>0
<1>3. QED
  BY <1>1, <1>2

\* A call that moves knows what its next step rests on.
LEMMA MovedCall ==
    ASSUME Inductive, Next, NEW b \in Caller,
           ~(pc'[b] = pc[b] /\ op'[b] = op[b] /\ result'[b] = result[b])
    PROVE  CallInOrder(b, op[b])'
<1> USE DEF disk, call, external, venue, world, history
<1>1. /\ pc \in [Caller -> Step] /\ op \in [Caller -> Operation \cup {NoOperation}]
      /\ result \in [Caller -> Answer \cup Sighting \cup {"NONE"}]
      /\ ledger \in [Operation -> Ledger]
      /\ signatures \in [Operation -> Nat] /\ posts \in [Operation -> Nat]
      /\ reply \in [Operation -> {"NONE", "OK", "CLIENT_ERROR"}]
      /\ pc[b] # "idle" => op[b] \in Operation
  BY DEF Inductive, TypeOK
<1>2. CallInOrder(b, op[b]) /\ LedgersInOrder /\ EffectsInOrder /\ VenueInOrder
  BY DEF Inductive, CallsInOrder
<1>3. CASE pc'[b] = "idle"
  BY <1>3 DEF CallInOrder
<1>4. ASSUME NEW c \in Caller, Work(c) \/ Awaited(c) \/ Request(c) PROVE c = b
  BY <1>1, <1>4 DEF Work, Awaited, Request, Reserve, SignStart, CancelStart, SubmitStart,
         ObserveStart, Burn, CustodySigns, Fails, Post, BudgetRefused, Answered, NoAnswer,
         AnsweredVaguely, Observe,
         Create, SaveCancelled, ApproveSign, SaveSigned, ApproveSubmit, SaveAnswer,
         SaveObservation, Goes, Proceeds, Ends
<1>5. ASSUME Environment PROVE pc'[b] = "idle"
  BY <1>5 DEF Environment, Accept, Reject, Lose, Expire, ChangeRecord, Crash
<1>6. ASSUME NEW d \in Draft, Reserve(b, d) PROVE CallInOrder(b, op[b])'
  <2>1. pc'[b] = "reserved" /\ op'[b] = <<d, custody'[d].nonce>>
    BY <1>1, <1>6 DEF Reserve, Goes
  <2>2. custody'[d].nonce <= counter'
    BY ReservationsStep DEF ReservationsInOrder
  <2>3. QED
    BY <2>1, <2>2 DEF CallInOrder
<1>7. ASSUME NEW o \in Operation, SignStart(b, o) \/ CancelStart(b, o)
      PROVE  CallInOrder(b, op[b])'
  <2>1. /\ pc'[b] \in {"approving", "cancelling"} /\ op'[b] = o
        /\ ledger' = ledger /\ ledger[o].state = "APPROVAL_PENDING"
    BY <1>1, <1>7 DEF SignStart, CancelStart, Goes, Pending
  <2>2. QED
    BY <2>1 DEF CallInOrder
<1>8. ASSUME NEW o \in Operation, SubmitStart(b, o) PROVE CallInOrder(b, op[b])'
  <2>1. /\ pc'[b] = "confirming" /\ op'[b] = o
        /\ ledger' = ledger /\ ledger[o].state = "SIGNED"
    BY <1>1, <1>8 DEF SubmitStart, Goes
  <2>2. QED
    BY <2>1 DEF CallInOrder
<1>9. ASSUME NEW o \in Operation, ObserveStart(b, o) PROVE CallInOrder(b, op[b])'
  <2>1. /\ pc'[b] = "observing" /\ op'[b] = o
        /\ ledger' = ledger /\ ledger[o].state \in Sent
    BY <1>1, <1>2, <1>9 DEF ObserveStart, Goes, LedgersInOrder
  <2>2. QED
    BY <2>1 DEF CallInOrder
<1>10. CASE Burn(b)
  <2>1. op[b] \in Operation /\ op[b][1] \in Draft /\ custody \in [Draft -> Reservation]
    BY <1>1, <1>10, OperationFacts DEF Burn, Inductive, TypeOK
  <2>2. /\ pc'[b] = "cancelled" /\ op'[b] = op[b]
        /\ ledger' = ledger /\ ledger[op[b]].state = "APPROVAL_PENDING"
    BY <1>1, <1>2, <1>10 DEF Burn, Proceeds, Goes, CallInOrder
  <2>3. custody'[op[b][1]].state = "BURNED"
    <3>1. custody' = [custody EXCEPT ![op[b][1]] = [custody[op[b][1]] EXCEPT !.state = "BURNED"]]
      BY <1>10 DEF Burn
    <3>2. QED
      BY <3>1, <2>1 DEF Reservation
  <2>4. QED
    BY <2>2, <2>3 DEF CallInOrder, Reserved
<1>11. CASE ApproveSign(b)
  <2>1. /\ pc'[b] = "signing" /\ op'[b] = op[b] /\ op[b] \in Operation
        /\ signatures' = signatures
        /\ ledger[op[b]].state = "APPROVAL_PENDING"
    BY <1>1, <1>2, <1>11 DEF ApproveSign, Proceeds, Goes, CallInOrder
  <2>2. ledger' = [ledger EXCEPT ![op[b]] = [ledger[op[b]] EXCEPT !.signBudget = "SPENT",
                                               !.state = "SIGNING_OUTCOME_UNCERTAIN"]]
    BY <1>11 DEF ApproveSign, Saves
  <2>3. ledger'[op[b]].state = "SIGNING_OUTCOME_UNCERTAIN"
    BY <2>1, <2>2, <1>1 DEF Ledger
  <2>4. signatures[op[b]] = 0
    <3>1. ledger[op[b]].signBudget # "SPENT"
      BY <2>1, <1>2 DEF LedgersInOrder
    <3>2. signatures[op[b]] \in Nat /\ signatures[op[b]] <= 1 /\ signatures[op[b]] # 1
      BY <2>1, <3>1, <1>1, <1>2 DEF EffectsInOrder
    <3>3. QED
      BY <3>2
  <2>5. QED
    BY <2>1, <2>3, <2>4 DEF CallInOrder
<1>12. CASE CustodySigns(b)
  <2>1. /\ pc'[b] = "signed" /\ op'[b] = op[b] /\ op[b] \in Operation
        /\ ledger' = ledger /\ ledger[op[b]].state = "SIGNING_OUTCOME_UNCERTAIN"
        /\ signatures[op[b]] = 0
        /\ signatures' = [signatures EXCEPT ![op[b]] = signatures[op[b]] + 1]
    BY <1>1, <1>2, <1>12 DEF CustodySigns, Proceeds, Goes, CallInOrder
  <2>2. signatures'[op[b]] = 1
    BY <2>1, <1>1
  <2>3. QED
    BY <2>1, <2>2 DEF CallInOrder
<1>13. CASE ApproveSubmit(b)
  <2>1. /\ pc'[b] = "submitting" /\ op'[b] = op[b] /\ op[b] \in Operation
        /\ posts' = posts
        /\ ledger[op[b]].state = "SIGNED"
    BY <1>1, <1>2, <1>13 DEF ApproveSubmit, Proceeds, Goes, CallInOrder
  <2>2. ledger' = [ledger EXCEPT ![op[b]] = [ledger[op[b]] EXCEPT !.submitBudget = "SPENT",
                                               !.state = "SUBMISSION_UNCERTAIN"]]
    BY <1>13 DEF ApproveSubmit, Saves
  <2>3. ledger'[op[b]].state = "SUBMISSION_UNCERTAIN"
    BY <2>1, <2>2, <1>1 DEF Ledger
  <2>4. posts[op[b]] = 0
    <3>1. ledger[op[b]].submitBudget # "SPENT"
      BY <2>1, <1>2 DEF LedgersInOrder, Sent
    <3>2. posts[op[b]] \in Nat /\ posts[op[b]] <= 1 /\ posts[op[b]] # 1
      BY <2>1, <3>1, <1>1, <1>2 DEF EffectsInOrder
    <3>3. QED
      BY <3>2
  <2>5. QED
    BY <2>1, <2>3, <2>4 DEF CallInOrder, Sent
<1>14. ASSUME Post(b) \/ BudgetRefused(b)
       PROVE  /\ op[b] \in Operation /\ op'[b] = op[b]
              /\ ledger' = ledger /\ ledger[op[b]].state \in Sent
              /\ ledger[op[b]].postCalls = 0 /\ posts[op[b]] = 0
  <2>1. /\ op[b] \in Operation /\ op'[b] = op[b]
        /\ ledger' = ledger /\ ledger[op[b]].state \in Sent
        /\ posts[op[b]] = 0
    BY <1>1, <1>2, <1>14 DEF Post, BudgetRefused, Proceeds, Goes, CallInOrder
  <2>2. ledger[op[b]].postCalls \in 0 .. 1
    BY <2>1, <1>1 DEF Ledger
  <2>3. ledger[op[b]].postCalls # 1
    BY <2>1, <1>2 DEF EffectsInOrder
  <2>4. QED
    BY <2>1, <2>2, <2>3
<1>15. CASE Post(b)
  <2>1. pc'[b] = "posting" /\ posts' = [posts EXCEPT ![op[b]] = posts[op[b]] + 1]
    BY <1>1, <1>15 DEF Post, Proceeds, Goes
  <2>2. posts'[op[b]] = 1
    BY <2>1, <1>1, <1>14, <1>15
  <2>3. QED
    BY <2>1, <2>2, <1>14, <1>15 DEF CallInOrder
<1>16. CASE BudgetRefused(b)
  <2>1. pc'[b] = "answered" /\ result'[b] = "BUDGET_REFUSED" /\ posts' = posts
    BY <1>1, <1>16 DEF BudgetRefused, Goes
  <2>2. QED
    BY <2>1, <1>14, <1>16 DEF CallInOrder, Answer
<1>17. CASE Answered(b) \/ AnsweredVaguely(b) \/ NoAnswer(b)
  <2>1. /\ op[b] \in Operation /\ op'[b] = op[b]
        /\ ledger' = ledger /\ ledger[op[b]].state \in Sent
        /\ ledger[op[b]].postCalls = 0 /\ posts' = posts /\ posts[op[b]] = 1
        /\ reply' = reply /\ pc'[b] = "answered"
    BY <1>1, <1>2, <1>17 DEF Answered, AnsweredVaguely, NoAnswer, Goes, CallInOrder
  <2>2. /\ result'[b] \in {"ACK_RECEIVED", "REJECTED", "SUBMISSION_UNCERTAIN"}
        /\ result'[b] = "ACK_RECEIVED" => reply[op[b]] = "OK"
        /\ result'[b] = "REJECTED" => reply[op[b]] = "CLIENT_ERROR" \/ op[b] \in vague'
    BY <2>1, <1>1, <1>17 DEF Answered, AnsweredVaguely, NoAnswer, Goes
  <2>3. QED
    BY <2>1, <2>2 DEF CallInOrder, Answer
<1>18. CASE Observe(b)
  <2>1. /\ op[b] \in Operation /\ op'[b] = op[b]
        /\ ledger' = ledger /\ ledger[op[b]].state \in Sent
        /\ reply' = reply /\ pc'[b] = "observed"
        /\ result'[b] = "OBSERVED_PUBLIC" => op[b] \in public
    BY <1>1, <1>2, <1>18 DEF Observe, Goes, CallInOrder
  <2>2. op[b] \in public => reply[op[b]] = "OK"
    BY <2>1, <1>2 DEF VenueInOrder
  <2>3. QED
    BY <2>1, <2>2 DEF CallInOrder
<1>19. ASSUME Create(b) \/ SaveCancelled(b) \/ SaveSigned(b) \/ SaveAnswer(b)
              \/ SaveObservation(b) \/ Fails(b)
       PROVE  pc'[b] = "idle"
  BY <1>1, <1>19 DEF Create, SaveCancelled, SaveSigned, SaveAnswer, SaveObservation, Fails, Ends,
                     Goes
<1>20. QED
  BY <1>3, <1>4, <1>5, <1>6, <1>7, <1>8, <1>9, <1>10, <1>11, <1>12, <1>13, <1>15, <1>16, <1>17,
     <1>18, <1>19 DEF Next, Work, Awaited, Request

\* After every step every call still knows what its next step rests on.
LEMMA CallsStep == ASSUME Inductive, Next PROVE CallsInOrder'
  BY SameCall, MovedCall DEF CallsInOrder

\* Two calls never come to work on one operation: the lock keeps out the call that
\* would start, and the state of the ledger does when the lock is free.
LEMMA WorkerStep == ASSUME Inductive, Next PROVE OneWorker'
<1> USE DEF disk, call, external, venue, world, history
<1>1. /\ pc \in [Caller -> Step] /\ op \in [Caller -> Operation \cup {NoOperation}]
      /\ \A c \in Caller : pc[c] # "idle" => op[c] \in Operation
      /\ OneWorker /\ CallsInOrder
  BY DEF Inductive, TypeOK
<1>2. ASSUME NEW c \in Caller, NEW o \in Operation,
             SignStart(c, o) \/ CancelStart(c, o) \/ SubmitStart(c, o),
             NEW b \in Caller, pc[b] \in Working
      PROVE  op[b] # o
  <2>1. Unlocked(o) /\ ledger[o].state \in {"APPROVAL_PENDING", "SIGNED"}
    BY <1>2 DEF SignStart, CancelStart, SubmitStart, Pending
  <2>2. CASE pc[b] \in Holding
    BY <2>1, <2>2 DEF Unlocked
  <2>3. CASE pc[b] \in {"signing", "signed", "submitting", "posting", "answered"}
    BY <2>1, <2>3, <1>1 DEF CallsInOrder, CallInOrder, Sent
  <2>4. QED
    BY <2>2, <2>3, <1>2 DEF Working
<1>3. ASSUME NEW c \in Caller, Work(c) \/ Awaited(c) \/ Request(c)
      PROVE  /\ \A b \in Caller : b # c => pc'[b] = pc[b] /\ op'[b] = op[b]
             /\ \/ pc'[c] \notin Working
                \/ pc[c] \in Working /\ op'[c] = op[c]
                \/ \E o \in Operation : /\ SignStart(c, o) \/ CancelStart(c, o) \/ SubmitStart(c, o)
                                       /\ op'[c] = o
  <2>1. CASE Request(c)
    <3>1. ASSUME NEW d \in Draft, Reserve(c, d)
          PROVE  /\ \A b \in Caller : b # c => pc'[b] = pc[b] /\ op'[b] = op[b]
                 /\ pc'[c] \notin Working
      BY <3>1, <1>1 DEF Reserve, Goes, Working, Holding
    <3>2. ASSUME NEW o \in Operation, ObserveStart(c, o)
          PROVE  /\ \A b \in Caller : b # c => pc'[b] = pc[b] /\ op'[b] = op[b]
                 /\ pc'[c] \notin Working
      BY <3>2, <1>1 DEF ObserveStart, Goes, Working, Holding
    <3>3. ASSUME NEW o \in Operation, SignStart(c, o) \/ CancelStart(c, o) \/ SubmitStart(c, o)
          PROVE  /\ \A b \in Caller : b # c => pc'[b] = pc[b] /\ op'[b] = op[b]
                 /\ op'[c] = o
      BY <3>3, <1>1 DEF SignStart, CancelStart, SubmitStart, Goes
    <3>4. QED
      BY <3>1, <3>2, <3>3, <2>1 DEF Request
  <2>2. CASE Work(c) \/ Awaited(c)
    BY <2>2, <1>1 DEF Work, Awaited, Burn, CustodySigns, Fails, Post, BudgetRefused, Answered,
         NoAnswer, AnsweredVaguely, Observe, Create, SaveCancelled, ApproveSign, SaveSigned, ApproveSubmit,
         SaveAnswer, SaveObservation, Goes, Proceeds, Ends, Working, Holding
  <2>3. QED
    BY <2>1, <2>2, <1>3
<1>4. ASSUME NEW c \in Caller, Work(c) \/ Awaited(c) \/ Request(c) PROVE OneWorker'
  <2>1. ASSUME NEW b \in Caller, b # c, pc'[b] \in Working, pc'[c] \in Working
        PROVE  op'[b] # op'[c]
    <3>1. pc[b] \in Working /\ op'[b] = op[b]
      BY <2>1, <1>3, <1>4
    <3>2. CASE pc[c] \in Working /\ op'[c] = op[c]
      BY <2>1, <3>1, <3>2, <1>1 DEF OneWorker
    <3>3. ASSUME NEW o \in Operation, SignStart(c, o) \/ CancelStart(c, o) \/ SubmitStart(c, o),
                 op'[c] = o
          PROVE  op'[b] # op'[c]
      BY <3>1, <3>3, <1>2
    <3>4. QED
      BY <2>1, <3>2, <3>3, <1>3, <1>4
  <2>2. ASSUME NEW a \in Caller, NEW b \in Caller, a # c, b # c,
               pc'[a] \in Working, pc'[b] \in Working, op'[a] = op'[b]
        PROVE  a = b
    BY <2>2, <1>1, <1>3, <1>4 DEF OneWorker
  <2>3. QED
    BY <2>1, <2>2 DEF OneWorker
<1>5. ASSUME Environment PROVE OneWorker'
  <2>1. CASE Crash
    BY <2>1 DEF Crash, OneWorker, Working, Holding
  <2>2. CASE UNCHANGED call
    BY <2>2, <1>1 DEF OneWorker
  <2>3. QED
    BY <2>1, <2>2, <1>5 DEF Environment, Accept, Reject, Lose, Expire, ChangeRecord
<1>6. QED
  BY <1>4, <1>5 DEF Next

-----------------------------------------------------------------------------
(***************************************************************************)
(* The results.                                                            *)
(***************************************************************************)
\* The inductive invariant: what the ledgers, the effects, the venue, the
\* reservations and the calls say of each other.
THEOREM InductiveInvariant == Spec => []Inductive
<1>1. ASSUME Init PROVE Inductive
  <2> USE OperationFacts, BoundsAssumption, <1>1
  <2>1. TypeOK
    BY DEF Init, TypeOK, NewLedger, Ledger, LedgerState, Budget, Reservation, Step, Answer, Sighting
  <2>2. LedgersInOrder /\ EffectsInOrder /\ VenueInOrder
    BY DEF Init, LedgersInOrder, EffectsInOrder, VenueInOrder, NewLedger, Sent
  <2>3. ReservationsInOrder
    BY DEF Init, ReservationsInOrder, NewLedger
  <2>4. CallsInOrder /\ OneWorker
    BY DEF Init, CallsInOrder, CallInOrder, OneWorker, Working, Holding
  <2>5. QED
    BY <2>1, <2>2, <2>3, <2>4 DEF Inductive
<1>2. ASSUME Inductive, Next PROVE Inductive'
  BY <1>2, TypeStep, LedgersStep, EffectsStep, VenueStep, ReservationsStep, CallsStep, WorkerStep
     DEF Inductive
<1>3. ASSUME Inductive, UNCHANGED vars PROVE Inductive'
  BY <1>3 DEF vars, disk, call, external, venue, world, history, Inductive, TypeOK, LedgersInOrder,
              EffectsInOrder, VenueInOrder, ReservationsInOrder, CallsInOrder, CallInOrder,
              OneWorker, Reserved
<1>4. QED
  BY <1>1, <1>2, <1>3, PTL DEF Spec

\* A signature and a POST are preceded by the durable spending of their budget.
THEOREM BudgetsSpentFirst == Spec => []SpentBeforeEffect
<1>1. ASSUME Inductive PROVE SpentBeforeEffect
  <2> SUFFICES ASSUME NEW o \in Operation
               PROVE  /\ signatures[o] > 0 =>
                           /\ ledger[o].signBudget = "SPENT"
                           /\ ledger[o].state \in {"SIGNING_OUTCOME_UNCERTAIN", "SIGNED"} \cup Sent
                      /\ posts[o] > 0 => /\ ledger[o].submitBudget = "SPENT"
                                         /\ ledger[o].state \in Sent
    BY DEF SpentBeforeEffect
  <2>1. /\ signatures[o] \in Nat /\ posts[o] \in Nat /\ ledger[o] \in Ledger
    BY <1>1 DEF Inductive, TypeOK
  <2>2. signatures[o] <= 1 /\ posts[o] <= 1
    BY <1>1 DEF Inductive, EffectsInOrder
  <2>3. signatures[o] > 0 => ledger[o].signBudget = "SPENT"
    BY <1>1, <2>1, <2>2 DEF Inductive, EffectsInOrder
  <2>4. posts[o] > 0 => ledger[o].submitBudget = "SPENT"
    BY <1>1, <2>1, <2>2 DEF Inductive, EffectsInOrder
  <2>5. ledger[o].state \in LedgerState
    BY <2>1 DEF Ledger
  <2>6. QED
    BY <1>1, <2>3, <2>4, <2>5 DEF Inductive, LedgersInOrder, LedgerState, Sent
<1>2. QED
  BY <1>1, InductiveInvariant, PTL

\* What the ledger of an operation claims is so.
THEOREM LedgerTellsTheTruth == Spec => []ClaimsAreTrue
<1>1. ASSUME Inductive PROVE ClaimsAreTrue
  <2> SUFFICES ASSUME NEW o \in Operation
               PROVE  /\ ledger[o].state = "REJECTED"
                            => o \notin public \cup wire \/ o \in vague
                      /\ ledger[o].state \in {"ACK_RECEIVED", "COMPLETE"} => o \in public
                      /\ ledger[o].state = "COMPLETE" => ledger[o].signature /\ ledger[o].observed
                      /\ ledger[o].state = "CANCELLED_NONCE_BURNED"
                           => signatures[o] = 0 /\ ~Reserved(o)
                      /\ ledger[o].postCalls > 0 => posts[o] > 0
    BY DEF ClaimsAreTrue
  <2>1. signatures[o] \in Nat /\ posts[o] \in Nat /\ ledger[o] \in Ledger
    BY <1>1 DEF Inductive, TypeOK
  <2>2. /\ ledger[o].state = "REJECTED" => o \notin public \cup wire \/ o \in vague
        /\ ledger[o].state \in {"ACK_RECEIVED", "COMPLETE"} => o \in public
        /\ ledger[o].state = "COMPLETE" => ledger[o].observed
    BY <1>1 DEF Inductive, VenueInOrder
  <2>3. ledger[o].state = "COMPLETE" => ledger[o].signature
    BY <1>1 DEF Inductive, LedgersInOrder, Sent
  <2>4. ASSUME ledger[o].state = "CANCELLED_NONCE_BURNED" PROVE signatures[o] = 0 /\ ~Reserved(o)
    <3>1. ledger[o].signBudget # "SPENT"
      BY <1>1, <2>4 DEF Inductive, LedgersInOrder
    <3>2. signatures[o] <= 1 /\ signatures[o] # 1
      BY <1>1, <3>1 DEF Inductive, EffectsInOrder
    <3>3. QED
      BY <1>1, <2>1, <2>4, <3>2 DEF Inductive, ReservationsInOrder
  <2>5. ledger[o].postCalls > 0 => posts[o] > 0
    <3>1. ledger[o].postCalls \in 0 .. 1
      BY <2>1 DEF Ledger
    <3>2. ledger[o].postCalls = 1 => posts[o] = 1
      BY <1>1 DEF Inductive, EffectsInOrder
    <3>3. QED
      BY <3>1, <3>2
  <2>6. QED
    BY <2>2, <2>3, <2>4, <2>5
<1>2. QED
  BY <1>1, InductiveInvariant, PTL

\* Spent budgets, the signature, the recorded result and observation are kept.
THEOREM EvidenceIsKept == Spec => EvidenceKept
<1> DEFINE Kept == \A o \in Operation :
              /\ ledger[o].signBudget = "SPENT" => ledger'[o].signBudget = "SPENT"
              /\ ledger[o].submitBudget = "SPENT" => ledger'[o].submitBudget = "SPENT"
              /\ ledger[o].signature => ledger'[o].signature
              /\ ledger[o].observed => ledger'[o].observed
              /\ ledger[o].postCalls <= ledger'[o].postCalls
<1>1. ASSUME Inductive, [Next]_vars PROVE [Kept]_ledger
  <2>1. CASE Next
    BY <1>1, <2>1, EvidenceGrows
  <2>2. CASE UNCHANGED vars
    BY <2>2 DEF vars, disk
  <2>3. QED
    BY <1>1, <2>1, <2>2
<1>2. QED
  BY <1>1, InductiveInvariant, PTL DEF Spec, EvidenceKept

\* A call that stores the result of a POST finds that none was stored before.
\* A complete operation is left only by that, for rejected only by a vague answer.
THEOREM CompleteIsLeftOnce == Spec => CompleteLeftOnlyByAnswer
<1> DEFINE LeftOnce == \A o \in Operation :
              ledger[o].state = "COMPLETE" /\ ledger'[o].state # "COMPLETE"
                  => /\ ledger[o].postCalls = 0
                     /\ ledger'[o].state = "REJECTED" => o \in vague
<1>1. ASSUME Inductive, Next, NEW o \in Operation,
             ledger[o].state = "COMPLETE", ledger'[o].state # "COMPLETE"
      PROVE  ledger[o].postCalls = 0 /\ (ledger'[o].state = "REJECTED" => o \in vague)
  <2>1. ledger \in [Operation -> Ledger] /\ ledger[o] \in Ledger
    BY <1>1 DEF Inductive, TypeOK
  <2>2. PICK c \in Caller :
           /\ op[c] \in Operation
           /\ ledger' = [ledger EXCEPT ![op[c]] = ledger'[op[c]]]
           /\ Create(c) \/ SaveCancelled(c) \/ ApproveSign(c) \/ SaveSigned(c)
              \/ ApproveSubmit(c) \/ SaveAnswer(c) \/ SaveObservation(c)
    BY <1>1, LedgerChange
  <2>3. op[c] = o
    BY <1>1, <2>1, <2>2
  <2>4. CallInOrder(c, o)
    BY <1>1, <2>3 DEF Inductive, CallsInOrder
  <2>5. SaveAnswer(c)
    <3>1. ~Create(c)
      BY <1>1, <2>2, <2>3, LedgerValue
    <3>2. ~SaveCancelled(c) /\ ~ApproveSign(c) /\ ~ApproveSubmit(c)
      BY <1>1, <2>4 DEF SaveCancelled, ApproveSign, ApproveSubmit, CallInOrder
    <3>3. ~SaveSigned(c)
      BY <1>1, <2>4 DEF SaveSigned, CallInOrder
    <3>4. SaveObservation(c) => ledger'[o].state = "COMPLETE"
      <4>1. SaveObservation(c) =>
               ledger'[o] = [ledger[o] EXCEPT !.state = "COMPLETE", !.observed = TRUE]
        BY <1>1, <2>2, <2>3, LedgerValue
      <4>2. QED
        BY <4>1, <2>1 DEF Ledger
    <3>5. QED
      BY <1>1, <2>2, <3>1, <3>2, <3>3, <3>4
  <2>6. ledger[o].postCalls = 0
    BY <2>4, <2>5 DEF SaveAnswer, CallInOrder
  <2>7. reply[o] = "OK"
    BY <1>1 DEF Inductive, VenueInOrder
  <2>8. ledger'[o].state = "REJECTED" => o \in vague
    <3>1. ledger'[o] # ledger[o]
             => (ledger'[o].state = "REJECTED" => reply[o] = "CLIENT_ERROR" \/ o \in vague)
      BY <1>1, NewClaims
    <3>2. QED
      BY <1>1, <2>7, <3>1
  <2>9. QED
    BY <2>6, <2>8
<1>2. ASSUME Inductive, [Next]_vars PROVE [LeftOnce]_ledger
  <2>1. CASE Next
    BY <1>1, <1>2, <2>1
  <2>2. CASE UNCHANGED vars
    BY <2>2 DEF vars, disk
  <2>3. QED
    BY <1>2, <2>1, <2>2
<1>3. QED
  BY <1>2, InductiveInvariant, PTL DEF Spec, CompleteLeftOnlyByAnswer

-----------------------------------------------------------------------------
(***************************************************************************)
(* The refinement: each step of the service is a step of what it promises, *)
(* or none.                                                                *)
(***************************************************************************)
\* The operations that count as confirmed and as cancelled.
Confirmed == {o \in Operation : ledger[o].observed}
Cancelled == {o \in Operation : ledger[o].state = "CANCELLED_NONCE_BURNED"}

\* A step that writes a ledger confirms an operation, cancels one, or neither.
LEMMA WriteRefines ==
    ASSUME Inductive, Next, ledger' # ledger
    PROVE  [Promise!Next]_(Promise!vars)
<1>1. TypeOK /\ LedgersInOrder /\ EffectsInOrder /\ VenueInOrder
  BY DEF Inductive
<1>2. PICK c \in Caller :
         /\ op[c] \in Operation
         /\ ledger' = [ledger EXCEPT ![op[c]] = ledger'[op[c]]]
         /\ UNCHANGED <<external, venue, history>>
         /\ Create(c) \/ SaveCancelled(c) \/ ApproveSign(c) \/ SaveSigned(c)
            \/ ApproveSubmit(c) \/ SaveAnswer(c) \/ SaveObservation(c)
  BY LedgerChange
<1>3. PICK o \in Operation : o = op[c]
  BY <1>2
<1>4. /\ ledger \in [Operation -> Ledger] /\ ledger[o] \in Ledger
      /\ \A p \in Operation : p # o => ledger'[p] = ledger[p]
      /\ CallInOrder(c, o)
  BY <1>1, <1>2, <1>3 DEF TypeOK, Inductive, CallsInOrder
<1>5. UNCHANGED <<signatures, posts, public>>
  BY <1>2 DEF venue, history
<1>6. /\ ledger[o].observed => ledger[o].state \in Sent
      /\ ledger[o].state \in Sent => ledger[o].state # "CANCELLED_NONCE_BURNED"
  BY <1>1 DEF VenueInOrder, EffectsInOrder, LedgersInOrder, Sent
<1>7. ASSUME /\ ledger'[o].observed = ledger[o].observed
             /\ ledger'[o].state # "CANCELLED_NONCE_BURNED"
             /\ ledger[o].state # "CANCELLED_NONCE_BURNED"
      PROVE  UNCHANGED Promise!vars
  <2>1. Confirmed' = Confirmed /\ Cancelled' = Cancelled
    BY <1>4, <1>7 DEF Confirmed, Cancelled
  <2>2. QED
    BY <2>1, <1>5 DEF Promise!vars, Confirmed, Cancelled
<1>8. CASE Create(c)
  <2>1. ledger[o].state = "NONE" /\ ledger'[o] = NewLedger("APPROVAL_PENDING")
    BY <1>2, <1>3, <1>8, LedgerValue
  <2>2. ~ledger[o].observed
    BY <2>1, <1>6 DEF Sent
  <2>3. ledger'[o].observed = ledger[o].observed
    <3>1. ledger[o].observed = FALSE
      BY <2>2, <1>4 DEF Ledger
    <3>2. NewLedger("APPROVAL_PENDING").observed = FALSE
      BY DEF NewLedger
    <3>3. ledger'[o].observed = FALSE
      BY <2>1, <3>2, Zenon
    <3>4. QED
      BY <3>1, <3>3, Zenon
  <2>4. QED
    BY <2>1, <2>3, <1>7 DEF NewLedger
<1>9. CASE SaveCancelled(c)
  <2>1. ledger'[o] = [ledger[o] EXCEPT !.state = "CANCELLED_NONCE_BURNED"]
    BY <1>2, <1>3, <1>9, LedgerValue
  <2>2. Confirmed' = Confirmed /\ Cancelled' = Cancelled \cup {o}
    BY <2>1, <1>4 DEF Confirmed, Cancelled, Ledger
  <2>3. signatures[o] = 0
    <3>1. ledger[o].signBudget # "SPENT"
      BY <1>1, <1>4, <1>9 DEF SaveCancelled, CallInOrder, LedgersInOrder
    <3>2. signatures[o] \in Nat /\ signatures[o] <= 1 /\ signatures[o] # 1
      BY <1>1, <3>1 DEF TypeOK, EffectsInOrder
    <3>3. QED
      BY <3>2
  <2>4. Promise!Cancel(o)
    BY <2>2, <2>3, <1>5 DEF Promise!Cancel, Confirmed, Cancelled
  <2>5. QED
    BY <2>4 DEF Promise!Next, Promise!Operation, Operation
<1>10. CASE ApproveSign(c) \/ SaveSigned(c) \/ ApproveSubmit(c)
  <2>1. ledger[o].state # "CANCELLED_NONCE_BURNED"
    BY <1>4, <1>10 DEF ApproveSign, SaveSigned, ApproveSubmit, CallInOrder
  <2>2. \/ ledger'[o] = [ledger[o] EXCEPT !.signBudget = "SPENT",
                                          !.state = "SIGNING_OUTCOME_UNCERTAIN"]
        \/ ledger'[o] = [ledger[o] EXCEPT !.state = "SIGNED", !.signature = TRUE]
        \/ ledger'[o] = [ledger[o] EXCEPT !.submitBudget = "SPENT",
                                          !.state = "SUBMISSION_UNCERTAIN"]
    BY <1>2, <1>3, <1>10, LedgerValue
  <2>3. ledger'[o].observed = ledger[o].observed /\ ledger'[o].state # "CANCELLED_NONCE_BURNED"
    BY <2>2, <1>4 DEF Ledger
  <2>4. QED
    BY <2>1, <2>3, <1>7
<1>11. CASE SaveAnswer(c)
  <2>1. ledger[o].state # "CANCELLED_NONCE_BURNED" /\ result[c] \in Answer
    BY <1>4, <1>11 DEF SaveAnswer, CallInOrder, Sent
  <2>2. \/ ledger'[o] = [ledger[o] EXCEPT !.state = "SUBMISSION_UNCERTAIN"]
        \/ ledger'[o] = [ledger[o] EXCEPT !.state = result[c], !.postCalls = 1]
    BY <1>2, <1>3, <1>11, LedgerValue
  <2>3. ASSUME NEW m, \/ m = [ledger[o] EXCEPT !.state = "SUBMISSION_UNCERTAIN"]
                      \/ m = [ledger[o] EXCEPT !.state = result[c], !.postCalls = 1]
        PROVE  m.observed = ledger[o].observed /\ m.state # "CANCELLED_NONCE_BURNED"
    <3>1. ledger[o] \in Ledger
      BY <1>4
    <3>2. QED
      BY <3>1, <2>1, <2>3 DEF Ledger, Answer
  <2>4. ledger'[o].observed = ledger[o].observed /\ ledger'[o].state # "CANCELLED_NONCE_BURNED"
    BY <2>2, <2>3
  <2>5. QED
    BY <2>1, <2>4, <1>7
<1>12. CASE SaveObservation(c)
  <2>1. /\ result[c] = "OBSERVED_PUBLIC"
        /\ ledger'[o] = [ledger[o] EXCEPT !.state = "COMPLETE", !.observed = TRUE]
    BY <1>2, <1>3, <1>12, LedgerValue
  <2>2. ledger[o].state # "CANCELLED_NONCE_BURNED" /\ o \in public
    BY <2>1, <1>1, <1>4, <1>12 DEF SaveObservation, CallInOrder, Sent, VenueInOrder
  <2>3. Confirmed' = Confirmed \cup {o} /\ Cancelled' = Cancelled
    <3>1. ASSUME NEW m, m = [ledger[o] EXCEPT !.state = "COMPLETE", !.observed = TRUE]
          PROVE  m.observed = TRUE /\ m.state = "COMPLETE"
      BY <3>1, <1>4 DEF Ledger
    <3>2. ledger'[o].observed = TRUE /\ ledger'[o].state = "COMPLETE"
      BY <2>1, <3>1
    <3>3. QED
      BY <2>2, <3>2, <1>4 DEF Confirmed, Cancelled
  <2>4. Promise!Confirm(o)
    BY <2>2, <2>3, <1>5 DEF Promise!Confirm, Confirmed, Cancelled
  <2>5. QED
    BY <2>4 DEF Promise!Next, Promise!Operation, Operation
<1>13. QED
  BY <1>2, <1>8, <1>9, <1>10, <1>11, <1>12

\* A signature and a POST are the ones the promise allows.
LEMMA EffectRefines ==
    ASSUME Inductive, Next, history' # history
    PROVE  [Promise!Next]_(Promise!vars)
<1>1. TypeOK /\ LedgersInOrder /\ EffectsInOrder
  BY DEF Inductive
<1>2. PICK c \in Caller :
         /\ op[c] \in Operation
         /\ \/ /\ CustodySigns(c)
               /\ pc[c] = "signing"
               /\ signatures[op[c]] = 0
               /\ signatures' = [signatures EXCEPT ![op[c]] = 1]
               /\ UNCHANGED <<posts, venue>>
            \/ /\ Post(c)
               /\ pc[c] = "submitting"
               /\ posts[op[c]] = 0
               /\ posts' = [posts EXCEPT ![op[c]] = 1]
               /\ UNCHANGED signatures
         /\ UNCHANGED <<ledger, external>>
  BY EffectChange
<1>3. PICK o \in Operation : o = op[c]
  BY <1>2
<1>4. CallInOrder(c, o)
  BY <1>3 DEF Inductive, CallsInOrder
<1>5. CASE CustodySigns(c)
  <2>1. /\ signatures[o] = 0 /\ signatures' = [signatures EXCEPT ![o] = 1]
        /\ UNCHANGED <<posts, public, ledger>> /\ Reserved(o)
        /\ ledger[o].state = "SIGNING_OUTCOME_UNCERTAIN"
    BY <1>2, <1>3, <1>4, <1>5 DEF CustodySigns, Post, venue, CallInOrder
  <2>2. ASSUME NEW p \in Operation, p[1] = o[1] PROVE signatures[p] = 0
    <3>1. signatures[p] \in Nat /\ signatures[p] <= 1 /\ (signatures[p] = 1 => Reserved(p))
      BY <1>1 DEF TypeOK, EffectsInOrder
    <3>2. Reserved(p) => p = o
      <4>1. Reserved(p) => p[2] = o[2]
        BY <2>1, <2>2 DEF Reserved
      <4>2. QED
        BY <4>1, <2>2, OperationFacts
    <3>3. QED
      BY <2>1, <3>1, <3>2
  <2>3. Promise!Sign(o)
    BY <2>1, <2>2 DEF Promise!Sign, Promise!Operation, Operation
  <2>4. QED
    BY <2>3 DEF Promise!Next, Promise!Operation, Operation
<1>6. CASE Post(c)
  <2>1. /\ posts[o] = 0 /\ posts' = [posts EXCEPT ![o] = 1]
        /\ UNCHANGED <<signatures, public, ledger>>
        /\ ledger[o].state \in Sent
    BY <1>2, <1>3, <1>4, <1>6 DEF CustodySigns, Post, venue, CallInOrder
  <2>2. signatures[o] = 1
    BY <2>1, <1>1 DEF LedgersInOrder, EffectsInOrder
  <2>3. Promise!Post(o)
    BY <2>1, <2>2 DEF Promise!Post
  <2>4. QED
    BY <2>3 DEF Promise!Next, Promise!Operation, Operation
<1>7. QED
  BY <1>2, <1>5, <1>6

\* Whatever becomes public was posted.
LEMMA VenueRefines ==
    ASSUME Inductive, Next, ledger' = ledger, history' = history
    PROVE  [Promise!Next]_(Promise!vars)
<1>1. TypeOK /\ VenueInOrder
  BY DEF Inductive
<1>2. signatures' = signatures /\ posts' = posts
  BY DEF history
<1>3. public' = public => UNCHANGED Promise!vars
  BY <1>2 DEF Promise!vars
<1>4. ASSUME NEW c \in Caller, Post(c) PROVE public' = public
  BY <1>4 DEF Post
<1>5. ASSUME NEW o \in Operation, Accept(o) PROVE Promise!Appear(o)
  <2>1. posts[o] = 1 /\ o \notin public
    BY <1>1, <1>5 DEF Accept, VenueInOrder
  <2>2. QED
    BY <2>1, <1>2, <1>5 DEF Accept, Promise!Appear
<1>6. ASSUME NEW o \in Operation, Reject(o) \/ Lose(o) PROVE public' = public
  BY <1>6 DEF Reject, Lose
<1>7. QED
  BY <1>3, <1>4, <1>5, <1>6, VenueChange DEF venue, Promise!Next, Promise!Operation, Operation

\* Every behaviour of the service is one of the promise: a draft is signed once, a
\* signed operation posted once, a cancelled one neither.
THEOREM ServiceKeepsPromise == Spec => ImplementsPublication
<1>1. ASSUME Init PROVE Promise!Init
  BY <1>1 DEF Init, NewLedger, Promise!Init, Promise!Operation, Operation
<1>2. ASSUME Inductive, [Next]_vars PROVE [Promise!Next]_(Promise!vars)
  <2>1. CASE Next
    BY <1>2, <2>1, WriteRefines, EffectRefines, VenueRefines
  <2>2. CASE UNCHANGED vars
    BY <2>2 DEF vars, disk, venue, history, Promise!vars
  <2>3. QED
    BY <1>2, <2>1, <2>2
<1>3. QED
  BY <1>1, <1>2, InductiveInvariant, PTL DEF Spec, ImplementsPublication, Promise!Spec
=============================================================================
