------------------------ MODULE AttemptBudgetProofs ------------------------
(***************************************************************************)
(* Proofs about AttemptBudget for any sets of processes and identities.    *)
(***************************************************************************)
EXTENDS AttemptBudget, TLAPS

USE NoIdentityAssumption

\* Before any call every marker is absent and the invariant holds.
LEMMA InitInductive == Init => Inductive
  BY DEF Init, Inductive, TypeOK, Forms, PCs, Creating

\* What power loss leaves of a marker is one of its forms.
LEMMA EarlierForms == \A f \in Forms : Earlier(f) \subseteq Forms
  BY DEF Earlier, Forms

\* Every file operation, kill and power loss preserves it.
LEMMA StepInductive == Inductive /\ [Next]_vars => Inductive'
<1> SUFFICES ASSUME Inductive, [Next]_vars PROVE Inductive'
  OBVIOUS
<1> USE DEF Inductive, TypeOK, Forms, PCs, Creating, Goto, Available
<1>1. ASSUME NEW p \in Process, NEW i \in Identity, Begin(p, i) PROVE Inductive'
  BY <1>1 DEF Begin
<1>2. ASSUME NEW p \in Process, CreateMarker(p) PROVE Inductive'
  BY <1>2 DEF CreateMarker
<1>3. ASSUME NEW p \in Process, RefuseSpent(p) \/ RefuseUnusable(p) \/ RecordFails(p)
      PROVE Inductive'
  BY <1>3 DEF RefuseSpent, RefuseUnusable, RecordFails
<1>4. ASSUME NEW p \in Process, WritePart(p) PROVE Inductive'
  BY <1>4 DEF WritePart
<1>5. ASSUME NEW p \in Process, WriteRest(p) PROVE Inductive'
  BY <1>5 DEF WriteRest
<1>6. ASSUME NEW p \in Process, SyncMarker(p) PROVE Inductive'
  BY <1>6 DEF SyncMarker
<1>7. ASSUME NEW p \in Process, Perform(p) PROVE Inductive'
  BY <1>7 DEF Perform
<1>8. ASSUME NEW p \in Process, Kill(p) PROVE Inductive'
  BY <1>8 DEF Kill
<1>9. CASE PowerLoss
  BY <1>9, EarlierForms DEF PowerLoss
<1>10. CASE UNCHANGED vars
  BY <1>10 DEF vars
<1>11. QED
  BY <1>1, <1>2, <1>3, <1>4, <1>5, <1>6, <1>7, <1>8, <1>9, <1>10 DEF Next

\* Type correctness, one creator per identity, and a grant only for a synced
\* marker, in every reachable state of acquireOneShotAttempt.
THEOREM InductiveInvariant == Spec => []Inductive
  BY InitInductive, StepInductive, PTL DEF Spec

\* However many processes race for an identity, and wherever they are killed
\* or lose power, its irreversible operation runs at most once.
THEOREM OperationAtMostOnce == Spec => []AtMostOnce
<1>1. Inductive => AtMostOnce
  BY DEF Inductive, TypeOK, AtMostOnce
<1>2. QED
  BY <1>1, InductiveInvariant, PTL

\* An operation that ran has left a complete, durable record.
THEOREM RanMeansRecorded == Spec => []PerformedIsRecorded
<1>1. Inductive => PerformedIsRecorded
  BY DEF Inductive, PerformedIsRecorded, Finding, Available
<1>2. QED
  BY <1>1, InductiveInvariant, PTL

\* The marker files implement the abstract one-shot budget.
THEOREM MarkersImplementOneShot == Spec => ImplementsOneShot
<1>1. Init => Promise!Init
  BY DEF Init, Promise!Init, Holding
<1>2. Inductive /\ [Next]_vars => [Promise!Next]_(Promise!vars)
  <2> SUFFICES ASSUME Inductive, [Next]_vars PROVE [Promise!Next]_(Promise!vars)
    OBVIOUS
  <2> USE DEF Promise!vars, Holding, Goto, Inductive, TypeOK, Creating
  <2>1. ASSUME NEW p \in Process, NEW i \in Identity, Begin(p, i)
        PROVE UNCHANGED Promise!vars
    BY <2>1 DEF Begin
  <2>2. ASSUME NEW p \in Process,
               \/ CreateMarker(p) \/ RefuseSpent(p) \/ RefuseUnusable(p)
               \/ WritePart(p) \/ WriteRest(p) \/ RecordFails(p)
        PROVE UNCHANGED Promise!vars
    BY <2>2 DEF CreateMarker, RefuseSpent, RefuseUnusable, WritePart, WriteRest, RecordFails
  <2>3. ASSUME NEW p \in Process, SyncMarker(p) PROVE Promise!Next
    <3>1. PICK i \in Identity : i = subject[p]
      BY <2>3 DEF SyncMarker
    <3>2. Promise!Grant(p, i)
      BY <2>3, <3>1 DEF SyncMarker, Promise!Grant
    <3>3. QED BY <3>2 DEF Promise!Next
  <2>4. ASSUME NEW p \in Process, Perform(p) PROVE Promise!Next
    <3>1. Promise!Use(p)
      BY <2>4 DEF Perform, Promise!Use
    <3>2. QED BY <3>1 DEF Promise!Next
  <2>5. ASSUME NEW p \in Process, Kill(p) PROVE Promise!Next
    <3>1. Promise!Forfeit({p})
      BY <2>5 DEF Kill, Promise!Forfeit
    <3>2. {p} \in SUBSET Process
      OBVIOUS
    <3>3. QED BY <3>1, <3>2, Zenon DEF Promise!Next
  <2>6. CASE PowerLoss
    <3>1. Promise!Forfeit(Process)
      BY <2>6 DEF PowerLoss, Promise!Forfeit
    <3>2. Process \in SUBSET Process
      OBVIOUS
    <3>3. QED BY <3>1, <3>2, Zenon DEF Promise!Next
  <2>7. CASE UNCHANGED vars
    BY <2>7 DEF vars
  <2> HIDE DEF Promise!vars, Holding, Goto, Inductive, TypeOK, Creating
  <2>8. QED
    BY <2>1, <2>2, <2>3, <2>4, <2>5, <2>6, <2>7 DEF Next
<1>3. QED
  BY <1>1, <1>2, InductiveInvariant, PTL DEF Spec, ImplementsOneShot, Promise!Spec
=============================================================================
