-------------------------- MODULE MCJourneyProofs --------------------------
(***************************************************************************)
(* That both instances of the journey keep their evidence true: the facts  *)
(* of JourneyProofs, taken once for the beginning and once for the end.    *)
(***************************************************************************)
EXTENDS MCJourney, JourneyProofs

EndProofs == INSTANCE JourneyProofs WITH
  Active <- {"W2", "W5", "W4", "W6"}, Left <- {"observation of W5"},
  Begun <- {"W1", "W2", "W3"}, Process <- Single

-----------------------------------------------------------------------------
\* The instance that is run and the one that is proved about are the same.
LEMMA SameInvariant == End!Inductive <=> EndProofs!Inductive
BY DEF End!Inductive, End!TypeOK, End!EvidenceFollowsVenue, End!EvidenceIsTrue,
  End!CommandsInOrder, End!RequestsInOrder, End!Begins, End!PostsAccounted, End!OneCopy,
  End!PublicInOrder, End!CapsuleIsTrue, End!File, End!Content, End!Command, End!Kinds, End!Capsule,
  End!Attempt, End!Posts, End!Notes, End!NoAttempt, End!Operation, End!SignedOps, End!RailOps,
  End!Order, End!Predecessor, End!WritersInOrder, End!Founded, End!Exclusive, End!RailObserved,
  End!RailEvidenceStands,
  EndProofs!WritersInOrder, EndProofs!Founded, EndProofs!Exclusive, EndProofs!RailObserved,
  EndProofs!RailEvidenceStands, EndProofs!Inductive, EndProofs!TypeOK, EndProofs!EvidenceFollowsVenue, EndProofs!EvidenceIsTrue,
  EndProofs!CommandsInOrder, EndProofs!RequestsInOrder, EndProofs!Begins,
  EndProofs!PostsAccounted, EndProofs!OneCopy, EndProofs!PublicInOrder, EndProofs!CapsuleIsTrue,
  EndProofs!File, EndProofs!Content, EndProofs!Command, EndProofs!Kinds, EndProofs!Capsule,
  EndProofs!Attempt, EndProofs!Posts, EndProofs!Notes, EndProofs!NoAttempt,
  EndProofs!Operation, EndProofs!SignedOps, EndProofs!RailOps, EndProofs!Order,
  EndProofs!Predecessor

LEMMA SameInit == End!Init <=> EndProofs!Init
BY DEF End!Init, End!File, End!Content, End!Kinds, End!Capsule, End!Attempt, End!Posts, End!Notes,
  End!NoAttempt, End!Idle, End!Operation, End!SignedOps, End!RailOps, End!Order,
  End!Predecessor, EndProofs!Init, EndProofs!File, EndProofs!Content, EndProofs!Kinds,
  EndProofs!Capsule, EndProofs!Attempt, EndProofs!Posts, EndProofs!Notes, EndProofs!NoAttempt,
  EndProofs!Idle, EndProofs!Operation, EndProofs!SignedOps, EndProofs!RailOps,
  EndProofs!Order, EndProofs!Predecessor

LEMMA SameNext == End!Next <=> EndProofs!Next
BY DEF End!Next, End!Start, End!Approve, End!Signed, End!Answered, End!ObserveRoom,
  End!ObserveExport, End!ObserveSave, End!RailRead, End!RailSave, End!ReconcileWrite3,
  End!QuarantineRail, End!Finalize, End!Stop, End!SaveByHand, End!Arrive, End!Evict,
  End!ForeignWrite, End!Expected, End!Before, End!Dependency, End!RailObserved,
  End!RailDependency, End!Attempt3Eligible, End!Eligible, End!WriteEligible, End!SignReady,
  End!SubmitReady, End!Ready, End!Goes, End!Saved, End!Grant, End!Statuses,
  End!classifyResponse, End!Confirms, End!Observed, End!RailClassified, End!Created, End!WriteFile,
  End!Complete, End!File, End!Content, End!Kinds, End!Capsule, End!Attempt, End!Posts,
  End!Notes, End!NoAttempt, End!Idle, End!Operation, End!SignedOps, End!RailOps, End!Order,
  End!Predecessor, EndProofs!Next, EndProofs!Start, EndProofs!Approve, EndProofs!Signed,
  EndProofs!Answered, EndProofs!ObserveRoom, EndProofs!ObserveExport, EndProofs!ObserveSave,
  EndProofs!RailRead, EndProofs!RailSave, EndProofs!ReconcileWrite3, EndProofs!QuarantineRail,
  EndProofs!Finalize, EndProofs!Stop, EndProofs!SaveByHand, EndProofs!Arrive, EndProofs!Evict,
  EndProofs!ForeignWrite, EndProofs!Expected, EndProofs!Before, EndProofs!Dependency,
  EndProofs!RailObserved, EndProofs!RailDependency, EndProofs!Attempt3Eligible,
  EndProofs!Eligible, EndProofs!WriteEligible, EndProofs!SignReady, EndProofs!SubmitReady,
  EndProofs!Ready, EndProofs!Goes, EndProofs!Saved, EndProofs!Grant, EndProofs!Statuses,
  EndProofs!classifyResponse, EndProofs!Confirms, EndProofs!Observed,
  EndProofs!RailClassified, EndProofs!Created, EndProofs!WriteFile, EndProofs!Complete, EndProofs!File,
  EndProofs!Content, EndProofs!Kinds, EndProofs!Capsule, EndProofs!Attempt, EndProofs!Posts,
  EndProofs!Notes, EndProofs!NoAttempt, EndProofs!Idle, EndProofs!Operation,
  EndProofs!SignedOps, EndProofs!RailOps, EndProofs!Order, EndProofs!Predecessor

\* What the proofs assume of the constants holds of the end of the journey.
LEMMA EndActive ==
  {"W2", "W5", "W4", "W6"} \subseteq EndProofs!Operation
  /\ {"W1", "W2", "W3"} \subseteq EndProofs!SignedOps
  /\ {"observation of W5"} \subseteq
       {"attempt1 of W1", "attempt1 of W3", "attempt2 of W3", "observation of W5"}
<1>1. EndProofs!Operation = Operation /\ EndProofs!SignedOps = SignedOps
  BY DEF Operation, Order, SignedOps, RailOps, EndProofs!Operation, EndProofs!Order,
         EndProofs!SignedOps, EndProofs!RailOps
<1>2. QED
  BY <1>1, OperationFacts

LEMMA EndBegun ==
  \A o \in {"W1", "W2", "W3"} \ {"W1"} : EndProofs!Predecessor(o) \in {"W1", "W2", "W3"}
<1>1. \A o : EndProofs!Predecessor(o) = Predecessor(o)
  BY DEF Operation, Order, Predecessor, EndProofs!Operation, EndProofs!Order,
         EndProofs!Predecessor
<1>2. QED
  BY <1>1, PredecessorFacts

LEMMA EndBegin == ASSUME End!Init PROVE End!Inductive
BY EndActive, EndBegun, SameInit, SameInvariant, EndProofs!Begin

LEMMA EndStep == ASSUME End!Inductive, [End!Next]_(End!vars) PROVE End!Inductive'
<1>1. EndProofs!Inductive
  BY SameInvariant
<1>2. [EndProofs!Next]_(EndProofs!vars)
  BY SameNext DEF End!vars, EndProofs!vars
<1>3. EndProofs!Inductive'
  BY <1>1, <1>2, EndActive, EndBegun, EndProofs!Step
<1>4. End!Inductive' <=> EndProofs!Inductive'
  BY SameInvariant, PTL
<1>5. QED
  BY <1>3, <1>4

-----------------------------------------------------------------------------
(***************************************************************************)
(* Both instances.                                                         *)
(***************************************************************************)
Both == /\ part \in {"beginning", "end"}
        /\ part = "beginning" => Inductive
        /\ part = "end" => End!Inductive

LEMMA BothHold == MCSpec => []Both
<1>1. MCInit => Both
  BY Begin, EndBegin DEF MCInit, Both
<1>2. ASSUME Both, [MCNext]_<<vars, part>> PROVE Both'
  <2>1. CASE part = "beginning" /\ Next /\ UNCHANGED part
    BY <1>2, <2>1, Step DEF Both
  <2>2. CASE part = "end" /\ End!Next /\ UNCHANGED part
    BY <1>2, <2>2, EndStep DEF Both
  <2>3. CASE UNCHANGED <<vars, part>>
    <3>1. [Next]_vars /\ [End!Next]_(End!vars) /\ UNCHANGED part
      BY <2>3 DEF vars, End!vars
    <3>2. QED
      BY <1>2, <3>1, Step, EndStep DEF Both
  <2>4. QED
    BY <1>2, <2>1, <2>2, <2>3 DEF MCNext
<1>3. QED
  BY <1>1, <1>2, PTL DEF MCSpec

\* The promises of one instance are worded alike in the other.
LEMMA EndPromises ==
  End!Inductive =>
    EvidenceIsTrue /\ OneCopy /\ PublicInOrder /\ CapsuleIsTrue /\ RailEvidenceStands
<1>1. End!Operation = Operation /\ End!SignedOps = SignedOps /\ End!Capsule = Capsule
      /\ \A o : End!Predecessor(o) = Predecessor(o) /\ End!RailOps = RailOps
  BY DEF End!Operation, End!Order, End!SignedOps, End!RailOps, End!Capsule, End!Predecessor,
         Operation, Order, SignedOps, RailOps, Capsule, Predecessor
<1>2. QED
  BY <1>1 DEF End!Inductive, End!EvidenceIsTrue, End!OneCopy, End!PublicInOrder,
              End!CapsuleIsTrue, EvidenceIsTrue, OneCopy, PublicInOrder, CapsuleIsTrue,
              End!RailEvidenceStands, End!RailObserved, RailEvidenceStands, RailObserved

LEMMA BothPromise ==
  Both => EvidenceIsTrue /\ OneCopy /\ PublicInOrder /\ CapsuleIsTrue /\ RailEvidenceStands
BY EndPromises DEF Both, Inductive

\* At both ends of the journey everything the evidence rests on holds, and what
\* it calls public was taken by the venue.
THEOREM BothInductive == MCSpec => []AllInductive
<1>1. Both => AllInductive
  BY BothPromise DEF Both, AllInductive
<1>2. QED
  BY <1>1, BothHold, PTL

\* At both ends a message is posted once.  Writes 2, 4 and 5 become public only
\* after the operation before them, the claim after the lock and write 3 (and
\* perhaps before the reveal); writes 1 and 3 stand apart.
THEOREM BothInOrder == MCSpec => []PublicOnceInOrder
<1>1. Both => PublicOnceInOrder
  BY BothPromise DEF PublicOnceInOrder
<1>2. QED
  BY <1>1, BothHold, PTL

\* At both ends the capsule is complete only over a transcript that is public.
THEOREM BothCapsules == MCSpec => []CapsuleIsTrue
<1>1. Both => CapsuleIsTrue
  BY BothPromise
<1>2. QED
  BY <1>1, BothHold, PTL

\* At both ends the evidence of the rail that the claim and the capsule were
\* built on stays complete, although commands die while they write.
THEOREM BothRailEvidence == MCSpec => []RailEvidenceStands
<1>1. Both => RailEvidenceStands
  BY BothPromise
<1>2. QED
  BY <1>1, BothHold, PTL
=============================================================================
