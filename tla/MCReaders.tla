----------------------------- MODULE MCReaders ------------------------------
(***************************************************************************)
(* The components that judge evidence and show it: the transcript          *)
(* validation, the replay, the live import, the connector with its page,   *)
(* and the publication page, each on a small instance.  They share no      *)
(* state, so `part' names the one that runs and the others stay as they    *)
(* began.                                                                  *)
(***************************************************************************)
EXTENDS Naturals, TLC

CONSTANTS
  Entry, MaxEntries,                       \* of Transcript
  Frame, Clock, RefundAfter, MaxFrames,    \* of Replay
  Room, Declared, MaxSeq, MaxRecords,      \* of LiveImport
  Request, Import, MaxImports, RateLimit,
  ImportTTL, PairingTTL, MaxNow, MaxBoots  \* of Connector

VARIABLES part,
  lines, checks, rows, signedVerified, unsignedContext, legacyUnverifiable, seen,
  priorSeq, previousTime, gaps, known, outcome,
  schedule, nowMs, contract, steps,
  latest, export, document, replayed,
  now, up, boot, born, used, imports, records, slot, page, window, minted, judged,
  ledger, bound, expired, sent, answers, blind, shown, stage, enabled, timer, pressed, twice

transcript == <<lines, checks, rows, signedVerified, unsignedContext, legacyUnverifiable,
                seen, priorSeq, previousTime, gaps, known, outcome>>
replay == <<schedule, nowMs, contract, steps>>
live == <<latest, export, document, replayed>>
connector == <<now, up, boot, born, used, imports, records, slot, page, window, minted, judged>>
publication == <<ledger, bound, expired, sent, answers, blind, shown, stage, enabled, timer,
                 pressed, twice>>

Transcript == INSTANCE Transcript WITH Line <- Entry, MaxLines <- MaxEntries
Replay == INSTANCE Replay WITH Line <- Frame, MaxLines <- MaxFrames
Live == INSTANCE LiveImport WITH lines <- replayed
Connector == INSTANCE Connector
Publication == INSTANCE PublicationPage WITH Ticks <- FALSE, page <- shown

\* What the lines are, that evaluation times are in order, and that no import is
\* called None.
ASSUME EntryAssumption == Entry \subseteq Transcript!LineRecord
ASSUME FrameAssumption ==
  /\ Frame \subseteq [type : Replay!Types, from : Replay!Actors, good : BOOLEAN]
  /\ Clock \subseteq Nat /\ RefundAfter \in Nat
ASSUME RoomAssumption == Declared \in Room /\ MaxSeq \in Nat /\ MaxRecords \in Nat
ASSUME ImportAssumption ==
  /\ Connector!None \notin Import /\ RateLimit \in Nat
  /\ MaxNow \in Nat /\ MaxBoots \in Nat \ {0}

\* A good row, and rows that differ from one in one or two respects.
Row(s, f, n) ==
  [form |-> "object", extra |-> FALSE, shaped |-> TRUE, seq |-> s, time |-> s, from |-> f,
   nonce |-> n, text |-> TRUE, sig |-> "right"]
Good == Row(2, "did", "1")
EntriesInQuestion ==
  {Row(s, f, n) : s \in 1 .. 3, f \in {"did", "other did"}, n \in {"1", "2"}}
  \cup {[Good EXCEPT !.form = f] : f \in {"value", "malformed"}}
  \cup {[Good EXCEPT !.extra = TRUE], [Good EXCEPT !.shaped = FALSE],
        [Good EXCEPT !.text = FALSE], [Good EXCEPT !.time = 0], [Good EXCEPT !.time = 1]}
  \cup {[Good EXCEPT !.nonce = n, !.sig = s] : n \in {"absent", "bad", "1"},
          s \in {"absent", "bad", "wrong", "right"}}
  \cup {[Good EXCEPT !.from = f, !.sig = s] : f \in {"bad did", "nickname"},
          s \in {"absent", "right"}}

FramesInQuestion ==
  {[type |-> t, from |-> "payer", good |-> TRUE] :
     t \in {"offer", "lock", "refund", "cancel", "heartbeat"}}
  \cup {[type |-> t, from |-> "payee", good |-> TRUE] : t \in {"accept", "reveal", "receipt"}}
  \cup {[type |-> "reveal", from |-> "payee", good |-> FALSE],
        [type |-> "malformed", from |-> "nobody", good |-> FALSE]}

Init ==
  /\ part \in {"transcript", "replay", "live", "connector", "publication"}
  /\ Transcript!Init /\ (part # "transcript" => known)
  /\ Replay!Init /\ (part # "replay" => schedule /\ \A t \in Clock : nowMs <= t)
  /\ Live!Init
  /\ Connector!Init
  /\ Publication!Init /\ (part # "publication" => bound)

Next ==
  \/ /\ part = "transcript" /\ Transcript!Next
     /\ UNCHANGED <<part, replay, live, connector, publication>>
  \/ /\ part = "replay" /\ Replay!Next
     /\ UNCHANGED <<part, transcript, live, connector, publication>>
  \/ /\ part = "live" /\ Live!Next
     /\ UNCHANGED <<part, transcript, replay, connector, publication>>
  \/ /\ part = "connector" /\ Connector!Next
     /\ UNCHANGED <<part, transcript, replay, live, publication>>
  \/ /\ part = "publication" /\ Publication!Next
     /\ UNCHANGED <<part, transcript, replay, live, connector>>

Spec == Init /\ [][Next]_<<part, transcript, replay, live, connector, publication>>

\* The requests are alike.
Requests == Permutations(Request)

\* One pass over a transcript finds what all its lines together say, and calls
\* no window with a gap bounded (verifier.mjs).
TranscriptIsJudged == part = "transcript" =>
  Transcript!Inductive /\ Transcript!VerdictIsMeaning /\ Transcript!BoundedIsContiguous

\* Every frame of a replay shows a history, its end as it ended, its advances
\* and its one lock where they are, and the lines of a live import are replayed
\* as they were said, or a gap is reported (replay.mjs, model.mjs,
\* live-import.mjs).
ReplayIsHistory ==
  /\ part = "replay" => Replay!Inductive
  /\ Replay!PathIsHistory /\ Replay!EndIsShown /\ Replay!AdvanceIsAChange
  /\ Replay!OneLockMark /\ Replay!FlatClockNeverRefunds
  /\ part = "live" => Live!Inductive
  /\ Live!GapMeansMissed /\ Live!ReplayedAsSaid

\* The bytes of an import go with its verdict, and a verdict shown is on disk;
\* the publication page asks for a signature and a submission of the operation
\* it shows once, and has a timer for every offer whose approval has expired
\* (connector.mjs, hub-app.js, workload-record.js).
PagesAreTrue ==
  /\ part = "connector" => Connector!Inductive
  /\ Connector!BytesDropped /\ Connector!ShownIsRecorded
  /\ part = "publication" => Publication!Inductive
  /\ Publication!AskedOnce /\ Publication!OfferExpires

\* An invalid transcript stays invalid, and the publication page does not return
\* to an earlier state, whatever order its answers arrive in (verifier.mjs,
\* workload-record.js).
NothingGoesBack == Transcript!InvalidIsDecisive /\ Publication!ShowsForward
=============================================================================
