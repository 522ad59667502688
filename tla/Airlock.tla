------------------------------ MODULE Airlock ------------------------------
(***************************************************************************)
(* The signature airlock of airlock/: a frame is prepared and frozen into  *)
(* a request, the operator approves its exact bytes, an adapter couriers   *)
(* the approved copy to a signer, and what comes back is verified against  *)
(* the approval before it becomes eligible.  Every call is synchronous, so *)
(* each is one step; between calls the request may be edited or rebuilt,   *)
(* the clock moves, and earlier signatures can be presented again.         *)
(*                                                                         *)
(* A hash or a fingerprint stands for its content: two are equal exactly   *)
(* when what they cover is.  An id is a prefix of the fingerprint, so the  *)
(* two are one field.  An approval is deeply frozen when it is issued and  *)
(* is never altered afterwards.                                            *)
(*                                                                         *)
(* A call of the adapter brings the transport and the ledger that its      *)
(* caller keeps, or does not: each defaults to a new object, with nonces   *)
(* that start again, or without a settled request, and it is forgotten     *)
(* with the call (adapter.mjs:366-367).                                    *)
(***************************************************************************)
EXTENDS Naturals, FiniteSets

CONSTANTS Frame,     \* the frames to be signed, among "offer", "lock", "reveal",
                     \* "rehearsal", "hidden" and "foreign"
          MaxNonce,  \* how many signatures a room gets (bound)
          MaxEdits   \* how many times a request is edited (bound)

\* The canonical bytes of a frame are named like the frame.  Those of "hidden"
\* carry a character the venue sweeps away; "edited" is a one-digit change.
Bytes == Frame \cup {"edited", "swept"}
Sweep(b) == IF b = "hidden" THEN "swept" ELSE b
Room == {"board", "deal", "rehearsal"}
Did == {"signer", "stranger"}
Kept == {"transport", "ledger"}
Author(f) == IF f = "foreign" THEN "stranger" ELSE "signer"

\* What a fingerprint covers.
Core == [bytes : Bytes, hash : Bytes, room : Room, op : {"post_frame", "other"},
         did : Did, pin : {"adopted", "other"}]
CoreOf(r) == [bytes |-> r.bytes, hash |-> r.hash, room |-> r.room, op |-> r.op,
              did |-> r.did, pin |-> r.pin]

\* A signature is known by what it covers.
Message == [did : Did, room : Room, nonce : 1 .. MaxNonce, text : Bytes]
Codes == {"PREPARED", "REVIEWED", "HANDOFF_REFUSED", "DUPLICATE_REQUEST_REFUSED",
          "REAL_INTERFACE_DRY_RUN_NOT_SUPPORTED", "HANDOFF_ALLOWED", "SIGNER_REFUSED",
          "SIGNER_RESPONSE_REFUSED", "SIGNER_RESPONSE_RECEIVED", "LOCALLY_VERIFIED",
          "LOCAL_VERIFY_FAILED", "POST_ELIGIBLE", "POST_ELIGIBILITY_REFUSED"}

VARIABLES request,    \* the request as it stands now, a set of at most one
          approval,   \* the operator's copy, likewise
          edits,      \* how many edits were made
          clock,      \* the clock, if the caller gives one
          opened, completed,  \* the ledger that is kept
          nonce,      \* the last nonce of each room in the transport that is kept
          signed,     \* every signature made, with the request it was asked for
          responses,  \* the response envelopes that exist
          accepted,   \* each acceptance of a response for a request
          result      \* what the adapter returned last

vars == <<request, approval, edits, clock, opened, completed, nonce, signed,
          responses, accepted, result>>
ledger == <<opened, completed>>

Requested ==
  [bytes : Bytes, hash : Bytes, room : Room, op : {"post_frame", "other"},
   did : Did, pin : {"adopted", "other"}, fp : Core,
   extended : BOOLEAN, posting : BOOLEAN]
Response == [fp : Core, did : Did, hash : Bytes, room : Room, nonce : 1 .. MaxNonce,
             over : Message, kind : {"TEST_VECTOR_SIGNER", "OTHER"}]
NoResult == [codes |-> {}, contacted |-> FALSE, asked |-> FALSE, eligible |-> FALSE,
             sealed |-> FALSE, verified |-> FALSE, fp |-> {}]

TypeOK ==
  /\ request \subseteq Requested /\ Cardinality(request) <= 1
  /\ approval \subseteq Core /\ Cardinality(approval) <= 1
  /\ edits \in 0 .. MaxEdits
  /\ clock \in {"before", "valid", "expired"}
  /\ opened \subseteq Core /\ completed \subseteq opened
  /\ nonce \in [Room -> 0 .. MaxNonce]
  /\ signed \subseteq [fp : Core, over : Message, kept : BOOLEAN]
  /\ responses \subseteq Response
  /\ accepted \subseteq Response \X Core \X BOOLEAN
  /\ result.codes \subseteq Codes

Init ==
  /\ request = {} /\ approval = {} /\ edits = 0 /\ clock = "before"
  /\ opened = {} /\ completed = {} /\ nonce = [r \in Room |-> 0]
  /\ signed = {} /\ responses = {} /\ accepted = {} /\ result = NoResult

-----------------------------------------------------------------------------
\* Stages 1 to 3: prepared, frozen, approved.

\* A rehearsal room, when named, replaces the room of the protocol.
Destination(f) ==
  CASE f = "rehearsal" -> "rehearsal" [] f = "offer" -> "board" [] OTHER -> "deal"

\* prepareFrame and buildRequest; the fingerprint is taken over the draft.
Frozen(f) ==
  [bytes |-> f, hash |-> f, room |-> Destination(f), op |-> "post_frame",
   did |-> Author(f), pin |-> "adopted"]

Prepare(f) ==
  LET core == Frozen(f) IN
  /\ request' = {[bytes |-> core.bytes, hash |-> core.hash, room |-> core.room,
                  op |-> core.op, did |-> core.did, pin |-> core.pin, fp |-> core,
                  extended |-> FALSE, posting |-> FALSE]}
  /\ UNCHANGED <<approval, edits, clock, ledger, nonce, signed, responses, accepted, result>>

\* A request is a plain object: a copy with one field changed is a request too.
Edited(r) ==
  {[r EXCEPT !.bytes = "edited"], [r EXCEPT !.bytes = "edited", !.hash = "edited"],
   [r EXCEPT !.op = "other"], [r EXCEPT !.pin = "other"], [r EXCEPT !.extended = TRUE],
   [r EXCEPT !.posting = TRUE], [r EXCEPT !.fp = CoreOf(r)]}
  \cup {[r EXCEPT !.room = x] : x \in Room} \cup {[r EXCEPT !.did = d] : d \in Did}

Edit ==
  /\ edits < MaxEdits
  /\ \E r \in request : \E e \in Edited(r) \ {r} : request' = {e}
  /\ edits' = edits + 1
  /\ UNCHANGED <<approval, clock, ledger, nonce, signed, responses, accepted, result>>

requestIsIntact(r) == r.fp = CoreOf(r) /\ r.hash = r.bytes

\* The approval holds the fingerprint's fields; the payload among them is the
\* operator's own copy of the bytes.
Approve ==
  /\ \E r \in request : requestIsIntact(r) /\ approval' = {CoreOf(r)}
  /\ UNCHANGED <<request, edits, clock, ledger, nonce, signed, responses, accepted, result>>

checkByteFreeze(r, a) == a = r.fp /\ a = CoreOf(r)

Tick ==
  /\ clock # "expired"
  /\ clock' = IF clock = "before" THEN "valid" ELSE "expired"
  /\ UNCHANGED <<request, approval, edits, ledger, nonce, signed, responses, accepted, result>>

-----------------------------------------------------------------------------
\* Stage 4: the signer.

\* The key is the same in every signer; the nonces live in the object.
Nonces(brings) == IF "transport" \in brings THEN nonce ELSE [r \in Room |-> 0]

\* Mutated form: a nonce is taken without being reserved.
NonceUnreserved(room, brings) == nonce' = nonce

reserveNonce(room, brings) ==
  nonce' = IF "transport" \in brings THEN [nonce EXCEPT ![room] = @ + 1] ELSE nonce

\* What a signer that holds the signer's key answers; it refuses another DID
\* and a hash that does not cover the text.
Answer(fp, core, brings) ==
  LET n == Nonces(brings)[core.room] + 1 IN
  [fp |-> fp, did |-> "signer", hash |-> core.hash, room |-> core.room,
   nonce |-> n, kind |-> "TEST_VECTOR_SIGNER",
   over |-> [did |-> "signer", room |-> core.room, nonce |-> n, text |-> Sweep(core.bytes)]]

signApprovedChallenge(fp, core, brings) ==
  /\ core.did = "signer" /\ core.hash = core.bytes /\ Nonces(brings)[core.room] < MaxNonce
  /\ reserveNonce(core.room, brings)
  /\ signed' = signed \cup {[fp |-> fp, over |-> Answer(fp, core, brings).over,
                             kept |-> "transport" \in brings]}

\* A rehearsal keeps its signer and its ledger: it hands the request to the
\* signer itself, after opening it.
SignDirectly ==
  \E r \in request :
    /\ approval # {} /\ r.fp \notin completed
    /\ signApprovedChallenge(r.fp, CoreOf(r), Kept)
    /\ responses' = responses \cup {Answer(r.fp, CoreOf(r), Kept)}
    /\ opened' = opened \cup {r.fp}
    /\ UNCHANGED <<request, approval, edits, clock, completed, accepted, result>>

-----------------------------------------------------------------------------
\* Stages 5 to 7: the response, its verification, eligibility.

Expired(r) == clock = "expired" /\ ~r.extended

\* Mutated form: the signature is not checked against the approved key.
CoversClaimed(r, a, s) == s.over.room = a.room /\ s.over.text = Sweep(a.bytes)

Covers(r, a, s) ==
  s.over = [did |-> a.did, room |-> a.room, nonce |-> s.nonce, text |-> Sweep(a.bytes)]

verifyResponse(r, a, s, clocked, open, done) ==
  /\ requestIsIntact(r) /\ checkByteFreeze(r, a)
  /\ s.fp = a /\ s.did = a.did /\ s.hash = a.hash /\ s.room = a.room
  /\ Sweep(a.bytes) = a.bytes
  /\ Covers(r, a, s)
  /\ ~(clocked /\ Expired(r))
  /\ r.fp \in open \ done

postEligibility(r) == ~r.posting /\ r.op = "post_frame"

\* The settled requests that a call finds in its ledger.
Settled(brings) == IF "ledger" \in brings THEN completed ELSE {}

\* Mutated form: a response may settle a request that was settled before.
CompleteAgain(r, s, brings) ==
  /\ completed' = completed
  /\ accepted' = accepted \cup {<<s, r.fp, "ledger" \in brings>>}

Complete(r, s, brings) ==
  /\ completed' = IF "ledger" \in brings THEN completed \cup {r.fp} ELSE completed
  /\ accepted' = accepted \cup {<<s, r.fp, "ledger" \in brings>>}

\* The rehearsal's close(): verify, complete if verified, whatever the verdict
\* on eligibility.
Present ==
  \E r \in request, a \in approval, s \in responses :
    /\ verifyResponse(r, a, s, TRUE, opened, completed)
    /\ Complete(r, s, Kept)
    /\ UNCHANGED <<request, approval, edits, clock, opened, nonce, signed, responses, result>>

-----------------------------------------------------------------------------
\* The adapter: signFrozenAirlockRequest.

validateHandoff(r, a, clocked, done) ==
  /\ requestIsIntact(r) /\ checkByteFreeze(r, a)
  /\ r.pin = "adopted" /\ a.pin = "adopted"
  /\ clocked => clock # "before" /\ ~Expired(r)
  /\ postEligibility(r)
  /\ Sweep(a.bytes) = a.bytes
  /\ r.fp \notin done

\* Every refusal is built by refusal(), which says the signer was not
\* contacted; asked is whether it was.
Refusal(codes, asked, r) ==
  result' = [NoResult EXCEPT !.codes = {"PREPARED", "REVIEWED"} \cup codes,
                             !.asked = asked, !.fp = {r.fp}]

Refuse(r, clocked, brings) ==
  /\ \A a \in approval : ~validateHandoff(r, a, clocked, Settled(brings))
  /\ Refusal(IF r.fp \in Settled(brings) THEN {"DUPLICATE_REQUEST_REFUSED"}
             ELSE {"HANDOFF_REFUSED"}, FALSE, r)
  /\ UNCHANGED <<ledger, nonce, signed, responses, accepted>>

\* REAL_INTERFACE_DRY_RUN: with a probe that signs nothing, or without one.
DryRun(r, code) ==
  /\ Refusal({code}, FALSE, r)
  /\ UNCHANGED <<ledger, nonce, signed, responses, accepted>>

\* The entry opens before the signer is asked.
Opening(r, brings) == opened' = IF "ledger" \in brings THEN opened \cup {r.fp} ELSE opened

\* The signer throws, or what it answers carries a field no response has; it
\* may have signed all the same.
Declined(r, a, brings) ==
  /\ Opening(r, brings)
  /\ \/ /\ Refusal({"HANDOFF_ALLOWED", "SIGNER_REFUSED"}, TRUE, r)
        /\ UNCHANGED <<nonce, signed>>
     \/ /\ Refusal({"HANDOFF_ALLOWED", "SIGNER_RESPONSE_REFUSED"}, TRUE, r)
        /\ signApprovedChallenge(a, a, brings)
  /\ UNCHANGED <<completed, responses, accepted>>

\* Mutated form: eligibility without the verification it rests on.
EligibleUnverified(r, verified) == postEligibility(r)

Eligible(r, verified) == verified /\ postEligibility(r)

\* A response is judged; one of another kind of signer is verified but refused.
Judge(r, a, s, clocked, brings) ==
  LET verified == /\ verifyResponse(r, a, s, clocked, {r.fp}, Settled(brings))
                  /\ s.kind = "TEST_VECTOR_SIGNER" /\ r.pin = "adopted" /\ a.hash = a.bytes
      eligible == Eligible(r, verified)
  IN
  /\ Opening(r, brings)
  /\ IF verified THEN Complete(r, s, brings) ELSE UNCHANGED <<completed, accepted>>
  /\ result' = [codes |-> {"PREPARED", "REVIEWED", "HANDOFF_ALLOWED", "SIGNER_RESPONSE_RECEIVED",
                           IF verified THEN "LOCALLY_VERIFIED" ELSE "LOCAL_VERIFY_FAILED",
                           IF eligible THEN "POST_ELIGIBLE" ELSE "POST_ELIGIBILITY_REFUSED"},
                contacted |-> TRUE, asked |-> TRUE, eligible |-> eligible,
                sealed |-> eligible, verified |-> verified, fp |-> {r.fp}]

\* Another signer answers for the one that was approved.
Impostor(a) ==
  {[fp |-> a, did |-> d, hash |-> a.hash, room |-> a.room, nonce |-> 1, kind |-> k,
    over |-> [did |-> "stranger", room |-> a.room, nonce |-> 1, text |-> a.bytes]] :
   d \in Did, k \in {"TEST_VECTOR_SIGNER", "OTHER"}}

Courier(clocked, brings) ==
  /\ \E r \in request :
       \/ Refuse(r, clocked, brings)
       \/ \E a \in approval :
            /\ validateHandoff(r, a, clocked, Settled(brings))
            /\ \/ \E c \in {"REAL_INTERFACE_DRY_RUN_NOT_SUPPORTED", "HANDOFF_ALLOWED"} : DryRun(r, c)
               \/ Declined(r, a, brings)
               \/ /\ signApprovedChallenge(a, a, brings)
                  /\ responses' = responses \cup {Answer(a, a, brings)}
                  /\ Judge(r, a, Answer(a, a, brings), clocked, brings)
               \/ \E s \in responses \cup Impostor(a) :
                    Judge(r, a, s, clocked, brings) /\ UNCHANGED <<nonce, signed, responses>>
  /\ UNCHANGED <<request, approval, edits, clock>>

Next ==
  \/ \E f \in Frame : Prepare(f)
  \/ Edit \/ Approve \/ Tick \/ SignDirectly \/ Present
  \/ \E clocked \in BOOLEAN, brings \in SUBSET Kept : Courier(clocked, brings)

Spec == Init /\ [][Next]_vars

-----------------------------------------------------------------------------
\* The lamps of the operator's surface (adapterBands), in the order drawn;
\* BYTE FROZEN, which waits for the verification, is left out.
Lamps(res) ==
  <<"PREPARED" \in res.codes, "REVIEWED" \in res.codes, "HANDOFF_ALLOWED" \in res.codes,
    "SIGNER_RESPONSE_RECEIVED" \in res.codes, "LOCALLY_VERIFIED" \in res.codes, res.eligible>>

\* No number that the kept transport gave out comes again.
NoncesInOrder == \A s \in signed : s.kept => s.over.nonce <= nonce[s.over.room]

\* The kept ledger knows what was accepted by calls that brought it.
Inductive ==
  /\ TypeOK
  /\ completed = {x[2] : x \in {y \in accepted : y[3]}}
  /\ NoncesInOrder

\* An accepted response is a signature by the approved identity over exactly
\* the approved bytes in the approved room, and the bytes are what the hash
\* the operator saw covers (verify.mjs, verifyResponse).
AcceptedIsApproved ==
  \A x \in accepted :
    /\ x[1].over.did = x[2].did /\ x[1].over.room = x[2].room
    /\ x[1].over.text = x[2].bytes /\ x[2].hash = x[2].bytes
    /\ x[1].over.nonce = x[1].nonce

\* Of the calls that bring their caller's ledger one at most settles a request,
\* however often it is couriered and whatever is presented again, by calls without
\* a ledger in between (envelope.mjs, AirlockLedger).
SettledOnce == \A x, y \in accepted : x[3] /\ y[3] /\ x[2] = y[2] => x = y

\* What the surface calls eligible was accepted, and no lamp is lit ahead of
\* the one before it (dryrun.mjs, adapterBands).
EligibleIsSettled ==
  /\ result.eligible => result.fp \subseteq {x[2] : x \in accepted}
  /\ \A i \in 2 .. 6 : Lamps(result)[i] => Lamps(result)[i - 1]

\* No two signatures of the transport that is kept share a room and a nonce
\* (signer.mjs, reserveNonce).
NonceOnce ==
  \A s, t \in signed :
    s.kept /\ t.kept /\ s.over.room = t.over.room /\ s.over.nonce = t.over.nonce
      => s.over = t.over

\* A result that says the signer was not contacted is true (adapter.mjs:349,
\* the statement of every refusal).
ContactIsReported == result.asked => result.contacted
\* No nonce of a room is used for two messages, whatever calls bring (signer.mjs,
\* reserveNonce).
NonceNeverReused ==
  \A s, t \in signed :
    s.over.room = t.over.room /\ s.over.nonce = t.over.nonce => s.over = t.over

\* A settled request is never settled by another response, whatever calls bring
\* (envelope.mjs, AirlockLedger).
SettledForGood == \A x, y \in accepted : x[2] = y[2] => x[1] = y[1]
=============================================================================
