---------------------------- MODULE W2Publication ----------------------------
(***************************************************************************)
(* W2PublicationService over DurableW2Store: prepare, approveAndSign,      *)
(* submitOnce, observe and cancel as concurrent calls of one connector     *)
(* process, with the operation ledgers on disk, the trusted custody, the   *)
(* one-shot submit budgets, the venue and crashes.                         *)
(*                                                                         *)
(* One lane (room and signer) of nonces. An operation is a draft with the  *)
(* nonce reserved for it. store.update() holds the lock of a ledger while  *)
(* it waits for the operator or for custody; those waits are steps here,   *)
(* and the lock is held by the calls that are in them.                     *)
(***************************************************************************)
EXTENDS Integers, FiniteSets

CONSTANTS
    Draft,          \* drafts: a W1 artifact, a room, a signer and a venue
    Caller,         \* concurrent calls of the service
    MaxNonce,       \* bound on the nonces of the lane
    MaxCrashes      \* bound on the crashes of the process

ASSUME BoundsAssumption == MaxNonce \in Nat /\ MaxCrashes \in Nat

Nonce == 1 .. MaxNonce
Operation == Draft \X Nonce
NoOperation == <<>>

Budget == {"AVAILABLE", "SPENT"}

LedgerState == {"NONE", "APPROVAL_PENDING", "CANCELLED_NONCE_BURNED",
                "SIGNING_OUTCOME_UNCERTAIN", "SIGNED", "SUBMISSION_UNCERTAIN",
                "REJECTED", "ACK_RECEIVED", "COMPLETE"}

\* signature: the ledger holds a verified signature. postCalls: a result of the
\* POST was recorded. observed: an observation OBSERVED_PUBLIC was recorded.
Ledger == [state : LedgerState, signBudget : Budget, submitBudget : Budget,
           signature : BOOLEAN, postCalls : 0 .. 1, observed : BOOLEAN]

NewLedger(state) ==
    [state |-> state, signBudget |-> "AVAILABLE", submitBudget |-> "AVAILABLE",
     signature |-> FALSE, postCalls |-> 0, observed |-> FALSE]

\* nonce 0: nothing was reserved for the draft yet
Reservation == [nonce : 0 .. MaxNonce, state : {"RESERVED", "BURNED"}]

Step == {"idle", "reserved", "approving", "cancelling", "cancelled", "signing", "signed",
         "confirming", "submitting", "posting", "answered", "observing", "observed"}

\* Where a call waits inside store.update(), with the lock of the ledger.
Holding == {"approving", "cancelling", "cancelled", "confirming"}

\* Classifications of a POST that was made, or of a budget that was refused.
Answer == {"ACK_RECEIVED", "REJECTED", "SUBMISSION_UNCERTAIN", "BUDGET_REFUSED"}
Sighting == {"OBSERVED_PUBLIC", "NOT_OBSERVED"}

VARIABLES
    ledger,         \* operations/<id>.json
    budgets,        \* the W2_SUBMIT markers of acquireOneShotAttempt
    changed,        \* drafts whose stored W1 record no longer matches
    expired,        \* operations whose approval has expired
    custody,        \* the current reservation of each draft
    counter,        \* the last nonce of the lane
    pc, op, result, \* a call: its step, its operation, what it got
    wire,           \* POSTs that have not reached the venue
    reply,          \* what the venue answered to the POST of an operation
    public,         \* operations retained in the room
    vague,          \* operations whose POST was answered 408, 425 or 429
    signatures,     \* history: signatures made by custody
    posts,          \* history: POSTs begun
    crashes

call == <<pc, op, result>>
disk == <<ledger, budgets>>
external == <<custody, counter>>
venue == <<wire, reply, public>>
world == <<changed, expired, vague, crashes>>
history == <<signatures, posts>>
vars == <<disk, call, external, venue, world, history>>

TypeOK ==
    /\ ledger \in [Operation -> Ledger]
    /\ budgets \subseteq Operation
    /\ changed \subseteq Draft
    /\ expired \subseteq Operation
    /\ custody \in [Draft -> Reservation]
    /\ counter \in 0 .. MaxNonce
    /\ pc \in [Caller -> Step]
    /\ op \in [Caller -> Operation \cup {NoOperation}]
    /\ \A c \in Caller : pc[c] # "idle" => op[c] \in Operation
    /\ result \in [Caller -> Answer \cup Sighting \cup {"NONE"}]
    /\ wire \subseteq Operation
    /\ reply \in [Operation -> {"NONE", "OK", "CLIENT_ERROR"}]
    /\ public \subseteq Operation
    /\ signatures \in [Operation -> Nat]
    /\ posts \in [Operation -> Nat]
    /\ vague \subseteq Operation
    /\ crashes \in 0 .. MaxCrashes

Init ==
    /\ ledger = [o \in Operation |-> NewLedger("NONE")]
    /\ budgets = {}
    /\ changed = {}
    /\ expired = {}
    /\ custody = [d \in Draft |-> [nonce |-> 0, state |-> "BURNED"]]
    /\ counter = 0
    /\ pc = [c \in Caller |-> "idle"]
    /\ op = [c \in Caller |-> NoOperation]
    /\ result = [c \in Caller |-> "NONE"]
    /\ wire = {}
    /\ reply = [o \in Operation |-> "NONE"]
    /\ public = {}
    /\ signatures = [o \in Operation |-> 0]
    /\ posts = [o \in Operation |-> 0]
    /\ vague = {}
    /\ crashes = 0

\* The lock of o is not held by any call.
Unlocked(o) == \A c \in Caller : pc[c] \in Holding => op[c] # o

Goes(c, step, o, outcome) ==
    /\ pc' = [pc EXCEPT ![c] = step]
    /\ op' = [op EXCEPT ![c] = o]
    /\ result' = [result EXCEPT ![c] = outcome]

Proceeds(c, step) == Goes(c, step, op[c], "NONE")

Ends(c) == Goes(c, "idle", NoOperation, "NONE")

Saves(o, value) ==
    /\ ledger' = [ledger EXCEPT ![o] = value]
    /\ UNCHANGED budgets

\* assertW1Link: the record the operation was prepared from is still the same.
Linked(o) == o[1] \notin changed

------------------------------------------------------------------------------
(***************************************************************************)
(* prepare.                                                                *)
(***************************************************************************)
\* custody.reserve: the reservation of the draft, or the next nonce when there
\* is none or it was burned.
Reserve(c, d) ==
    /\ pc[c] = "idle"
    /\ \/ /\ custody[d].state = "RESERVED"
          /\ UNCHANGED external
       \/ /\ custody[d].state = "BURNED"
          /\ counter < MaxNonce
          /\ counter' = counter + 1
          /\ custody' = [custody EXCEPT ![d] = [nonce |-> counter', state |-> "RESERVED"]]
    /\ Goes(c, "reserved", <<d, custody'[d].nonce>>, "NONE")
    /\ UNCHANGED <<disk, venue, world, history>>

\* store.create: an operation that exists is returned as it is.
Create(c) ==
    /\ pc[c] = "reserved"
    /\ Unlocked(op[c])
    /\ IF ledger[op[c]].state = "NONE"
       THEN Saves(op[c], NewLedger("APPROVAL_PENDING"))
       ELSE UNCHANGED disk
    /\ Ends(c)
    /\ UNCHANGED <<external, venue, world, history>>

------------------------------------------------------------------------------
(***************************************************************************)
(* approveAndSign and cancel.                                              *)
(***************************************************************************)
Pending(o) == ledger[o].state = "APPROVAL_PENDING" /\ ledger[o].signBudget = "AVAILABLE"

\* Mutated form: the ledger is read and changed without its lock.
SignStartUnlocked(c, o) ==
    /\ pc[c] = "idle"
    /\ Linked(o)
    /\ Pending(o)
    /\ Goes(c, IF o \in expired THEN "cancelling" ELSE "approving", o, "NONE")
    /\ UNCHANGED <<disk, external, venue, world, history>>

SignStart(c, o) ==
    /\ pc[c] = "idle"
    /\ Unlocked(o)
    /\ Linked(o)
    /\ Pending(o)
    /\ Goes(c, IF o \in expired THEN "cancelling" ELSE "approving", o, "NONE")
    /\ UNCHANGED <<disk, external, venue, world, history>>

\* Mutated form: the sign budget is not looked at.
CancelStartAfterSigning(c, o) ==
    /\ pc[c] = "idle"
    /\ Unlocked(o)
    /\ ledger[o].state # "NONE"
    /\ ledger[o].submitBudget = "AVAILABLE"
    /\ Goes(c, "cancelling", o, "NONE")
    /\ UNCHANGED <<disk, external, venue, world, history>>

CancelStart(c, o) ==
    /\ pc[c] = "idle"
    /\ Unlocked(o)
    /\ Pending(o)
    /\ ledger[o].submitBudget = "AVAILABLE"
    /\ Goes(c, "cancelling", o, "NONE")
    /\ UNCHANGED <<disk, external, venue, world, history>>

\* The current reservation is the one of this operation.
Reserved(o) == custody[o[1]] = [nonce |-> o[2], state |-> "RESERVED"]

\* custody.cancelReserved.
Burn(c) ==
    /\ pc[c] = "cancelling"
    /\ Reserved(op[c])
    /\ custody' = [custody EXCEPT ![op[c][1]].state = "BURNED"]
    /\ Proceeds(c, "cancelled")
    /\ UNCHANGED <<disk, counter, venue, world, history>>

SaveCancelled(c) ==
    /\ pc[c] = "cancelled"
    /\ Saves(op[c], [ledger[op[c]] EXCEPT !.state = "CANCELLED_NONCE_BURNED"])
    /\ Ends(c)
    /\ UNCHANGED <<external, venue, world, history>>

\* The operator types the phrase: the sign budget is spent before custody signs.
ApproveSign(c) ==
    /\ pc[c] = "approving"
    /\ Saves(op[c], [ledger[op[c]] EXCEPT !.signBudget = "SPENT",
                                          !.state = "SIGNING_OUTCOME_UNCERTAIN"])
    /\ Proceeds(c, "signing")
    /\ UNCHANGED <<external, venue, world, history>>

\* custody.signReserved.
CustodySigns(c) ==
    /\ pc[c] = "signing"
    /\ Reserved(op[c])
    /\ signatures' = [signatures EXCEPT ![op[c]] = @ + 1]
    /\ Proceeds(c, "signed")
    /\ UNCHANGED <<disk, external, venue, world, posts>>

SaveSigned(c) ==
    /\ pc[c] = "signed"
    /\ Unlocked(op[c])
    /\ IF ledger[op[c]].signBudget = "SPENT"
            /\ ledger[op[c]].state = "SIGNING_OUTCOME_UNCERTAIN"
       THEN Saves(op[c], [ledger[op[c]] EXCEPT !.state = "SIGNED", !.signature = TRUE])
       ELSE UNCHANGED disk
    /\ Ends(c)
    /\ UNCHANGED <<external, venue, world, history>>

\* A call ends without a further write: the phrase is wrong, custody refuses, its
\* answer is lost or does not match, the venue cannot be read, a write fails.
Fails(c) ==
    /\ pc[c] \notin {"idle", "submitting", "posting"}
    /\ Ends(c)
    /\ UNCHANGED <<disk, external, venue, world, history>>

------------------------------------------------------------------------------
(***************************************************************************)
(* submitOnce.                                                             *)
(***************************************************************************)
SubmitStart(c, o) ==
    /\ pc[c] = "idle"
    /\ Unlocked(o)
    /\ Linked(o)
    /\ ledger[o].signature
    /\ ledger[o].state = "SIGNED"
    /\ ledger[o].submitBudget = "AVAILABLE"
    /\ Goes(c, "confirming", o, "NONE")
    /\ UNCHANGED <<disk, external, venue, world, history>>

\* Mutated form: the approved submission is stored with its result only.
ApproveSubmitUnsaved(c) ==
    /\ pc[c] = "confirming"
    /\ Proceeds(c, "submitting")
    /\ UNCHANGED <<disk, external, venue, world, history>>

ApproveSubmit(c) ==
    /\ pc[c] = "confirming"
    /\ Saves(op[c], [ledger[op[c]] EXCEPT !.submitBudget = "SPENT",
                                          !.state = "SUBMISSION_UNCERTAIN"])
    /\ Proceeds(c, "submitting")
    /\ UNCHANGED <<external, venue, world, history>>

\* acquireOneShotAttempt and the POST that follows it without a pause.
Post(c) ==
    /\ pc[c] = "submitting"
    /\ op[c] \notin budgets
    /\ budgets' = budgets \cup {op[c]}
    /\ wire' = wire \cup {op[c]}
    /\ posts' = [posts EXCEPT ![op[c]] = @ + 1]
    /\ Proceeds(c, "posting")
    /\ UNCHANGED <<ledger, external, reply, public, world, signatures>>

\* The budget is spent, or cannot be recorded (which may spend it as well).
BudgetRefused(c) ==
    /\ pc[c] = "submitting"
    /\ budgets' \in {budgets, budgets \cup {op[c]}}
    /\ Goes(c, "answered", op[c], "BUDGET_REFUSED")
    /\ UNCHANGED <<ledger, external, venue, world, history>>

Answered(c) ==
    /\ pc[c] = "posting"
    /\ reply[op[c]] # "NONE"
    /\ Goes(c, "answered", op[c],
            IF reply[op[c]] = "OK" THEN "ACK_RECEIVED" ELSE "REJECTED")
    /\ UNCHANGED <<disk, external, venue, world, history>>

\* 408, 425 or 429: filed as a refusal, while the POST may be on the wire, public
\* or lost. (A 2xx must repeat the signed record to count as an acknowledgement.)
AnsweredVaguely(c) ==
    /\ pc[c] = "posting"
    /\ Goes(c, "answered", op[c], "REJECTED")
    /\ vague' = vague \cup {op[c]}
    /\ UNCHANGED <<disk, external, venue, changed, expired, crashes, history>>

\* Mutated form: no answer is taken for a refusal.
NoAnswerRejected(c) ==
    /\ pc[c] = "posting"
    /\ Goes(c, "answered", op[c], "REJECTED")
    /\ UNCHANGED <<disk, external, venue, world, history>>

\* A timeout, a reset, a 5xx answer or a body that is not the posted record.
NoAnswer(c) ==
    /\ pc[c] = "posting"
    /\ Goes(c, "answered", op[c], "SUBMISSION_UNCERTAIN")
    /\ UNCHANGED <<disk, external, venue, world, history>>

\* Mutated form: the ledger that was read before the POST is stored again.
SaveAnswerStale(c) ==
    /\ pc[c] = "answered"
    /\ Unlocked(op[c])
    /\ Saves(op[c],
             IF result[c] = "BUDGET_REFUSED"
             THEN [ledger[op[c]] EXCEPT !.state = "SUBMISSION_UNCERTAIN"]
             ELSE [ledger[op[c]] EXCEPT !.state = result[c], !.postCalls = 1, !.observed = FALSE])
    /\ Ends(c)
    /\ UNCHANGED <<external, venue, world, history>>

\* The result is stored whatever the ledger says by now.
SaveAnswer(c) ==
    /\ pc[c] = "answered"
    /\ Unlocked(op[c])
    /\ Saves(op[c],
             IF result[c] = "BUDGET_REFUSED"
             THEN [ledger[op[c]] EXCEPT !.state = "SUBMISSION_UNCERTAIN"]
             ELSE [ledger[op[c]] EXCEPT !.state = result[c], !.postCalls = 1])
    /\ Ends(c)
    /\ UNCHANGED <<external, venue, world, history>>

------------------------------------------------------------------------------
(***************************************************************************)
(* observe.                                                                *)
(***************************************************************************)
ObserveStart(c, o) ==
    /\ pc[c] = "idle"
    /\ ledger[o].signature
    /\ ledger[o].submitBudget = "SPENT"
    /\ Linked(o)
    /\ Goes(c, "observing", o, "NONE")
    /\ UNCHANGED <<disk, external, venue, world, history>>

\* A malformed export is OBSERVATION_INVALID and changes no state either.
Observe(c) ==
    /\ pc[c] = "observing"
    /\ \/ op[c] \in public /\ Goes(c, "observed", op[c], "OBSERVED_PUBLIC")
       \/ Goes(c, "observed", op[c], "NOT_OBSERVED")
    /\ UNCHANGED <<disk, external, venue, world, history>>

\* Mutated form: an observation without a match makes the operation uncertain.
SaveObservationDowngrades(c) ==
    /\ pc[c] = "observed"
    /\ Unlocked(op[c])
    /\ Saves(op[c],
             IF result[c] = "OBSERVED_PUBLIC"
             THEN [ledger[op[c]] EXCEPT !.state = "COMPLETE", !.observed = TRUE]
             ELSE [ledger[op[c]] EXCEPT !.state = "SUBMISSION_UNCERTAIN"])
    /\ Ends(c)
    /\ UNCHANGED <<external, venue, world, history>>

SaveObservation(c) ==
    /\ pc[c] = "observed"
    /\ Unlocked(op[c])
    /\ IF result[c] = "OBSERVED_PUBLIC" /\ Linked(op[c])
       THEN Saves(op[c], [ledger[op[c]] EXCEPT !.state = "COMPLETE", !.observed = TRUE])
       ELSE UNCHANGED disk
    /\ Ends(c)
    /\ UNCHANGED <<external, venue, world, history>>

------------------------------------------------------------------------------
(***************************************************************************)
(* The venue, time, the W1 record and the process.                         *)
(***************************************************************************)
Accept(o) ==
    /\ o \in wire
    /\ wire' = wire \ {o}
    /\ public' = public \cup {o}
    /\ reply' = [reply EXCEPT ![o] = "OK"]
    /\ UNCHANGED <<disk, call, external, world, history>>

Reject(o) ==
    /\ o \in wire
    /\ wire' = wire \ {o}
    /\ reply' = [reply EXCEPT ![o] = "CLIENT_ERROR"]
    /\ UNCHANGED <<disk, call, external, public, world, history>>

Lose(o) ==
    /\ o \in wire
    /\ wire' = wire \ {o}
    /\ UNCHANGED <<disk, call, external, reply, public, world, history>>

Expire(o) ==
    /\ ledger[o].state = "APPROVAL_PENDING"
    /\ expired' = expired \cup {o}
    /\ UNCHANGED <<disk, call, external, venue, changed, vague, crashes, history>>

ChangeRecord(d) ==
    /\ changed' = changed \cup {d}
    /\ UNCHANGED <<disk, call, external, venue, expired, vague, crashes, history>>

Crash ==
    /\ crashes < MaxCrashes
    /\ crashes' = crashes + 1
    /\ pc' = [c \in Caller |-> "idle"]
    /\ op' = [c \in Caller |-> NoOperation]
    /\ result' = [c \in Caller |-> "NONE"]
    /\ UNCHANGED <<disk, external, venue, changed, expired, vague, history>>

\* The steps a call takes by itself: file operations and fetches settle.
Work(c) ==
    \/ Create(c) \/ SaveCancelled(c) \/ SaveSigned(c)
    \/ Post(c) \/ BudgetRefused(c) \/ Answered(c) \/ AnsweredVaguely(c) \/ NoAnswer(c)
    \/ SaveAnswer(c)
    \/ Observe(c) \/ SaveObservation(c)

\* The steps that wait for the operator or for custody.
Awaited(c) == Burn(c) \/ ApproveSign(c) \/ CustodySigns(c) \/ ApproveSubmit(c) \/ Fails(c)

Request(c) ==
    \/ \E d \in Draft : Reserve(c, d)
    \/ \E o \in Operation : SignStart(c, o) \/ CancelStart(c, o) \/ SubmitStart(c, o)
                            \/ ObserveStart(c, o)

Environment ==
    \/ \E o \in Operation : Accept(o) \/ Reject(o) \/ Lose(o) \/ Expire(o)
    \/ \E d \in Draft : ChangeRecord(d)
    \/ Crash

Next == (\E c \in Caller : Work(c) \/ Awaited(c) \/ Request(c)) \/ Environment

Spec == Init /\ [][Next]_vars

\* Fair to the steps of a call that need neither the operator nor custody.
FairSpec == Spec /\ \A c \in Caller : WF_vars(Work(c))

------------------------------------------------------------------------------
(***************************************************************************)
(* Properties.                                                             *)
(***************************************************************************)
Sent == {"SUBMISSION_UNCERTAIN", "REJECTED", "ACK_RECEIVED", "COMPLETE"}

\* submitOnce and approveAndSign spend their budget and leave the retryable state
\* on disk before the POST or the signature is made, so that a crash at any later
\* point finds the attempt spent (approveAndSign, submitOnce).
SpentBeforeEffect ==
    \A o \in Operation :
        /\ signatures[o] > 0 =>
              /\ ledger[o].signBudget = "SPENT"
              /\ ledger[o].state \in {"SIGNING_OUTCOME_UNCERTAIN", "SIGNED"} \cup Sent
        /\ posts[o] > 0 => ledger[o].submitBudget = "SPENT" /\ ledger[o].state \in Sent

\* What a ledger claims is so: an acknowledged or completed operation is public, a
\* cancelled one is unsigned and its reservation is burned, and a rejected one was
\* not accepted, now or later, unless its answer was vague: submitOnce files 408,
\* 425 and 429 as REJECTED too, where docs/PHASE3B_FAILURE_MATRIX.md:28 has such a
\* frame possibly public.  Without an answer nothing is called rejected.
ClaimsAreTrue ==
    \A o \in Operation :
        /\ ledger[o].state = "REJECTED" => o \notin public \cup wire \/ o \in vague
        /\ ledger[o].state \in {"ACK_RECEIVED", "COMPLETE"} => o \in public
        /\ ledger[o].state = "COMPLETE" => ledger[o].signature /\ ledger[o].observed
        /\ ledger[o].state = "CANCELLED_NONCE_BURNED" => signatures[o] = 0 /\ ~Reserved(o)
        /\ ledger[o].postCalls > 0 => posts[o] > 0

\* Whatever is signed, posted or cancelled, by calls that overlap, crash and are
\* repeated, a draft is signed and posted once and only what is public is
\* confirmed (prepare, approveAndSign, submitOnce, observe, cancel).
Promise == INSTANCE Publication WITH
    confirmed <- {o \in Operation : ledger[o].observed},
    cancelled <- {o \in Operation : ledger[o].state = "CANCELLED_NONCE_BURNED"}

ImplementsPublication == Promise!Spec

\* store.update() changes what is on disk, never what a call read before: spent
\* budgets, the signature, the recorded result and observation are never undone.
EvidenceKept ==
    [][\A o \in Operation :
         /\ ledger[o].signBudget = "SPENT" => ledger'[o].signBudget = "SPENT"
         /\ ledger[o].submitBudget = "SPENT" => ledger'[o].submitBudget = "SPENT"
         /\ ledger[o].signature => ledger'[o].signature
         /\ ledger[o].observed => ledger'[o].observed
         /\ ledger[o].postCalls <= ledger'[o].postCalls]_ledger

\* The state COMPLETE is left only by the late answer of the POST itself, which
\* submitOnce stores without looking at the state: once that is recorded, it stays.
\* For REJECTED it is left only when that answer was vague.
CompleteLeftOnlyByAnswer ==
    [][\A o \in Operation :
         ledger[o].state = "COMPLETE" /\ ledger'[o].state # "COMPLETE"
             => /\ ledger[o].postCalls = 0
                /\ ledger'[o].state = "REJECTED" => o \in vague]_ledger

\* A signature, an answer or an observation that arrived is stored, unless the
\* process dies or the write fails: no prompt that holds the lock of the ledger is
\* in its way (the update() after custody, the POST and the export read).
ResultsAreSaved ==
    \A c \in Caller : pc[c] \in {"signed", "answered", "observed"} ~> pc[c] = "idle"

------------------------------------------------------------------------------
(***************************************************************************)
(* The inductive invariant. The safety properties above are not inductive: *)
(* a call acts on what it checked of a ledger before it waited, so the     *)
(* invariant says what of that still holds, and that no two calls work on  *)
(* one operation.                                                          *)
(***************************************************************************)
\* The budgets and the signature of a ledger are those of its state.
LedgersInOrder ==
    \A o \in Operation : LET l == ledger[o] IN
        /\ l.signBudget = "SPENT"
              <=> l.state \notin {"NONE", "APPROVAL_PENDING", "CANCELLED_NONCE_BURNED"}
        /\ l.signature <=> l.state \in {"SIGNED"} \cup Sent
        /\ l.submitBudget = "SPENT" <=> l.state \in Sent
        /\ l.state # "NONE" => o[2] <= counter

\* Each effect happened once at most, after its budget was spent on disk.
EffectsInOrder ==
    \A o \in Operation :
        /\ signatures[o] <= 1 /\ posts[o] <= 1
        /\ signatures[o] = 1 => ledger[o].signBudget = "SPENT" /\ Reserved(o)
        /\ ledger[o].signature => signatures[o] = 1
        /\ posts[o] = 1 => ledger[o].submitBudget = "SPENT"
        /\ ledger[o].postCalls = 1 => posts[o] = 1

\* The venue has what was posted, and the ledger claims what the venue answered.
VenueInOrder ==
    \A o \in Operation :
        /\ o \in wire => posts[o] = 1 /\ reply[o] = "NONE"
        /\ o \in public <=> reply[o] = "OK"
        /\ reply[o] # "NONE" => posts[o] = 1
        /\ ledger[o].state = "REJECTED" => reply[o] = "CLIENT_ERROR" \/ o \in vague
        /\ ledger[o].state \in {"ACK_RECEIVED", "COMPLETE"} => reply[o] = "OK"
        /\ ledger[o].state = "COMPLETE" => ledger[o].observed
        /\ ledger[o].observed => reply[o] = "OK"

\* A nonce that was reserved is not reserved again.
ReservationsInOrder ==
    /\ \A d \in Draft :
          /\ custody[d].nonce <= counter
          /\ custody[d].state = "RESERVED" => custody[d].nonce > 0
    /\ \A o \in Operation : ledger[o].state = "CANCELLED_NONCE_BURNED" => ~Reserved(o)

\* What a call has checked, or got, of its operation o.
CallInOrder(c, o) ==
    /\ pc[c] = "reserved" => o[2] <= counter
    /\ pc[c] \in {"approving", "cancelling", "cancelled"} => ledger[o].state = "APPROVAL_PENDING"
    /\ pc[c] = "cancelled" => ~Reserved(o)
    /\ pc[c] \in {"signing", "signed"} => ledger[o].state = "SIGNING_OUTCOME_UNCERTAIN"
    /\ pc[c] = "signing" => signatures[o] = 0
    /\ pc[c] = "signed" => signatures[o] = 1
    /\ pc[c] = "confirming" => ledger[o].state = "SIGNED"
    /\ pc[c] \in {"submitting", "posting", "answered", "observing", "observed"}
          => ledger[o].state \in Sent
    /\ pc[c] = "submitting" => posts[o] = 0
    /\ pc[c] = "posting" => posts[o] = 1
    /\ pc[c] \in {"posting", "answered"} => ledger[o].postCalls = 0
    /\ pc[c] = "answered" =>
          /\ result[c] \in Answer
          /\ result[c] = "ACK_RECEIVED" => reply[o] = "OK"
          /\ result[c] = "REJECTED" => reply[o] = "CLIENT_ERROR" \/ o \in vague
          /\ posts[o] = IF result[c] = "BUDGET_REFUSED" THEN 0 ELSE 1
    /\ pc[c] = "observed" /\ result[c] = "OBSERVED_PUBLIC" => reply[o] = "OK"

CallsInOrder == \A c \in Caller : CallInOrder(c, op[c])

\* A call that is on its way to an effect, or stores one, is alone on its operation.
Working == Holding \cup {"signing", "signed", "submitting", "posting", "answered"}

OneWorker ==
    \A b, c \in Caller : pc[b] \in Working /\ pc[c] \in Working /\ op[b] = op[c] => b = c

Inductive ==
    /\ TypeOK
    /\ LedgersInOrder
    /\ EffectsInOrder
    /\ VenueInOrder
    /\ ReservationsInOrder
    /\ CallsInOrder
    /\ OneWorker
\* A ledger that says rejected is right about the venue: submitOnce files every
\* 4xx so (service.mjs:132).
RejectedIsDefinite == \A o \in Operation :
    ledger[o].state = "REJECTED" => o \notin public \cup wire
=============================================================================
