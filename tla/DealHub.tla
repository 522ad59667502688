------------------------------ MODULE DealHub ------------------------------
(***************************************************************************)
(* One deal session of the Deal Hub: the engine that the connector calls   *)
(* for every HTTP request (hub/engine.mjs), the session file it reads at   *)
(* the start of a request and rewrites whole at the end (hub/session.mjs), *)
(* the real executor with its artifacts and one-shot budgets               *)
(* (hub/real-executor.mjs), and the public venue it posts to.              *)
(*                                                                         *)
(* Requests are served concurrently by one process: between two awaits of  *)
(* a request any other request may run.  A request therefore works on a    *)
(* snapshot of the session and its save overwrites whatever was saved      *)
(* since.  The process may crash at any await and be restarted.  A POST    *)
(* may be lost, answered, or left without an answer and still arrive, and  *)
(* an answer need not tell what became of it.                              *)
(*                                                                         *)
(* A budget is taken in one step here; module AttemptBudget shows that the *)
(* marker files implement that step.                                       *)
(***************************************************************************)
EXTENDS Naturals, Sequences

CONSTANTS Steps,      \* the steps of the deal, in order (OPERATION_STEPS)
          Handler,    \* the requests that can be in progress at a time
          NoAction,   \* an operation with nothing pending
          Written,    \* what others write on the rail
          MaxCrashes  \* bound on the number of process crashes

RailSteps == {"RAIL_LOCK", "RAIL_CLAIM"}
SignedSteps == {"OFFER", "ACCEPT", "LOCK", "REVEAL"}

ASSUME StepsAssumption == Steps \in Seq(RailSteps \cup SignedSteps) /\ Len(Steps) > 0
                           /\ \A i, j \in DOMAIN Steps : Steps[i] = Steps[j] => i = j
ASSUME CrashesAssumption == MaxCrashes \in Nat

Operation == 1 .. Len(Steps)
IsRail(o) == Steps[o] \in RailSteps

Recovery == {"RECOVERY_SUBMIT", "PAPERRAIL_RECOVERY_WRITE"}
Action == {"SIGN", "SUBMIT", "PAPERRAIL_WRITE"} \cup Recovery

ASSUME NoActionAssumption == NoAction \notin Action

\* One budget and one prepared artifact per operation and action.
Attempt == Operation \X Action

States == {"BLOCKED", "READY", "AWAITING_LOCAL_APPROVAL", "SIGNED", "ACK_RECEIVED",
           "REJECTED", "SUBMISSION_UNCERTAIN", "WRITE_RECEIPT", "NOT_OBSERVED",
           "VERIFIED", "COMPLETE"}
FinalStates == {"VERIFIED", "COMPLETE"}

Observable == {"ACK_RECEIVED", "SUBMISSION_UNCERTAIN", "WRITE_RECEIPT"}
Results == {"SIGNED", "ACK_RECEIVED", "REJECTED", "SUBMISSION_UNCERTAIN", "WRITE_RECEIPT"}

\* The part of session.json that the engine reads back.
Session == [state     : [Operation -> States],
            pending   : [Operation -> Action \cup {NoAction}],
            attempts  : SUBSET [op : Operation, action : Action, result : Results],
            recovery  : [Operation -> BOOLEAN],   \* recoveryAvailable
            finalized : BOOLEAN]

NewSession == [state     |-> [o \in Operation |-> IF o = 1 THEN "READY" ELSE "BLOCKED"],
               pending   |-> [o \in Operation |-> NoAction],
               attempts  |-> {},
               recovery  |-> [o \in Operation |-> FALSE],
               finalized |-> FALSE]

RailValues == {"VACANT", "LOCK", "CLAIM", "FOREIGN"}

ASSUME WrittenAssumption == Written \subseteq RailValues \ {"VACANT"}

VARIABLES
    session,   \* the content of session.json
    readable,  \* whether that file parses: a writer truncates it first
    mixed,     \* the writers whose file was written by another since they opened it
    prepared,  \* the prepared-<action> artifacts on disk
    signed,    \* the operations with a signed artifact on disk
    spent,     \* the one-shot budgets that are SPENT
    pc,        \* where each request stands
    op,        \* the operation a request is about
    snap,      \* the session a request has read, with its own changes
    active,    \* engine.active, each operation with the request that added it
    net,       \* the POSTs on the wire that the venue has not processed
    answer,    \* the venue's answers that wait for their request
    room,      \* how many exact copies of an operation the room retains
    rail,      \* the PaperRail value
    shown,     \* history: the values the rail has had
    effects,   \* history: how often the guarded effect of an attempt was caused
    landed,    \* history: the attempts the venue accepted
    uncertain, \* history: the attempts that ended without an answer of 2xx or 4xx
    vague,     \* history: the attempts answered so, but not with what became of them
    crashes    \* number of crashes so far

disk == <<session, readable, mixed, prepared, signed, spent>>
memory == <<pc, op, snap, active>>
venue == <<net, answer, room, rail, shown>>
history == <<effects, landed, uncertain, vague>>
vars == <<disk, memory, venue, history, crashes>>

PCs == {"idle", "preparing", "approving", "approved", "acquired", "sent",
        "observing", "saving", "writing"}

TypeOK ==
    /\ session \in Session
    /\ readable \in BOOLEAN
    /\ mixed \subseteq Handler
    /\ prepared \subseteq Attempt
    /\ signed \subseteq Operation
    /\ spent \subseteq Attempt
    /\ pc \in [Handler -> PCs]
    /\ op \in [Handler -> Operation]
    /\ snap \in [Handler -> Session]
    /\ active \subseteq Handler \X Operation
    /\ net \subseteq Attempt
    /\ answer \subseteq Attempt \X {"ok", "refused"}
    /\ room \in [Operation -> Nat]
    /\ rail \in RailValues
    /\ shown \subseteq RailValues
    /\ effects \in [Attempt -> Nat]
    /\ landed \subseteq Attempt
    /\ uncertain \subseteq Attempt
    /\ vague \subseteq Attempt
    /\ crashes \in 0 .. MaxCrashes

Init ==
    /\ session = NewSession
    /\ readable = TRUE
    /\ mixed = {}
    /\ prepared = {}
    /\ signed = {}
    /\ spent = {}
    /\ pc = [h \in Handler |-> "idle"]
    /\ op = [h \in Handler |-> 1]
    /\ snap = [h \in Handler |-> NewSession]
    /\ active = {}
    /\ net = {}
    /\ answer = {}
    /\ room = [o \in Operation |-> 0]
    /\ rail = "VACANT"
    /\ shown = {"VACANT"}
    /\ effects = [a \in Attempt |-> 0]
    /\ landed = {}
    /\ uncertain = {}
    /\ vague = {}
    /\ crashes = 0

-----------------------------------------------------------------------------
(***************************************************************************)
(* What a request does to the snapshot it works on.                        *)
(***************************************************************************)
\* operation(): the predecessor's evidence must be complete.
Allowed(s, o) == o > 1 => s.state[o - 1] \in FinalStates

\* Mutated form: a recovery action that executor.execute() has no branch for.
NextActionUnknown(s, o) ==
    CASE s.state[o] = "READY" -> IF IsRail(o) THEN "PAPERRAIL_WRITE" ELSE "SIGN"
      [] s.state[o] = "SIGNED" -> "SUBMIT"
      [] s.state[o] = "NOT_OBSERVED" /\ s.recovery[o] -> "RECOVERY_WRITE"
      [] OTHER -> NoAction

\* The action that prepare() chooses for the state of the operation.
NextAction(s, o) ==
    CASE s.state[o] = "READY" -> IF IsRail(o) THEN "PAPERRAIL_WRITE" ELSE "SIGN"
      [] s.state[o] = "SIGNED" -> "SUBMIT"
      [] s.state[o] = "NOT_OBSERVED" /\ s.recovery[o] ->
            IF IsRail(o) THEN "PAPERRAIL_RECOVERY_WRITE" ELSE "RECOVERY_SUBMIT"
      [] OTHER -> NoAction

\* prepare() freezes the reviewed action.
Prepared(s, o, action) ==
    [s EXCEPT !.state[o] = "AWAITING_LOCAL_APPROVAL", !.pending[o] = action]

\* Mutated form: only the last attempt of an operation is kept.
RecordedLast(s, o, result) ==
    [s EXCEPT !.state[o] = result,
              !.pending[o] = NoAction,
              !.attempts = {r \in @ : r.op # o}
                           \cup {[op |-> o, action |-> s.pending[o], result |-> result]}]

\* execute() records the attempt and consumes what was pending.
Recorded(s, o, result) ==
    [s EXCEPT !.state[o] = result,
              !.pending[o] = NoAction,
              !.attempts = @ \cup {[op |-> o, action |-> s.pending[o], result |-> result]}]

\* Mutated form: any absent record offers a recovery, acknowledged or not.
RecoveryAvailableAlways(s, o) == \A r \in s.attempts : r.op = o => r.action \notin Recovery

\* observe(): a recovery is offered once, after an attempt without an answer.
RecoveryAvailable(s, o) ==
    /\ \E r \in s.attempts : r.op = o /\ r.result = "SUBMISSION_UNCERTAIN"
    /\ \A r \in s.attempts : r.op = o => r.action \notin Recovery

\* refresh(): exact public evidence verifies the operation and unlocks the next.
Verified(s, o) ==
    [s EXCEPT !.state = [p \in Operation |->
        CASE p = o -> "VERIFIED"
          [] p = o + 1 /\ s.state[p] = "BLOCKED" -> "READY"
          [] OTHER -> s.state[p]]]

NotObserved(s, o) ==
    [s EXCEPT !.state[o] = "NOT_OBSERVED", !.recovery[o] = RecoveryAvailable(s, o)]

\* Mutated form: an attempt without an answer is taken for public.
ObservedUncertainIsPublic(s, o, exact) ==
    IF exact \/ s.state[o] = "SUBMISSION_UNCERTAIN" THEN Verified(s, o) ELSE NotObserved(s, o)

Observed(s, o, exact) == IF exact THEN Verified(s, o) ELSE NotObserved(s, o)

\* finalize()
Finalized(s) == [s EXCEPT !.state = [o \in Operation |-> "COMPLETE"], !.finalized = TRUE]

\* The attempt that an executing request is about.
Current(h) == <<op[h], snap[h].pending[op[h]]>>

\* The value a rail step needs to find, and the one it leaves.
Before(o) == IF Steps[o] = "RAIL_LOCK" THEN "VACANT" ELSE "LOCK"
After(o) == IF Steps[o] = "RAIL_LOCK" THEN "LOCK" ELSE "CLAIM"

\* exactPublicMatch wants exactly one retained copy; a rail read the exact value.
ExactlyPublic(o) == IF IsRail(o) THEN rail = After(o) ELSE room[o] = 1

-----------------------------------------------------------------------------
(***************************************************************************)
(* The life of a request: it reads the session, works, saves, and is gone. *)
(***************************************************************************)
Start(h, o, label, s) ==
    /\ pc[h] = "idle"
    /\ readable
    /\ pc' = [pc EXCEPT ![h] = label]
    /\ op' = [op EXCEPT ![h] = o]
    /\ snap' = [snap EXCEPT ![h] = s]

Continue(h, label, s) ==
    /\ pc' = [pc EXCEPT ![h] = label]
    /\ snap' = [snap EXCEPT ![h] = s]
    /\ UNCHANGED <<op, active>>

\* Mutated form: the end of any request about an operation frees its name.
FinishFreesName(h) ==
    /\ pc' = [pc EXCEPT ![h] = "idle"]
    /\ op' = [op EXCEPT ![h] = 1]
    /\ snap' = [snap EXCEPT ![h] = NewSession]
    /\ active' = {x \in active : x[2] # op[h]}

\* The answer or the error goes out; execute() leaves engine.active either way.
Finish(h) ==
    /\ pc' = [pc EXCEPT ![h] = "idle"]
    /\ op' = [op EXCEPT ![h] = 1]
    /\ snap' = [snap EXCEPT ![h] = NewSession]
    /\ active' = active \ {<<h, op[h]>>}

\* prepare(): read the session and choose the action.
PrepareStart(h, o) ==
    /\ Allowed(session, o)
    /\ NextAction(session, o) # NoAction
    /\ Start(h, o, "preparing", session)
    /\ UNCHANGED <<disk, active, venue, history, crashes>>

\* executor.prepare(): the signed artifact for a submit, the expected public
\* value for a rail write, and an artifact name that is still free (wx).
Preparable(h, action) ==
    /\ <<op[h], action>> \notin prepared
    /\ action \in {"SUBMIT", "RECOVERY_SUBMIT"} => op[h] \in signed
    /\ IsRail(op[h]) => rail = Before(op[h])

PrepareArtifact(h) ==
    LET action == NextAction(snap[h], op[h]) IN
    /\ pc[h] = "preparing"
    /\ Preparable(h, action)
    /\ prepared' = prepared \cup {<<op[h], action>>}
    /\ Continue(h, "saving", Prepared(snap[h], op[h], action))
    /\ UNCHANGED <<session, readable, mixed, signed, spent, venue, history, crashes>>

\* PAPERRAIL_PRECHECK_REFUSED (also when the public read fails), or EEXIST.
PrepareFails(h) ==
    /\ pc[h] = "preparing"
    /\ IsRail(op[h]) \/ ~Preparable(h, NextAction(snap[h], op[h]))
    /\ Finish(h)
    /\ UNCHANGED <<disk, venue, history, crashes>>

\* execute(): one at a time per operation, and only what was prepared.
ExecuteStart(h, o) ==
    /\ \A x \in Handler : <<x, o>> \notin active
    /\ Allowed(session, o)
    /\ session.state[o] = "AWAITING_LOCAL_APPROVAL"
    /\ session.pending[o] # NoAction
    /\ Start(h, o, "approving", session)
    /\ active' = active \cup {<<h, o>>}
    /\ UNCHANGED <<disk, venue, history, crashes>>

\* The operator types the approval phrase, or something else (OPERATOR_CANCELLED).
Approve(h) ==
    /\ pc[h] = "approving"
    /\ Continue(h, "approved", snap[h])
    /\ UNCHANGED <<disk, venue, history, crashes>>

Cancel(h) ==
    /\ pc[h] = "approving"
    /\ Finish(h)
    /\ UNCHANGED <<disk, venue, history, crashes>>

\* Mutated form: the attempt is made whether or not its budget was spent.
AcquireBudgetUnguarded(h) ==
    /\ pc[h] = "approved"
    /\ IsRail(op[h]) => rail = Before(op[h])
    /\ spent' = spent \cup {Current(h)}
    /\ Continue(h, "acquired", snap[h])
    /\ UNCHANGED <<session, readable, mixed, prepared, signed, venue, history, crashes>>

\* acquireOneShotAttempt; before a rail write the public value is read again
\* and must be the one the operator reviewed.
AcquireBudget(h) ==
    /\ pc[h] = "approved"
    /\ IsRail(op[h]) => rail = Before(op[h])
    /\ Current(h) \notin spent
    /\ spent' = spent \cup {Current(h)}
    /\ Continue(h, "acquired", snap[h])
    /\ UNCHANGED <<session, readable, mixed, prepared, signed, venue, history, crashes>>

\* Mutated form: execute() without its finally block.
ExecuteFailsNoFinally(h) ==
    /\ pc[h] = "approved"
    /\ IsRail(op[h]) \/ Current(h) \in spent
    /\ pc' = [pc EXCEPT ![h] = "idle"]
    /\ op' = [op EXCEPT ![h] = 1]
    /\ snap' = [snap EXCEPT ![h] = NewSession]
    /\ UNCHANGED <<disk, active, venue, history, crashes>>

\* ONE_SHOT_BUDGET_SPENT or PAPERRAIL_APPROVAL_INVALIDATED.
ExecuteFails(h) ==
    /\ pc[h] = "approved"
    /\ IsRail(op[h]) \/ Current(h) \in spent
    /\ Finish(h)
    /\ UNCHANGED <<disk, venue, history, crashes>>

\* The detached signer returns a signature that verifies; it is kept (wx).
SignReturns(h) ==
    /\ pc[h] = "acquired"
    /\ Current(h)[2] = "SIGN"
    /\ effects' = [effects EXCEPT ![Current(h)] = @ + 1]
    /\ signed' = signed \cup {op[h]}
    /\ Continue(h, "saving", Recorded(snap[h], op[h], "SIGNED"))
    /\ UNCHANGED <<session, readable, mixed, prepared, spent, venue,
                   landed, uncertain, vague, crashes>>

\* The signer fails or its response is invalid; it may have signed all the same.
SignFails(h) ==
    /\ pc[h] = "acquired"
    /\ Current(h)[2] = "SIGN"
    /\ effects' \in {effects, [effects EXCEPT ![Current(h)] = @ + 1]}
    /\ Finish(h)
    /\ UNCHANGED <<disk, venue, landed, uncertain, vague, crashes>>

\* The one POST of the attempt goes on the wire.
Post(h) ==
    /\ pc[h] = "acquired"
    /\ Current(h)[2] # "SIGN"
    /\ effects' = [effects EXCEPT ![Current(h)] = @ + 1]
    /\ net' = net \cup {Current(h)}
    /\ Continue(h, "sent", snap[h])
    /\ UNCHANGED <<disk, answer, room, rail, shown, landed, uncertain, vague, crashes>>

\* 2xx is filed as an acknowledgement or a write receipt, 4xx as a rejection.
Filed(o, verdict) == IF verdict = "refused" THEN "REJECTED"
                     ELSE IF IsRail(o) THEN "WRITE_RECEIPT" ELSE "ACK_RECEIVED"

Answered(h, verdict) ==
    /\ pc[h] = "sent"
    /\ <<Current(h), verdict>> \in answer
    /\ answer' = answer \ {<<Current(h), verdict>>}
    /\ Continue(h, "saving", Recorded(snap[h], op[h], Filed(op[h], verdict)))
    /\ UNCHANGED <<disk, net, room, rail, shown, history, crashes>>

DropAnswer(h) == answer' = answer \ {<<Current(h), "ok">>, <<Current(h), "refused">>}

\* 408, 425, 429, or a 2xx whose body nobody checks: filed like the others, while
\* the POST may be on the wire, accepted or lost.
AnsweredVaguely(h, verdict) ==
    /\ pc[h] = "sent"
    /\ DropAnswer(h)
    /\ vague' = vague \cup {Current(h)}
    /\ Continue(h, "saving", Recorded(snap[h], op[h], Filed(op[h], verdict)))
    /\ UNCHANGED <<disk, net, room, rail, shown, effects, landed, uncertain, crashes>>

\* Mutated form: a POST without an answer is recorded as rejected.
NoAnswerRejected(h) ==
    /\ pc[h] = "sent"
    /\ DropAnswer(h)
    /\ uncertain' = uncertain \cup {Current(h)}
    /\ Continue(h, "saving", Recorded(snap[h], op[h], "REJECTED"))
    /\ UNCHANGED <<disk, net, room, rail, shown, effects, landed, vague, crashes>>

\* 5xx, a redirect, a broken connection: wherever the POST is, nobody knows.
NoAnswer(h) ==
    /\ pc[h] = "sent"
    /\ DropAnswer(h)
    /\ uncertain' = uncertain \cup {Current(h)}
    /\ Continue(h, "saving", Recorded(snap[h], op[h], "SUBMISSION_UNCERTAIN"))
    /\ UNCHANGED <<disk, net, room, rail, shown, effects, landed, vague, crashes>>

\* refresh(): only an operation that was sent is observed.
RefreshStart(h, o) ==
    /\ Allowed(session, o)
    /\ session.state[o] \in Observable
    /\ Start(h, o, "observing", session)
    /\ UNCHANGED <<disk, active, venue, history, crashes>>

\* executor.observe(): a failed read (non-2xx, unexpected shape) counts as a
\* read that found nothing.
Observe(h) == \E read \in BOOLEAN :
    LET exact == read /\ ExactlyPublic(op[h]) IN
    /\ pc[h] = "observing"
    /\ Continue(h, "saving", Observed(snap[h], op[h], exact))
    /\ UNCHANGED <<disk, venue, history, crashes>>

\* A room read that throws fails the request.
ObserveThrows(h) ==
    /\ pc[h] = "observing"
    /\ ~IsRail(op[h])
    /\ Finish(h)
    /\ UNCHANGED <<disk, venue, history, crashes>>

\* finalize(): all evidence first.
FinalizeStart(h) ==
    /\ \A o \in Operation : session.state[o] = "VERIFIED"
    /\ Start(h, 1, "saving", Finalized(session))
    /\ UNCHANGED <<disk, active, venue, history, crashes>>

\* saveSession(): writeFile opens and truncates, then writes.
OpenFile(h) ==
    /\ pc[h] = "saving"
    /\ readable' = FALSE
    /\ Continue(h, "writing", snap[h])
    /\ UNCHANGED <<session, mixed, prepared, signed, spent, venue, history, crashes>>

\* Over the bytes of another writer a shorter document leaves a tail behind.
WriteFile(h) ==
    /\ pc[h] = "writing"
    /\ session' = snap[h]
    /\ readable' \in IF h \in mixed THEN BOOLEAN ELSE {TRUE}
    /\ mixed' = (mixed \cup {x \in Handler : pc[x] = "writing"}) \ {h}
    /\ Finish(h)
    /\ UNCHANGED <<prepared, signed, spent, venue, history, crashes>>

-----------------------------------------------------------------------------
(***************************************************************************)
(* The venue, the world and the machine.                                   *)
(***************************************************************************)
Awaited(a) == \E h \in Handler : pc[h] = "sent" /\ Current(h) = a

Reply(a, verdict) == answer' = IF Awaited(a) THEN answer \cup {<<a, verdict>>} ELSE answer

\* Mutated form: the rail write is sent without its condition.
ConditionNeverSent(o) == TRUE

\* A rail write carries its condition: if_absent, or the value it replaces.
ConditionHolds(o) == IsRail(o) => rail = Before(o)

RailBecomes(v) == rail' = v /\ shown' = shown \cup {v}

Accept(a) ==
    /\ a \in net
    /\ ConditionHolds(a[1])
    /\ net' = net \ {a}
    /\ IF IsRail(a[1])
       THEN RailBecomes(After(a[1])) /\ UNCHANGED room
       ELSE room' = [room EXCEPT ![a[1]] = @ + 1] /\ UNCHANGED <<rail, shown>>
    /\ landed' = landed \cup {a}
    /\ Reply(a, "ok")
    /\ UNCHANGED <<disk, memory, effects, uncertain, vague, crashes>>

Refuse(a) ==
    /\ a \in net
    /\ net' = net \ {a}
    /\ Reply(a, "refused")
    /\ UNCHANGED <<disk, memory, room, rail, shown, history, crashes>>

Lose(a) ==
    /\ a \in net
    /\ net' = net \ {a}
    /\ UNCHANGED <<disk, memory, answer, room, rail, shown, history, crashes>>

\* PaperRail is world-writable: anybody may write any value, the expected one too.
ForeignWrite ==
    /\ \E v \in Written \ {rail} : RailBecomes(v)
    /\ UNCHANGED <<disk, memory, net, answer, room, history, crashes>>

\* The connector dies and is started again: only files and the venue remain.
Crash ==
    /\ crashes < MaxCrashes
    /\ \E h \in Handler : pc[h] # "idle"
    /\ crashes' = crashes + 1
    /\ pc' = [h \in Handler |-> "idle"]
    /\ op' = [h \in Handler |-> 1]
    /\ snap' = [h \in Handler |-> NewSession]
    /\ active' = {}
    /\ mixed' = {}
    /\ answer' = {}
    /\ UNCHANGED <<session, readable, prepared, signed, spent, net, room, rail, shown, history>>

\* What the program does by itself once a request is under way.
Work(h) == \/ PrepareArtifact(h) \/ PrepareFails(h)
           \/ AcquireBudget(h) \/ ExecuteFails(h) \/ Post(h)
           \/ \E verdict \in {"ok", "refused"} : Answered(h, verdict) \/ AnsweredVaguely(h, verdict)
           \/ NoAnswer(h)
           \/ Observe(h) \/ ObserveThrows(h)
           \/ OpenFile(h) \/ WriteFile(h)

\* The detached signer waits for its own confirmation and has no timeout.
Signer(h) == SignReturns(h) \/ SignFails(h)

Operator(h) == \/ \E o \in Operation : \/ PrepareStart(h, o) \/ ExecuteStart(h, o)
                                       \/ RefreshStart(h, o)
               \/ FinalizeStart(h) \/ Approve(h) \/ Cancel(h)

Venue == \/ \E a \in net : Accept(a) \/ Refuse(a) \/ Lose(a)
         \/ ForeignWrite

Next == \/ \E h \in Handler : Work(h) \/ Signer(h) \/ Operator(h)
        \/ Venue
        \/ Crash

Spec == Init /\ [][Next]_vars

\* Every other await of the program settles, fetch included (undici bounds it);
\* the operator, the signer and the venue owe nothing.
FairSpec == Spec /\ \A h \in Handler : WF_vars(Work(h))

-----------------------------------------------------------------------------
(***************************************************************************)
(* Properties.                                                             *)
(***************************************************************************)
\* The venue has accepted a message of the operation; the rail has had its exact
\* value, whoever wrote it: the note is unsigned and refresh() asks for no more.
Happened(o) == IF IsRail(o) THEN After(o) \in shown ELSE \E a \in landed : a[1] = o

\* Repeated, concurrent and crashed requests never cause the effect of one
\* attempt (a signature, a POST, a rail write) twice.
OneEffectPerAttempt == \A a \in Attempt : effects[a] <= 1

\* Nothing is signed, posted or written for an operation before every earlier
\* message was accepted by the venue and every earlier rail value was on the rail,
\* whatever stale snapshots are saved and whatever others write there.
PredecessorsHappened ==
    \A a \in Attempt : effects[a] > 0 => \A p \in 1 .. (a[1] - 1) : Happened(p)

\* What the session records of an attempt is what became of it, as far as the
\* answer told: its effect was caused; a POST on record as acknowledged or written
\* was accepted, one on record as rejected is not, and will not be, accepted.
\* Neither is so after a vague answer: the code files 408, 425 and 429 as REJECTED
\* and any 2xx as acknowledged, where docs/PHASE3B_FAILURE_MATRIX.md:28 has them
\* unknown.  Nothing is on record that the venue did not answer.
TrueRecord(s) ==
    \A r \in s.attempts :
        LET a == <<r.op, r.action>> IN
        /\ effects[a] = 1
        /\ r.result \in {"ACK_RECEIVED", "WRITE_RECEIPT"} => a \in landed \cup vague
        /\ r.result = "REJECTED" => a \notin landed \cup net \/ a \in vague

RecordedAttemptsAreTrue == TrueRecord(session)

\* A recovery reuses the signed operation, or repeats the rail write, only
\* when the first attempt really ended without an answer.
RecoveryOnlyAfterUncertain ==
    \A a \in Attempt : a[2] \in Recovery /\ effects[a] > 0
        => \E b \in uncertain : b[1] = a[1] /\ b[2] \notin Recovery

\* The name in engine.active keeps two executions of one operation apart, with
\* any prepare, refresh or finalize of the same operation in between.
Executing == {"approving", "approved", "acquired", "sent"}

ExclusiveExecution ==
    \A g, h \in Handler : g # h /\ pc[g] \in Executing /\ pc[h] \in Executing => op[g] # op[h]

\* readCompletedPublicRecord serves a record only when it is finalized and
\* complete; each message of such a record was accepted by the venue, and the rail
\* has had each of its values (if nobody else wrote them, by its own writes).
Served == readable /\ session.finalized /\ \A o \in Operation : session.state[o] = "COMPLETE"

ServedRecordHappened == Served => \A o \in Operation : Happened(o)

\* Of a first write of the rail lock that arrives late and its recovery, both sent
\* while the note was vacant, the venue takes only one.
OneRailLock == \A a, b \in landed :
    Steps[a[1]] = "RAIL_LOCK" /\ a[1] = b[1] => a = b

-----------------------------------------------------------------------------
(***************************************************************************)
(* The inductive invariant behind the order of the deal.                   *)
(***************************************************************************)
\* A session, on disk or in a request however stale, unlocks an operation only
\* after all earlier ones are final, and calls final only what happened.
Sound(s) ==
    /\ \A o \in Operation : s.state[o] # "BLOCKED"
          => \A p \in 1 .. (o - 1) : s.state[p] \in FinalStates
    /\ \A o \in Operation : s.state[o] \in FinalStates => Happened(o)

SessionsSound == Sound(session) /\ \A h \in Handler : Sound(snap[h])

\* What a request has checked of its own snapshot stays true of it.
RequestsChecked ==
    \A h \in Handler :
        /\ pc[h] = "preparing" => NextAction(snap[h], op[h]) # NoAction
        /\ pc[h] \in Executing =>
              /\ snap[h].state[op[h]] = "AWAITING_LOCAL_APPROVAL"
              /\ snap[h].pending[op[h]] # NoAction
              /\ <<h, op[h]>> \in active
        /\ pc[h] = "observing" => snap[h].state[op[h]] \in Observable

NamesUnique == \A g, h \in Handler, o \in Operation :
    <<g, o>> \in active /\ <<h, o>> \in active => g = h

\* What is in the room was accepted there, what is on the rail was on the rail.
EvidenceReal ==
    /\ \A o \in Operation : room[o] > 0 => \E a \in landed : a[1] = o
    /\ rail \in shown

\* A note that the deal has locked is never vacant again.
RailLockStands ==
    /\ \A a \in landed : Steps[a[1]] = "RAIL_LOCK" => rail # "VACANT"
    /\ OneRailLock

\* An effect needs a budget, and a budget just taken has had no effect.
BudgetsHeld ==
    /\ \A a \in Attempt : effects[a] > 0 => a \in spent
    /\ \A h \in Handler : pc[h] = "acquired" =>
          /\ Current(h) \in spent
          /\ effects[Current(h)] = 0
          /\ \A g \in Handler : pc[g] = "acquired" /\ Current(g) = Current(h) => g = h

\* A session offers a recovery only for what it records as uncertain, and what
\* it records as uncertain was.
Earned(s) ==
    /\ \A r \in s.attempts : r.result = "SUBMISSION_UNCERTAIN" => <<r.op, r.action>> \in uncertain
    /\ \A o \in Operation : s.recovery[o] \/ s.pending[o] \in Recovery
          => \E b \in uncertain : b[1] = o /\ b[2] \notin Recovery

\* What a session says of its attempts is true, on disk or in a request.
Honest(s) == TrueRecord(s) /\ Earned(s)

RecordsHonest == Honest(session) /\ \A h \in Handler : Honest(snap[h])

\* A POST is on the wire, accepted or neither; a definite answer says which.
AnswersHonest ==
    /\ \A h \in Handler : pc[h] = "sent" => effects[Current(h)] = 1
    /\ \A a \in net \cup landed : effects[a] = 1
    /\ \A a \in net : a \notin landed
    /\ \A a \in Attempt :
          /\ <<a, "ok">> \in answer => a \in landed
          /\ <<a, "refused">> \in answer => effects[a] = 1 /\ a \notin landed \cup net

Inductive ==
    /\ TypeOK
    /\ SessionsSound
    /\ RecordsHonest
    /\ AnswersHonest
    /\ RecoveryOnlyAfterUncertain
    /\ RequestsChecked
    /\ NamesUnique
    /\ EvidenceReal
    /\ RailLockStands
    /\ BudgetsHeld
    /\ OneEffectPerAttempt
    /\ PredecessorsHappened

-----------------------------------------------------------------------------
\* Old attempts remain in the session: nothing that is saved drops one.
AttemptsImmutable == [][session.attempts \subseteq session'.attempts]_session

\* A finalized session is never reopened, nor one of its operations taken back:
\* "The completed Flight Record is read-only" (README.md:55).  A request that read
\* the session before finalize() still saves it afterwards.
FinalizedStays ==
    [][session.finalized => session'.finalized /\ session'.state = session.state]_session

\* Rail operations need a write receipt as well as the exact public value.
RailNeedsReceipt ==
    \A o \in Operation : IsRail(o) /\ session.state[o] \in FinalStates
        => \E r \in session.attempts : r.op = o /\ r.result = "WRITE_RECEIPT"

\* A recovery is offered only by a request that found the record not public.
RecoveryOnlyIfAbsent ==
    [][\A h \in Handler :
          pc[h] = "observing" /\ pc'[h] = "saving" /\ snap'[h].recovery[op[h]]
             => ~ExactlyPublic(op[h])]_vars

\* Once the operator has approved a submission or a rail write, the request ends
\* and gives the name of its operation back, however it fails: a later execute
\* is not refused with ACTION_ALREADY_RUNNING for ever.
Running(h, o) == <<h, o>> \in active /\ pc[h] # "approving" /\ snap[h].pending[o] # "SIGN"

ApprovedExecutionEnds ==
    \A h \in Handler, o \in Operation : Running(h, o) ~> <<h, o>> \notin active
\* What is on record as rejected was not accepted, and will not be: the code files
\* every 4xx so (real-executor.mjs:130 and 146).
RejectedIsDefinite == \A r \in session.attempts :
    r.result = "REJECTED" => <<r.op, r.action>> \notin landed \cup net
=============================================================================
