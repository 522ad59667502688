--------------------------- MODULE AttemptBudget ---------------------------
(***************************************************************************)
(* The durable one-shot attempt budget of blackbox/airlock/                *)
(* attempt-budget.mjs.  Each identity has one marker file; creating it     *)
(* with O_CREAT|O_EXCL is the transition AVAILABLE -> SPENT, and the       *)
(* record is written and fsynced before acquireOneShotAttempt returns to   *)
(* the caller, who then performs the irreversible operation.               *)
(*                                                                         *)
(* Several processes call it for the same identities.  A process may be    *)
(* killed between any two file operations, a write or the fsync may fail,  *)
(* and the machine may lose power, which the file system survives only as  *)
(* far as fsync promises: a marker that was not synced may come back in    *)
(* any earlier form, or not at all.                                        *)
(***************************************************************************)
EXTENDS Naturals

CONSTANTS Process, Identity, NoIdentity

ASSUME NoIdentityAssumption == NoIdentity \notin Identity

VARIABLES marker,    \* marker[i]: what is on disk at the marker path of identity i
          synced,    \* the identities whose marker fsync has completed
          pc,        \* where each process stands inside acquireOneShotAttempt
          subject,   \* the identity the process is acquiring
          performed  \* history: how often the guarded operation of i has run

vars == <<marker, synced, pc, subject, performed>>

\* The forms of a marker file, in the order its creator brings them about.
Forms == {"ABSENT", "EMPTY", "PARTIAL", "RECORD"}

Earlier(form) ==
    CASE form = "ABSENT"  -> {"ABSENT"}
      [] form = "EMPTY"   -> {"ABSENT", "EMPTY"}
      [] form = "PARTIAL" -> {"ABSENT", "EMPTY", "PARTIAL"}
      [] form = "RECORD"  -> Forms

PCs == {"idle", "opening", "created", "writing", "written", "cleared", "refused"}

TypeOK ==
    /\ marker \in [Identity -> Forms]
    /\ synced \subseteq Identity
    /\ pc \in [Process -> PCs]
    /\ subject \in [Process -> Identity \cup {NoIdentity}]
    /\ performed \in [Identity -> Nat]

\* inspectOneShotAttempt: absence is the only open state, every other form is SPENT.
Available(i) == marker[i] = "ABSENT"

Finding(i) ==
    CASE marker[i] = "EMPTY"   -> "SPENT_STATE_TRUNCATED"
      [] marker[i] = "PARTIAL" -> "SPENT_STATE_UNREADABLE"
      [] OTHER                 -> "NONE"

Goto(p, label) == pc' = [pc EXCEPT ![p] = label]

Init ==
    /\ marker = [i \in Identity |-> "ABSENT"]
    /\ synced = {}
    /\ pc = [p \in Process |-> "idle"]
    /\ subject = [p \in Process |-> NoIdentity]
    /\ performed = [i \in Identity |-> 0]

-----------------------------------------------------------------------------
\* A caller reaches its irreversible boundary for identity i; mkdirSync(root) succeeds.
Begin(p, i) ==
    /\ pc[p] \in {"idle", "refused"}
    /\ Goto(p, "opening")
    /\ subject' = [subject EXCEPT ![p] = i]
    /\ UNCHANGED <<marker, synced, performed>>

\* Mutated form: the marker is opened with 'w', after an advisory look at most.
CreateMarkerShared(p) ==
    /\ pc[p] = "opening"
    /\ marker' = [marker EXCEPT ![subject[p]] = "EMPTY"]
    /\ Goto(p, "created")
    /\ UNCHANGED <<synced, subject, performed>>

\* openSync(path, 'wx'): the kernel lets exactly one creator through.
CreateMarker(p) ==
    /\ pc[p] = "opening"
    /\ Available(subject[p])
    /\ marker' = [marker EXCEPT ![subject[p]] = "EMPTY"]
    /\ Goto(p, "created")
    /\ UNCHANGED <<synced, subject, performed>>

\* EEXIST, EISDIR, EPERM, EACCES: ONE_SHOT_BUDGET_SPENT.
RefuseSpent(p) ==
    /\ pc[p] = "opening"
    /\ ~Available(subject[p])
    /\ Goto(p, "refused")
    /\ UNCHANGED <<marker, synced, subject, performed>>

\* The root or the marker cannot be created at all: ONE_SHOT_BUDGET_STATE_UNUSABLE.
RefuseUnusable(p) ==
    /\ pc[p] = "opening"
    /\ Goto(p, "refused")
    /\ UNCHANGED <<marker, synced, subject, performed>>

\* writeSync reaches the file in more than one piece.
WritePart(p) ==
    /\ pc[p] = "created"
    /\ marker' = [marker EXCEPT ![subject[p]] = "PARTIAL"]
    /\ Goto(p, "writing")
    /\ UNCHANGED <<synced, subject, performed>>

WriteRest(p) ==
    /\ pc[p] = "writing"
    /\ marker' = [marker EXCEPT ![subject[p]] = "RECORD"]
    /\ Goto(p, "written")
    /\ UNCHANGED <<synced, subject, performed>>

\* Mutated form: the caller goes on before the record is written and synced.
SyncMarkerEarly(p) ==
    /\ pc[p] \in {"created", "writing", "written"}
    /\ Goto(p, "cleared")
    /\ UNCHANGED <<marker, synced, subject, performed>>

\* fsyncSync, closeSync, and the return to the caller: the attempt is granted.
SyncMarker(p) ==
    /\ pc[p] = "written"
    /\ synced' = synced \cup {subject[p]}
    /\ Goto(p, "cleared")
    /\ UNCHANGED <<marker, subject, performed>>

\* writeSync or fsyncSync throws: the caller never gets its grant, the marker stays.
RecordFails(p) ==
    /\ pc[p] \in {"created", "writing", "written"}
    /\ Goto(p, "refused")
    /\ UNCHANGED <<marker, synced, subject, performed>>

\* The caller's irreversible operation: a signature, a POST, a rail write.
Perform(p) ==
    /\ pc[p] = "cleared"
    /\ performed' = [performed EXCEPT ![subject[p]] = @ + 1]
    /\ Goto(p, "idle")
    /\ subject' = [subject EXCEPT ![p] = NoIdentity]
    /\ UNCHANGED <<marker, synced>>

-----------------------------------------------------------------------------
\* The process is killed at whatever point it has reached.
Kill(p) ==
    /\ pc[p] # "idle"
    /\ Goto(p, "idle")
    /\ subject' = [subject EXCEPT ![p] = NoIdentity]
    /\ UNCHANGED <<marker, synced, performed>>

\* Power loss stops every process and may undo what was not fsynced.
PowerLoss ==
    /\ pc' = [p \in Process |-> "idle"]
    /\ subject' = [p \in Process |-> NoIdentity]
    /\ marker' \in {m \in [Identity -> Forms] :
                      \A i \in Identity : m[i] \in IF i \in synced THEN {marker[i]}
                                                   ELSE Earlier(marker[i])}
    /\ UNCHANGED <<synced, performed>>

Next == \/ \E p \in Process, i \in Identity : Begin(p, i)
        \/ \E p \in Process : \/ CreateMarker(p) \/ RefuseSpent(p) \/ RefuseUnusable(p)
                              \/ WritePart(p) \/ WriteRest(p) \/ SyncMarker(p)
                              \/ RecordFails(p) \/ Perform(p) \/ Kill(p)
        \/ PowerLoss

Spec == Init /\ [][Next]_vars

-----------------------------------------------------------------------------
\* Across processes, kills, failed writes and power loss, the operation an
\* identity guards runs at most once: the reason this module replaced the
\* process-local permit book.
AtMostOnce == \A i \in Identity : performed[i] <= 1

\* The record a later refusal shows the operator is complete for every
\* operation that ran: what TRUNCATED and UNREADABLE report never happened.
PerformedIsRecorded ==
    \A i \in Identity : performed[i] > 0 => Finding(i) = "NONE" /\ ~Available(i)

\* The inductive invariant: a process past the exclusive create is the only
\* one for its identity, the operation has not run yet, and only a synced
\* marker clears the caller.
Creating == {"created", "writing", "written", "cleared"}

Inductive ==
    /\ TypeOK
    /\ \A p \in Process : pc[p] \notin {"idle", "refused"} => subject[p] \in Identity
    /\ \A p \in Process : pc[p] \in Creating =>
          /\ marker[subject[p]] = CASE pc[p] = "created" -> "EMPTY"
                                    [] pc[p] = "writing" -> "PARTIAL"
                                    [] OTHER             -> "RECORD"
          /\ performed[subject[p]] = 0
          /\ pc[p] = "cleared" <=> subject[p] \in synced
          /\ \A q \in Process : pc[q] \in Creating /\ subject[q] = subject[p] => q = p
    /\ \A i \in synced : marker[i] = "RECORD"
    /\ \A i \in Identity : performed[i] > 0 => performed[i] = 1 /\ i \in synced

-----------------------------------------------------------------------------
\* Refinement: the budget is spent, for its users, when the fsync returns.
Holding(p) == IF pc[p] = "cleared" THEN subject[p] ELSE NoIdentity

Promise == INSTANCE OneShot WITH spent <- synced,
                                 holds <- [p \in Process |-> Holding(p)]

\* The marker-file protocol implements the one-shot budget its callers rely on.
ImplementsOneShot == Promise!Spec
=============================================================================
