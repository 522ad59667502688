------------------------------ MODULE Lineage ------------------------------
(***************************************************************************)
(* The superseding Phase 3B lineages (phase3b-s2.mjs) and the export of    *)
(* their completed capsule (export-public-phase3b-capsule.mjs).            *)
(*                                                                         *)
(* Every command is a process of its own, started by hand.  What they      *)
(* share is a directory of evidence files, each created once with the wx   *)
(* flag, the one-shot budgets, and the public venue.  Several commands may *)
(* run at a time, and one may die at any await, or while it writes a file, *)
(* which then stays torn: no reader can parse it and no writer replaces it.*)
(*                                                                         *)
(* The recovery of the first write exists in the final lineage only; in    *)
(* the other one nothing of the rest differs.  Hashes and bindings of the  *)
(* records are not modelled: a file is either what its writer meant or     *)
(* torn.                                                                   *)
(***************************************************************************)
EXTENDS Naturals, Sequences

CONSTANTS Order,    \* the steps of the lineage, in publication order
          Process   \* the commands that may run at a time

RailSteps == {"RAIL_LOCK", "RAIL_CLAIM"}
SignedSteps == {"OFFER", "ACCEPT", "LOCK", "REVEAL"}

ASSUME OrderAssumption ==
  Order \in Seq(RailSteps \cup SignedSteps) /\ Len(Order) > 0 /\ Order[1] \in SignedSteps

Operation == 1 .. Len(Order)
RailOps == {o \in Operation : Order[o] \in RailSteps}
SignedOps == Operation \ RailOps

\* One budget per operation and kind of attempt.
Attempt == (SignedOps \X {"SIGN", "SUBMIT"}) \cup {<<1, "SUBMIT2">>} \cup (RailOps \X {"WRITE"})
Posts == {a \in Attempt : a[2] # "SIGN"}

\* The evidence files of an operation; <<0, "capsule">> is the sealed one.
Kinds == {"pending", "submit", "submit2", "observation", "corrected", "reconciliation",
          "receipt", "railobservation"}
Capsule == <<0, "capsule">>
File == (Operation \X Kinds) \cup {Capsule}

PublicMatches == {"ONE_MATCH", "TWO_MATCHES"}
Content == PublicMatches \cup
  {"missing", "torn", "written", "ACK_RECEIVED", "REJECTED", "UNCERTAIN", "UNCERTAIN_500",
   "ABSENT", "MATCH", "MISMATCH", "INVALID", "EXPORTABLE", "SEALED"}

Notes == {"vacant", "locked", "claimed", "foreign"}
Expected(o) == IF Order[o] = "RAIL_LOCK" THEN "locked" ELSE "claimed"
Before(o) == IF Order[o] = "RAIL_LOCK" THEN "vacant" ELSE "locked"

\* How many of the capsule, its hash and its readme are complete.
PublicFiles == {"none", "some", "all"}

VARIABLES disk,      \* the evidence files
          spent,     \* the one-shot budgets taken
          proc,      \* the commands in progress
          net,       \* the fate of each POST
          copies,    \* copies of a signed message the room retains
          note,      \* the value of the PaperRail key
          taken,     \* the operations the venue has taken
          exported   \* which files under evidence/public are complete

vars == <<disk, spent, proc, net, copies, note, taken, exported>>

Pcs == {"IDLE", "PROMPT", "SIGNING", "POSTING", "EXPORT", "WRITING"}
NoAttempt == <<0, "NONE">>
Idle == [pc |-> "IDLE", att |-> NoAttempt, seen |-> "vacant", files |-> {}]

\* A command: where it is, what it attempts, the note it saw before the
\* prompt, and the files it has left to write.
Command == [pc    : Pcs,
            att   : Attempt \cup {NoAttempt} \cup (SignedOps \X {"OBSERVE"}),
            seen  : Notes,
            files : SUBSET (File \X Content)]

TypeOK ==
  /\ disk \in [File -> Content]
  /\ spent \subseteq Attempt
  /\ proc \in [Process -> Command]
  /\ net \in [Posts -> {"unsent", "flying", "applied", "refused"}]
  /\ copies \in [SignedOps -> 0 .. 2]
  /\ note \in Notes
  /\ taken \subseteq Operation
  /\ exported \in PublicFiles

Init ==
  /\ disk = [f \in File |-> "missing"]
  /\ spent = {}
  /\ proc = [p \in Process |-> Idle]
  /\ net = [a \in Posts |-> "unsent"]
  /\ copies = [o \in SignedOps |-> 0]
  /\ note = "vacant"
  /\ taken = {}
  /\ exported = "none"

-----------------------------------------------------------------------------
\* What the evidence says.

\* The observation that stands for a signed operation: the corrected one once
\* the reconciliation that names it is on disk.
Effective(o) ==
  LET first == disk[<<o, "observation">>]
      corrected == disk[<<o, "corrected">>]
  IN  CASE corrected = "missing" \/ disk[<<o, "reconciliation">>] = "missing" -> first
        [] first = "ABSENT" /\ disk[<<o, "reconciliation">>] = "written"
             /\ corrected \in PublicMatches -> corrected
        [] OTHER -> "torn"

ObservedPublic(o) ==
  IF o \in RailOps
  THEN disk[<<o, "railobservation">>] = "MATCH" /\ disk[<<o, "receipt">>] = "written"
  ELSE Effective(o) \in PublicMatches

\* Mutated form: a submitted predecessor is enough.
PredecessorSubmitted(o) ==
  o > 1 => ObservedPublic(o - 1) \/ disk[<<o - 1, "submit">>] # "missing"

PredecessorPublic(o) == o > 1 => ObservedPublic(o - 1)

\* Mutated form: absence alone allows the second attempt.
RecoveryWithoutEvidence == disk[<<1, "pending">>] = "written"

RecoveryEligible ==
  /\ disk[<<1, "pending">>] = "written"
  /\ disk[<<1, "submit">>] = "UNCERTAIN_500"
  /\ disk[<<1, "observation">>] = "ABSENT"
  /\ <<1, "SUBMIT">> \in spent

\* What a command checks before it asks the operator.
Ready(a) ==
  /\ a \notin spent
  /\ CASE a[2] = "SIGN"    -> PredecessorPublic(a[1]) /\ disk[<<a[1], "pending">>] = "missing"
       [] a[2] = "SUBMIT"  -> /\ PredecessorPublic(a[1])
                              /\ disk[<<a[1], "pending">>] = "written"
                              /\ disk[<<a[1], "submit">>] = "missing"
       [] a[2] = "SUBMIT2" -> RecoveryEligible /\ disk[<<1, "submit2">>] = "missing"
       [] a[2] = "WRITE"   -> PredecessorPublic(a[1]) /\ note = Before(a[1])

-----------------------------------------------------------------------------
\* The commands.

Goes(p, step) == proc' = [proc EXCEPT ![p] = step]

Write(p, files) ==
  Goes(p, IF files = {} THEN Idle ELSE [Idle EXCEPT !.pc = "WRITING", !.files = files])

Start(p) == \E a \in Attempt :
  /\ proc[p].pc = "IDLE" /\ Ready(a)
  /\ Goes(p, [Idle EXCEPT !.pc = "PROMPT", !.att = a, !.seen = note])
  /\ UNCHANGED <<disk, spent, net, copies, note, taken, exported>>

\* Mutated form: the budget inspected before the prompt is trusted after it.
GrantStale(a) == spent' = spent \cup {a}

\* Acquiring a budget: the marker decides, whatever was inspected before.
Grant(a) == a \notin spent /\ spent' = spent \cup {a}

\* The operator approved.  A rail write reads the note a second time and
\* insists on the same occupancy; then the budget is taken and the request sent.
Approve(p) ==
  LET a == proc[p].att
  IN  /\ proc[p].pc = "PROMPT"
      /\ a[2] = "WRITE" => PredecessorPublic(a[1]) /\ note = proc[p].seen /\ note = Before(a[1])
      /\ Grant(a)
      /\ IF a[2] = "SIGN"
         THEN Goes(p, [proc[p] EXCEPT !.pc = "SIGNING"]) /\ UNCHANGED net
         ELSE Goes(p, [proc[p] EXCEPT !.pc = "POSTING"]) /\ net' = [net EXCEPT ![a] = "flying"]
      /\ UNCHANGED <<disk, copies, note, taken, exported>>

Signed(p) ==
  /\ proc[p].pc = "SIGNING"
  /\ Write(p, {<<<<proc[p].att[1], "pending">>, "written">>})
  /\ UNCHANGED <<disk, spent, net, copies, note, taken, exported>>

\* The statuses a POST may be answered with; "none" is a failed transport.
Statuses(fate) == {"408", "500", "503", "none"} \cup
  (CASE fate = "applied" -> {"200"} [] fate = "refused" -> {"400"} [] OTHER -> {})

Classified(status) ==
  CASE status = "200" -> "ACK_RECEIVED"
    [] status \in {"400", "408"} -> "REJECTED"
    [] status = "500" -> "UNCERTAIN_500"
    [] OTHER -> "UNCERTAIN"

\* Mutated form: any answer confirms the write.
AnyAnswer(status) == status # "none"

Confirms(status) == status = "200"

\* A signed POST always leaves a result; a rail write leaves a receipt, and
\* nothing when it was not confirmed.
Answered(p) ==
  LET o == proc[p].att[1]
  IN  /\ proc[p].pc = "POSTING"
      /\ \E status \in Statuses(net[proc[p].att]) :
           CASE proc[p].att[2] = "SUBMIT"  -> Write(p, {<<<<o, "submit">>, Classified(status)>>})
             [] proc[p].att[2] = "SUBMIT2" -> Write(p, {<<<<o, "submit2">>, Classified(status)>>})
             [] OTHER -> Write(p, IF Confirms(status) THEN {<<<<o, "receipt">>, "written">>} ELSE {})
      /\ UNCHANGED <<disk, spent, net, copies, note, taken, exported>>

Matches(n) == CASE n = 0 -> "ABSENT" [] n = 1 -> "ONE_MATCH" [] OTHER -> "TWO_MATCHES"

\* Mutated form: any later observation is taken as a correction.
ReconciledAlways(o, found) ==
  IF disk[<<o, "observation">>] = "missing" THEN {<<<<o, "observation">>, found>>}
  ELSE {w \in {<<<<o, "corrected">>, found>>, <<<<o, "reconciliation">>, "written">>} :
          disk[w[1]] = "missing"}

\* Where an observation goes: the first one is kept for good; a later one is
\* taken only when it finds what the first did not, beside the record that
\* explains the difference.
Reconciled(o, found) ==
  CASE disk[<<o, "observation">>] = "missing" -> {<<<<o, "observation">>, found>>}
    [] /\ disk[<<o, "observation">>] = "ABSENT" /\ found \in PublicMatches
       /\ disk[<<o, "corrected">>] \in PublicMatches \cup {"missing"} ->
         {w \in {<<<<o, "corrected">>, found>>, <<<<o, "reconciliation">>, "written">>} :
            disk[w[1]] = "missing"}
    [] OTHER -> {}

\* The room is read first; the export is read when the page shows no match.
ObserveRoom(p) == \E o \in SignedOps :
  /\ proc[p].pc = "IDLE"
  /\ disk[<<o, "submit">>] # "missing" /\ disk[<<o, "pending">>] = "written"
  /\ \/ \E n \in 1 .. copies[o] : Write(p, Reconciled(o, Matches(n)))
     \/ Goes(p, [Idle EXCEPT !.pc = "EXPORT", !.att = <<o, "OBSERVE">>])
  /\ UNCHANGED <<disk, spent, net, copies, note, taken, exported>>

ObserveExport(p) ==
  LET o == proc[p].att[1]
  IN  /\ proc[p].pc = "EXPORT"
      /\ Write(p, Reconciled(o, Matches(copies[o])))
      /\ UNCHANGED <<disk, spent, net, copies, note, taken, exported>>

\* The note may be unreadable; whatever is found is written down for good.
ObserveRail(p) == \E o \in RailOps, readable \in BOOLEAN :
  /\ proc[p].pc = "IDLE" /\ disk[<<o, "receipt">>] = "written"
  /\ Write(p, {<<<<o, "railobservation">>,
       CASE ~readable \/ note = "vacant" -> "INVALID"
         [] note = Expected(o) -> "MATCH" [] OTHER -> "MISMATCH">>})
  /\ UNCHANGED <<disk, spent, net, copies, note, taken, exported>>

\* Mutated form: the capsule is built from whatever was observed so far.
AllObservedSoFar == \A o \in SignedOps : ObservedPublic(o)

AllObserved == \A o \in Operation : ObservedPublic(o)

Finalize(p) ==
  /\ proc[p].pc = "IDLE" /\ AllObserved
  /\ Write(p, {<<Capsule, IF \A o \in SignedOps : Effective(o) = "ONE_MATCH"
                            THEN "EXPORTABLE" ELSE "SEALED">>})
  /\ UNCHANGED <<disk, spent, net, copies, note, taken, exported>>

\* The file a command writes next: a reconciliation comes after the
\* observation it names.
NextWrite(p) ==
  {w \in proc[p].files : w[1][2] = "reconciliation" => proc[p].files = {w}}

\* persist: the file is created or the command throws.
WriteFile(p) ==
  /\ proc[p].pc = "WRITING"
  /\ \E w \in NextWrite(p) :
       IF disk[w[1]] = "missing"
       THEN disk' = [disk EXCEPT ![w[1]] = w[2]] /\ Write(p, proc[p].files \ {w})
       ELSE UNCHANGED disk /\ Goes(p, Idle)
  /\ UNCHANGED <<spent, net, copies, note, taken, exported>>

\* The command throws, is cancelled or is killed; a file it was writing may
\* stay torn.
Stop(p) ==
  /\ proc[p].pc # "IDLE" /\ Goes(p, Idle)
  /\ \/ UNCHANGED disk
     \/ \E w \in NextWrite(p) :
          disk[w[1]] = "missing" /\ disk' = [disk EXCEPT ![w[1]] = "torn"]
  /\ UNCHANGED <<spent, net, copies, note, taken, exported>>

\* Mutated form: the number of exact matches is not looked at.
ExportableAny == disk[Capsule] \in {"EXPORTABLE", "SEALED"}

Exportable == disk[Capsule] = "EXPORTABLE"

\* Three files are rewritten at once; a run that dies leaves some incomplete.
Export == \E done \in PublicFiles :
  /\ Exportable /\ exported' = done
  /\ UNCHANGED <<disk, spent, proc, net, copies, note, taken>>

-----------------------------------------------------------------------------
\* The venue.

Arrive(a) ==
  /\ net[a] = "flying"
  /\ \/ /\ a[2] = "WRITE" /\ note = Before(a[1])
        /\ note' = Expected(a[1]) /\ UNCHANGED copies
        /\ net' = [net EXCEPT ![a] = "applied"] /\ taken' = taken \cup {a[1]}
     \/ /\ a[2] # "WRITE"
        /\ copies' = [copies EXCEPT ![a[1]] = @ + 1] /\ UNCHANGED note
        /\ net' = [net EXCEPT ![a] = "applied"] /\ taken' = taken \cup {a[1]}
     \/ /\ a[2] = "WRITE" => note # Before(a[1])
        /\ net' = [net EXCEPT ![a] = "refused"] /\ UNCHANGED <<copies, note, taken>>
  /\ UNCHANGED <<disk, spent, proc, exported>>

\* The room retains recent messages only.
Evict(o) ==
  /\ copies[o] > 0 /\ copies' = [copies EXCEPT ![o] = 0]
  /\ UNCHANGED <<disk, spent, proc, net, note, taken, exported>>

\* The key is world-writable.
ForeignWrite ==
  /\ \E v \in Notes \ {"vacant", note} : note' = v
  /\ UNCHANGED <<disk, spent, proc, net, copies, taken, exported>>

Next ==
  \/ \E p \in Process :
       \/ Start(p) \/ Approve(p) \/ Signed(p) \/ Answered(p) \/ ObserveRoom(p)
       \/ ObserveExport(p) \/ ObserveRail(p) \/ Finalize(p) \/ WriteFile(p) \/ Stop(p)
  \/ Export
  \/ \E a \in Posts : Arrive(a)
  \/ \E o \in SignedOps : Evict(o)
  \/ ForeignWrite

Spec == Init /\ [][Next]_vars

-----------------------------------------------------------------------------
\* Properties.

Staged == INSTANCE StagedLineage WITH
  Length <- Len(Order), reached <- taken, sealed <- disk[Capsule] \in {"EXPORTABLE", "SEALED"}

\* A command is where its attempt belongs, and its files wait for their turn.
CommandsInOrder == \A p \in Process :
  /\ proc[p].pc = "PROMPT" => proc[p].att \in Attempt
  /\ proc[p].pc = "SIGNING" => proc[p].att \in SignedOps \X {"SIGN"}
  /\ proc[p].pc = "POSTING" => proc[p].att \in Posts /\ net[proc[p].att] # "unsent"
  /\ proc[p].pc = "EXPORT" => proc[p].att \in SignedOps \X {"OBSERVE"}
  /\ proc[p].pc # "WRITING" => proc[p].files = {}

\* A request that is under way, or about to be.
UnderWay(a) ==
  net[a] = "flying" \/ \E p \in Process : proc[p].pc \in {"PROMPT", "POSTING"} /\ proc[p].att = a

\* What was posted has spent its budget, and a copy has an attempt of its own.
Delivered(o) ==
  (IF net[<<o, "SUBMIT">>] = "applied" THEN 1 ELSE 0)
  + (IF o = 1 /\ net[<<1, "SUBMIT2">>] = "applied" THEN 1 ELSE 0)
BudgetsInOrder ==
  /\ \A a \in Posts : net[a] # "unsent" => a \in spent
  /\ \A o \in SignedOps : copies[o] <= Delivered(o)

\* Whatever the venue took, or may still take, comes after all before it.
StepsInOrder ==
  /\ \A o \in taken : 1 .. o \subseteq taken
  /\ \A a \in Posts :
       /\ UnderWay(a) => 1 .. a[1] - 1 \subseteq taken
       /\ net[a] = "applied" => a[1] \in taken

\* What a file says, on disk or about to be written, has happened.
Founded(f, v) ==
  /\ f[2] \in {"observation", "corrected"} /\ v \in PublicMatches => f[1] \in taken
  /\ f[2] = "receipt" /\ v = "written" => f[1] \in taken
  /\ f = <<1, "submit">> => net[<<1, "SUBMIT">>] # "unsent"
  /\ f[2] \in {"corrected", "reconciliation"} => disk[<<f[1], "observation">>] = "ABSENT"
  /\ f = Capsule /\ v \in {"EXPORTABLE", "SEALED"} => AllObserved
  /\ f = Capsule /\ v = "EXPORTABLE" => \A o \in SignedOps : Effective(o) = "ONE_MATCH"
FilesFounded ==
  /\ \A f \in File : disk[f] # "missing" => Founded(f, disk[f])
  /\ \A p \in Process : \A w \in proc[p].files : Founded(w[1], w[2])
  /\ exported # "none" => disk[Capsule] = "EXPORTABLE"

\* The second attempt is made only on the evidence it asks for, which stays.
RecoveryFounded ==
  net[<<1, "SUBMIT2">>] # "unsent" \/ UnderWay(<<1, "SUBMIT2">>) =>
    disk[<<1, "submit">>] = "UNCERTAIN_500" /\ disk[<<1, "observation">>] = "ABSENT"

\* Why the evidence can be trusted: what it says has happened, and a request
\* is under way only after everything before it.
Inductive ==
  TypeOK /\ CommandsInOrder /\ BudgetsInOrder /\ StepsInOrder /\ FilesFounded /\ RecoveryFounded

\* The lineage is staged: whatever commands run at a time, die or get late
\* answers, an operation becomes public only after all before it, and the
\* capsule is complete only over a transcript that is.
ImplementsStages == Staged!StagedSpec

\* A message is in its room at most once, except the first one, twice, after
\* its recovery: a prompt answered late, a crash or a command run twice never
\* posts again.
OneCopyPerBudget == \A o \in SignedOps :
  copies[o] <= 1 \/ (o = 1 /\ <<1, "SUBMIT2">> \in spent)

\* The second attempt was made only for a first one that was answered with
\* the server's error and then looked for in vain.
RecoveryRestsOnEvidence ==
  net[<<1, "SUBMIT2">>] # "unsent" =>
    /\ disk[<<1, "submit">>] = "UNCERTAIN_500" /\ disk[<<1, "observation">>] = "ABSENT"
    /\ net[<<1, "SUBMIT">>] # "unsent"

\* Evidence is never lost: what was observed as public stays so for every
\* later command, whatever else is written, torn or dropped by the venue.
ObservationsStand == [][\A o \in Operation : ObservedPublic(o) => ObservedPublic(o)']_vars

\* What the evidence calls public was taken by the venue, and the note it
\* calls written was written by this lineage.
EvidenceIsTrue == \A o \in Operation : ObservedPublic(o) => o \in taken

\* Nothing is exported unless every message was found exactly once.
ExportedOnce ==
  exported # "none" => \A o \in Operation : ObservedPublic(o) /\ (o \in SignedOps => Effective(o) = "ONE_MATCH")

\* The evidence on disk holds, with what it rests on, at every step of every
\* command (phase3b-s2.mjs, the checks around its writes).
EvidenceHolds == Inductive /\ EvidenceIsTrue /\ RecoveryRestsOnEvidence /\ ExportedOnce

\* A rejected submission never becomes public.
RejectedIsDefinite == \A o \in SignedOps :
  disk[<<o, "submit">>] = "REJECTED" => net[<<o, "SUBMIT">>] # "applied"

\* Once no command is working on it, a spent submission has left the result
\* that its observation and its recovery ask for.
UncertainCanBeReconciled == \A o \in SignedOps :
  /\ <<o, "SUBMIT">> \in spent
  /\ \A p \in Process : proc[p].att # <<o, "SUBMIT">> /\ proc[p].files = {}
  => disk[<<o, "submit">>] # "missing"

\* A reconciled observation was a false negative: the message was public from
\* its first attempt, and only the observer missed it.
ReconciledWasFalseNegative ==
  disk[<<1, "reconciliation">>] = "written" => net[<<1, "SUBMIT">>] = "applied"
=============================================================================
