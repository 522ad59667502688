------------------------------ MODULE Journey ------------------------------
(***************************************************************************)
(* The first production journey of Phase 3B: submission and observation    *)
(* (phase3b-submit-observe.mjs), signing (phase3b2-cli.mjs), the PaperRail *)
(* controller (phase3b-rail.mjs) and the capsule (phase3b-finalize.mjs).   *)
(*                                                                         *)
(* It differs from the later lineages where it matters: an observation     *)
(* replaces the one before it, write 2 may stand on evidence of retention  *)
(* instead of an observation, write 3 carries two earlier attempts that    *)
(* nothing explains, and the first observation of a rail is the only one.  *)
(* Pending, result and observation files are renamed into place, so a crash *)
(* leaves the old file or the new one.  What the rail and the capsule leave *)
(* is created with the wx flag and then written: a crash between leaves it  *)
(* torn for good, since no reader can parse it and no writer replaces it.   *)
(***************************************************************************)
EXTENDS Naturals, Sequences

CONSTANTS Active,   \* the operations the operator works on
          Left,     \* what earlier releases left behind
          Begun,    \* the signed operations already observed as public
          Process   \* the commands that may run at a time

Order == <<"W1", "W2", "W3", "W5", "W4", "W6">>
Operation == {Order[i] : i \in 1 .. Len(Order)}
RailOps == {"W5", "W6"}
SignedOps == Operation \ RailOps

Predecessor(o) == CHOOSE d \in Operation :
  \E i \in 1 .. Len(Order) - 1 : Order[i] = d /\ Order[i + 1] = o

ASSUME ActiveAssumption == Active \subseteq Operation /\ Begun \subseteq SignedOps /\ Left \subseteq
  {"attempt1 of W1", "attempt1 of W3", "attempt2 of W3", "observation of W5"}
\* The operations were observed one after the other.
ASSUME BegunAssumption == \A o \in Begun \ {"W1"} : Predecessor(o) \in Begun

\* Evidence files.  "production" is the observation of a rail write.
Kinds == {"pending", "result", "observation", "reconciliation", "receipt", "production"}
Capsule == <<"ALL", "capsule">>
Exclusive == (RailOps \X {"receipt", "production"}) \cup {<<"W5", "reconciliation">>, Capsule}
File == (Operation \X Kinds) \cup {Capsule}
Content == {"missing", "torn", "written", "ACK_RECEIVED", "REJECTED", "SUBMISSION_UNCERTAIN",
            "OBSERVED_PUBLIC", "PROVEN_ABSENT", "RETENTION",
            "PREEXISTING", "MISMATCH", "INVALID"}

Attempt == (SignedOps \X {"SIGN", "SUBMIT"}) \cup (RailOps \X {"WRITE"})
Posts == {a \in Attempt : a[2] # "SIGN"}
Notes == {"vacant", "locked", "claimed", "foreign"}
Expected(o) == IF o = "W5" THEN "locked" ELSE "claimed"
Before(o) == IF o = "W5" THEN "vacant" ELSE "locked"

VARIABLES disk,     \* the evidence files
          spent,    \* the one-shot budgets taken
          proc,     \* the commands in progress
          net,      \* the fate of each POST
          copies,   \* copies of a signed message its room retains
          note,     \* the value of the PaperRail key
          taken     \* the operations the venue has taken

vars == <<disk, spent, proc, net, copies, note, taken>>

NoAttempt == <<"ALL", "NONE">>
Idle == [pc |-> "IDLE", att |-> NoAttempt, seen |-> "vacant", found |-> FALSE,
         file |-> Capsule, says |-> "missing"]

\* A command: where it is, what it attempts, the note and whether the message
\* was seen, the file it has created and what it is going to say.
Command == [pc    : {"IDLE", "PROMPT", "CALLING", "EXPORT", "SAVING", "WRITING"},
            att   : Attempt \cup {NoAttempt} \cup (Operation \X {"OBSERVE"}),
            seen  : Notes,
            found : BOOLEAN,
            file  : File,
            says  : Content]

TypeOK ==
  /\ disk \in [File -> Content]
  /\ spent \subseteq Attempt
  /\ proc \in [Process -> Command]
  /\ net \in [Posts -> {"unsent", "flying", "applied", "refused"}]
  /\ copies \in [SignedOps -> 0 .. 2]
  /\ note \in Notes
  /\ taken \subseteq Operation

\* The signatures the earlier attempts sent are kept, and nobody knows whether
\* the second one at write 3 reached its room.
Init ==
  /\ spent = (Begun \X {"SIGN", "SUBMIT"}) \cup
       {<<o, "SIGN">> : o \in {o \in {"W1", "W3"} :
          (IF o = "W1" THEN "attempt1 of W1" ELSE "attempt1 of W3") \in Left}}
  /\ disk = [f \in File |->
       CASE f[2] = "pending" /\ <<f[1], "SIGN">> \in spent -> "written"
         [] f[2] = "observation" /\ f[1] \in Begun -> "OBSERVED_PUBLIC"
         [] OTHER -> "missing"]
  /\ proc = [p \in Process |-> Idle]
  /\ net = [a \in Posts |-> IF a[1] \in Begun THEN "applied" ELSE "unsent"]
  /\ copies \in {c \in [SignedOps -> 0 .. 1] :
       \A o \in SignedOps : c[o] = 1 => o = "W3" /\ "attempt2 of W3" \in Left}
  /\ taken = Begun \cup {o \in SignedOps : copies[o] = 1}
  /\ note = "vacant"

-----------------------------------------------------------------------------
\* What the evidence allows.

\* Mutated form: a submission satisfies the next operation.
DependencyOrResult(o) == o # "W1" =>
  \/ disk[<<Predecessor(o), "observation">>] = "OBSERVED_PUBLIC"
  \/ disk[<<Predecessor(o), "result">>] # "missing"

Dependency(o) == o # "W1" =>
  \/ disk[<<Predecessor(o), "observation">>] = "OBSERVED_PUBLIC"
  \/ o = "W3" /\ disk[<<"W2", "observation">>] = "RETENTION"

RailObserved(o) ==
  disk[<<o, "production">>] = "OBSERVED_PUBLIC" /\ disk[<<o, "receipt">>] = "written"

\* The claim looks for the lock on the rail, not for the reveal before it.
RailDependency(o) == IF o = "W5" THEN Dependency(o) ELSE RailObserved("W5")

\* Mutated form: the unexplained rejection of write 3 is tried again.
Attempt3Retried == "attempt2 of W3" \in Left

\* The preserved request passes every gate that can be reproduced, so its
\* rejection is not explained and a third attempt is refused.
Attempt3Eligible == FALSE

\* Whether an operation may be submitted at all: write 1 only as a second
\* attempt after the rejected first one, write 3 only as a third.
Eligible(o) ==
  CASE o = "W1" -> "attempt1 of W1" \in Left
    [] o = "W3" -> /\ disk[<<o, "reconciliation">>] = "written" /\ "attempt2 of W3" \in Left
                   /\ Dependency(o) /\ disk[<<o, "observation">>] # "OBSERVED_PUBLIC"
                   /\ Attempt3Eligible
    [] OTHER    -> Dependency(o)

WriteEligible(o) == RailDependency(o) /\ note = Before(o)

SignReady(o) ==
  disk[<<o, "pending">>] = "missing" /\ Dependency(o) /\ <<o, "SIGN">> \notin spent

SubmitReady(o) ==
  disk[<<o, "pending">>] = "written" /\ Eligible(o) /\ <<o, "SUBMIT">> \notin spent

Ready(a) ==
  CASE a[2] = "SIGN" -> SignReady(a[1]) [] a[2] = "SUBMIT" -> SubmitReady(a[1])
    [] OTHER -> WriteEligible(a[1])

-----------------------------------------------------------------------------
\* The commands.

Goes(p, step) == proc' = [proc EXCEPT ![p] = step]
Saved(f, c) == disk' = [disk EXCEPT ![f] = c]

\* Mutated form: the file is opened with w, and what it held is gone.
CreatedOver(p, f, c) ==
  Saved(f, "torn") /\ Goes(p, [Idle EXCEPT !.pc = "WRITING", !.file = f, !.says = c])

\* persistExclusive: the command creates the file or throws.
Created(p, f, c) ==
  IF disk[f] = "missing"
  THEN Saved(f, "torn") /\ Goes(p, [Idle EXCEPT !.pc = "WRITING", !.file = f, !.says = c])
  ELSE UNCHANGED disk /\ Goes(p, Idle)

Start(p) == \E a \in Attempt :
  /\ proc[p].pc = "IDLE" /\ a[1] \in Active /\ Ready(a)
  /\ Goes(p, [Idle EXCEPT !.pc = "PROMPT", !.att = a, !.seen = note])
  /\ UNCHANGED <<disk, spent, net, copies, note, taken>>

\* Mutated form: the budget inspected before the prompt is trusted after it.
GrantStale(a) == spent' = spent \cup {a}

Grant(a) == a \notin spent /\ spent' = spent \cup {a}

\* The operator approved: the rail is read again, then the marker decides.
Approve(p) ==
  LET a == proc[p].att
  IN  /\ proc[p].pc = "PROMPT"
      /\ a[2] = "WRITE" => WriteEligible(a[1]) /\ note = proc[p].seen
      /\ Grant(a)
      /\ Goes(p, [proc[p] EXCEPT !.pc = "CALLING"])
      /\ net' = IF a[2] = "SIGN" THEN net ELSE [net EXCEPT ![a] = "flying"]
      /\ UNCHANGED <<disk, copies, note, taken>>

Signed(p) ==
  /\ proc[p].pc = "CALLING" /\ proc[p].att[2] = "SIGN"
  /\ Saved(<<proc[p].att[1], "pending">>, "written")
  /\ Goes(p, Idle)
  /\ UNCHANGED <<spent, net, copies, note, taken>>

Statuses(fate) == {"429", "500", "none"} \cup
  (CASE fate = "applied" -> {"200"} [] fate = "refused" -> {"400"} [] OTHER -> {})

classifyResponse(status) ==
  CASE status = "200" -> "ACK_RECEIVED" [] status = "400" -> "REJECTED"
    [] OTHER -> "SUBMISSION_UNCERTAIN"

\* Mutated form: a receipt is written for any answer.
ReceiptFor(status) == status # "none"

Confirms(status) == status = "200"

Answered(p) ==
  LET o == proc[p].att[1]
  IN  /\ proc[p].pc = "CALLING" /\ proc[p].att[2] # "SIGN"
      /\ \E status \in Statuses(net[proc[p].att]) :
           IF proc[p].att[2] = "WRITE" /\ Confirms(status) THEN Created(p, <<o, "receipt">>, "written")
           ELSE /\ Goes(p, Idle)
                /\ IF proc[p].att[2] = "SUBMIT" THEN Saved(<<o, "result">>, classifyResponse(status))
                   ELSE UNCHANGED disk
      /\ UNCHANGED <<spent, net, copies, note, taken>>

\* A page of the room may miss a message the room retains; the export does
\* not.  No evidence of a submission is asked for.
ObserveRoom(p) == \E o \in (SignedOps \cap Active) \ {"W1"} :
  /\ proc[p].pc = "IDLE" /\ disk[<<o, "pending">>] = "written"
  /\ \/ copies[o] > 0 /\ Goes(p, [Idle EXCEPT !.pc = "SAVING", !.att = <<o, "OBSERVE">>, !.found = TRUE])
     \/ Goes(p, [Idle EXCEPT !.pc = "EXPORT", !.att = <<o, "OBSERVE">>])
  /\ UNCHANGED <<disk, spent, net, copies, note, taken>>

ObserveExport(p) ==
  /\ proc[p].pc = "EXPORT"
  /\ Goes(p, [proc[p] EXCEPT !.pc = "SAVING", !.found = copies[proc[p].att[1]] > 0])
  /\ UNCHANGED <<disk, spent, net, copies, note, taken>>

\* What was not found is absent, except write 2, which is recorded as
\* acknowledged and no longer retained.
Observed(o, found) ==
  CASE found -> "OBSERVED_PUBLIC" [] o = "W2" -> "RETENTION" [] OTHER -> "PROVEN_ABSENT"

ObserveSave(p) ==
  LET o == proc[p].att[1]
  IN  /\ proc[p].pc = "SAVING" /\ o \in SignedOps
      /\ Saved(<<o, "observation">>, Observed(o, proc[p].found))
      /\ Goes(p, Idle)
      /\ UNCHANGED <<spent, net, copies, note, taken>>

\* A note that cannot be read counts like a vacant one.
RailRead(p) == \E o \in RailOps \cap Active, seen \in {note, "vacant"} :
  /\ proc[p].pc = "IDLE"
  /\ Goes(p, [Idle EXCEPT !.pc = "SAVING", !.att = <<o, "OBSERVE">>, !.seen = seen])
  /\ UNCHANGED <<disk, spent, net, copies, note, taken>>

\* Mutated form: the exact value is enough, whoever wrote it.
RailClassifiedByValue(o, seen) ==
  IF seen = "vacant" THEN "INVALID"
  ELSE IF seen # Expected(o) THEN "MISMATCH" ELSE "OBSERVED_PUBLIC"

RailClassified(o, seen) ==
  IF seen = "vacant" THEN "INVALID"
  ELSE IF seen # Expected(o) THEN "MISMATCH"
  ELSE IF disk[<<o, "receipt">>] = "written" THEN "OBSERVED_PUBLIC" ELSE "PREEXISTING"

\* A receipt that cannot be parsed stops the observation.
RailSave(p) ==
  LET o == proc[p].att[1]
  IN  /\ proc[p].pc = "SAVING" /\ o \in RailOps /\ disk[<<o, "receipt">>] # "torn"
      /\ Created(p, <<o, "production">>, RailClassified(o, proc[p].seen))
      /\ UNCHANGED <<spent, net, copies, note, taken>>

\* reconcileMissingWrite3Receipt, from the spent marker of the first attempt.
ReconcileWrite3 ==
  /\ "attempt1 of W3" \in Left /\ disk[<<"W3", "pending">>] = "written"
  /\ Saved(<<"W3", "reconciliation">>, "written")
  /\ UNCHANGED <<spent, proc, net, copies, note, taken>>

\* The observation that no receipt supports is set aside, never reused.
QuarantineRail(p) ==
  /\ proc[p].pc = "IDLE"
  /\ "observation of W5" \in Left /\ disk[<<"W5", "receipt">>] = "missing"
  /\ Created(p, <<"W5", "reconciliation">>, "written")
  /\ UNCHANGED <<spent, net, copies, note, taken>>

\* Mutated form: the receipts of the rail are not looked at.
CompleteBySignatures == \A o \in {"W1", "W3", "W4"} :
  disk[<<o, "observation">>] = "OBSERVED_PUBLIC"

Complete ==
  /\ \A o \in {"W1", "W3", "W4"} : disk[<<o, "observation">>] = "OBSERVED_PUBLIC"
  /\ disk[<<"W2", "observation">>] = "RETENTION"
  /\ \A o \in RailOps : RailObserved(o)

Finalize(p) ==
  /\ proc[p].pc = "IDLE" /\ Complete /\ Created(p, Capsule, "written")
  /\ UNCHANGED <<spent, net, copies, note, taken>>

WriteFile(p) ==
  /\ proc[p].pc = "WRITING" /\ Saved(proc[p].file, proc[p].says) /\ Goes(p, Idle)
  /\ UNCHANGED <<spent, net, copies, note, taken>>

\* The command throws, is cancelled or is killed; a file that it has created
\* stays torn.
Stop(p) ==
  /\ proc[p].pc # "IDLE" /\ Goes(p, Idle)
  /\ UNCHANGED <<disk, spent, net, copies, note, taken>>

\* Two observations reach the place where the next operation looks for them
\* only by hand: the one of write 1 is printed, the one of write 5 is saved
\* with the rail.
SaveByHand(o) ==
  /\ \/ o = "W1" /\ copies[o] > 0 /\ disk[<<o, "pending">>] = "written"
     \/ o = "W5" /\ disk[<<o, "production">>] = "OBSERVED_PUBLIC"
  /\ o \in Active /\ Saved(<<o, "observation">>, "OBSERVED_PUBLIC")
  /\ UNCHANGED <<spent, proc, net, copies, note, taken>>

-----------------------------------------------------------------------------
\* The venue.

Arrive(a) ==
  /\ net[a] = "flying"
  /\ \/ /\ IF a[2] = "WRITE"
           THEN note = Before(a[1]) /\ note' = Expected(a[1]) /\ UNCHANGED copies
           ELSE copies' = [copies EXCEPT ![a[1]] = @ + 1] /\ UNCHANGED note
        /\ net' = [net EXCEPT ![a] = "applied"] /\ taken' = taken \cup {a[1]}
     \/ /\ a[2] = "WRITE" => note # Before(a[1])
        /\ net' = [net EXCEPT ![a] = "refused"] /\ UNCHANGED <<copies, note, taken>>
  /\ UNCHANGED <<disk, spent, proc>>

Evict(o) ==
  /\ copies[o] > 0 /\ copies' = [copies EXCEPT ![o] = 0]
  /\ UNCHANGED <<disk, spent, proc, net, note, taken>>

\* Others write the note; it is looked at only by the operations of the rail.
ForeignWrite ==
  /\ RailOps \cap Active # {}
  /\ \E v \in Notes \ {"vacant"} : note' = v
  /\ UNCHANGED <<disk, spent, proc, net, copies, taken>>

Next ==
  \/ \E p \in Process :
       \/ Start(p) \/ Approve(p) \/ Signed(p) \/ Answered(p) \/ ObserveRoom(p)
       \/ ObserveExport(p) \/ ObserveSave(p) \/ RailRead(p) \/ RailSave(p)
       \/ QuarantineRail(p) \/ Finalize(p) \/ WriteFile(p) \/ Stop(p)
  \/ ReconcileWrite3
  \/ \E o \in {"W1", "W5"} : SaveByHand(o)
  \/ \E a \in Posts : Arrive(a)
  \/ \E o \in SignedOps : Evict(o)
  \/ ForeignWrite

Spec == Init /\ [][Next]_vars
-----------------------------------------------------------------------------
\* Properties.

\* A message is never posted twice: a command run twice, a prompt answered
\* late, a killed submission or the retry of an unexplained rejection never
\* makes a second copy of it.
OneCopy == \A o \in SignedOps : copies[o] <= 1

\* What the evidence calls public was taken by the venue, and the values of
\* the rail it calls public were written by this journey.
EvidenceIsTrue == \A o \in Operation :
  disk[<<o, "observation">>] = "OBSERVED_PUBLIC" \/ disk[<<o, "production">>] = "OBSERVED_PUBLIC"
    => o \in taken

\* Writes 2, 4 and 5 become public only after the operation before them.  The
\* claim on the rail becomes public only after the lock and after write 3: it
\* looks for the lock and not for the reveal before it, which may come later.
\* Write 1 is the first, and earlier releases sent writes 1 and 3 already, so
\* nothing is said of what came before these.
PublicInOrder ==
  /\ \A o \in taken \ {"W1", "W3", "W6"} : Predecessor(o) \in taken
  /\ "W6" \in taken => {"W3", "W5"} \subseteq taken

\* The capsule is complete only over a transcript that is public, write 2
\* apart, whose retention gap it declares.
CapsuleIsTrue == disk[Capsule] = "written" => Operation \ {"W2"} \subseteq taken

-----------------------------------------------------------------------------
\* Why the evidence can be trusted: what it calls public was taken, on disk or
\* about to be written.
EvidenceFollowsVenue ==
  /\ \A o \in SignedOps :
       /\ copies[o] > 0 => o \in taken
       /\ \A p \in Process :
            proc[p].pc = "SAVING" /\ proc[p].att = <<o, "OBSERVE">> /\ proc[p].found => o \in taken
  /\ \A o \in RailOps : disk[<<o, "receipt">>] = "written" => o \in taken
  /\ \A a \in Posts : net[a] = "applied" => a[1] \in taken

\* What a file of the rail, or the capsule, is going to say.
Founded(f, c) ==
  /\ f \in Exclusive /\ c \notin {"missing", "torn"}
  /\ f = Capsule => \A o \in RailOps : RailObserved(o)
  /\ f = Capsule => Operation \ {"W2"} \subseteq taken
  /\ f[2] = "receipt" \/ c = "OBSERVED_PUBLIC" => f[1] \in taken

\* Each file is written by the command that created it, and by nobody else.
WritersInOrder == \A p \in Process : proc[p].pc = "WRITING" =>
  /\ Founded(proc[p].file, proc[p].says) /\ disk[proc[p].file] = "torn"
  /\ \A q \in Process \ {p} : proc[q].pc = "WRITING" => proc[q].file # proc[p].file

\* A command is about an attempt, or about the observation of an operation.
CommandsInOrder == \A p \in Process :
  /\ proc[p].pc \in {"PROMPT", "CALLING"} => proc[p].att \in Attempt \ {<<"W3", "SUBMIT">>}
  /\ proc[p].pc = "EXPORT" => proc[p].att \in SignedOps \X {"OBSERVE"}
  /\ proc[p].pc = "SAVING" => proc[p].att \in Operation \X {"OBSERVE"}

\* A request is under way, or was, only after what it depends on.
Begins(a) == net[a] # "unsent" \/ \E p \in Process : proc[p].pc = "PROMPT" /\ proc[p].att = a
RequestsInOrder ==
  /\ \A a \in Posts \ {<<"W1", "SUBMIT">>, <<"W3", "SUBMIT">>, <<"W6", "WRITE">>} :
       Begins(a) => Predecessor(a[1]) \in taken
  /\ Begins(<<"W6", "WRITE">>) => "W5" \in taken /\ RailObserved("W5")

\* What was sent has its budget, and what is not yet applied has no copy; only
\* the earlier attempt at write 3 has no such account.
PostsAccounted ==
  /\ \A a \in Posts : net[a] # "unsent" => a \in spent
  /\ \A o \in SignedOps \ {"W3"} : net[<<o, "SUBMIT">>] \in {"unsent", "flying"} => copies[o] = 0
  /\ net[<<"W3", "SUBMIT">>] # "flying"

\* The rail is claimed only on a receipt and an observation of the lock that
\* are complete, and they stay so, whichever commands repeat, overlap or die
\* while they write: at no later time is the claim, or a complete capsule,
\* without the evidence it was built on.  (The observation of a signed message
\* has no such promise, see PredecessorStaysPublic.)
RailEvidenceStands ==
  /\ net[<<"W6", "WRITE">>] # "unsent" => RailObserved("W5")
  /\ disk[Capsule] = "written" => \A o \in RailOps : RailObserved(o)

Inductive ==
  /\ TypeOK
  /\ EvidenceFollowsVenue
  /\ EvidenceIsTrue
  /\ CommandsInOrder
  /\ RequestsInOrder
  /\ PostsAccounted
  /\ OneCopy
  /\ PublicInOrder
  /\ CapsuleIsTrue
  /\ WritersInOrder
  /\ RailEvidenceStands
-----------------------------------------------------------------------------

\* The preimage, which the claim on the rail carries, is published only after
\* the reveal.
SecretOnlyAfterReveal == "W6" \in taken => "W4" \in taken

\* Evidence of retention rests on an acknowledged submission.
RetentionRestsOnAck ==
  disk[<<"W2", "observation">>] = "RETENTION" => net[<<"W2", "SUBMIT">>] # "unsent"

\* The evidence an operation was built on stays: once the rail is locked, the
\* message it waited for is on record as public, and never as absent.
PredecessorStaysPublic ==
  disk[<<"W5", "receipt">>] = "written" => disk[<<"W3", "observation">>] = "OBSERVED_PUBLIC"
=============================================================================
