------------------------------- MODULE Replay -------------------------------
(***************************************************************************)
(* The offline replay of a transcript (core/replay.mjs) and the forensic   *)
(* projections of it (core/model.mjs): the flight path, the boundary at a  *)
(* frame and the rail lane.                                                *)
(*                                                                         *)
(* Transitions of the contract belong to the pinned upstream library; what *)
(* docs/PHASE3B_PUBLIC_FOOTPRINT.md says of its frames stands for it here. *)
(* A line is read at a time, so every state is a whole shorter replay.     *)
(***************************************************************************)
EXTENDS Naturals, Sequences

CONSTANTS Line,         \* the lines a transcript may have: [type, from, good]
          Clock,        \* evaluation times
          RefundAfter,  \* the time the refund opens
          MaxLines      \* bound on the length of a transcript

Status == {"none", "proposed", "accepted", "locked", "claimed", "refunded", "cancelled"}
TERMINAL == {"claimed", "refunded", "cancelled"}
Types == {"offer", "accept", "lock", "reveal", "refund", "cancel", "receipt", "heartbeat",
          "malformed"}
Actors == {"payer", "payee", "nobody"}

VARIABLES schedule,  \* whether each frame has an evaluation time of its own
          nowMs,     \* the evaluation time
          contract,  \* the status of the contract
          steps      \* the evidence: one step per line

vars == <<schedule, nowMs, contract, steps>>

Step == [type : Types, actor : Actors, ok : BOOLEAN, before : Status, after : Status]

Init ==
  /\ schedule \in BOOLEAN /\ nowMs \in Clock
  /\ contract = "none" /\ steps = << >>

-----------------------------------------------------------------------------
\* The pinned upstream library.

\* The status an accepted frame leads to.
Outcome(l) ==
  CASE l.type = "offer" -> "proposed" [] l.type = "accept" -> "accepted"
    [] l.type = "lock" -> "locked" [] l.type = "reveal" -> "claimed"
    [] l.type = "refund" -> "refunded" [] l.type = "cancel" -> "cancelled"
    [] OTHER -> contract

Lawful(l, at) ==
  CASE l.type = "accept" -> contract = "proposed" /\ l.from = "payee"
    [] l.type = "lock" -> contract = "accepted" /\ l.from = "payer" /\ at < RefundAfter
    [] l.type = "reveal" -> contract = "locked" /\ l.from = "payee" /\ l.good
    [] l.type = "refund" -> contract = "locked" /\ l.from = "payer" /\ at >= RefundAfter
    [] l.type = "cancel" -> contract \in {"proposed", "accepted"}
    [] l.type = "receipt" -> contract \in TERMINAL /\ l.good
    [] l.type = "heartbeat" -> TRUE
    [] OTHER -> FALSE

-----------------------------------------------------------------------------
\* replay.

\* Mutated form: without a schedule the clock runs as well.
RunningClock(at) == at >= nowMs

\* A schedule gives each frame its time, never an earlier one; without one the
\* clock stands still.
evaluationClock(at) == IF schedule THEN at >= nowMs ELSE at = nowMs

\* A line that does not decode is rejected, the first offer opens the
\* contract, and whatever follows is applied to it.
Accepted(l, at) ==
  IF contract = "none" THEN l.type = "offer" ELSE Lawful(l, at)

\* Mutated form: a rejected frame leaves its mark as well.
AfterAnyway(l, at) == Outcome(l)

After(l, at) == IF Accepted(l, at) THEN Outcome(l) ELSE contract

replay == \E l \in Line, at \in Clock :
  /\ Len(steps) < MaxLines /\ evaluationClock(at)
  /\ nowMs' = at /\ UNCHANGED schedule
  /\ contract' = After(l, at)
  /\ steps' = Append(steps, [type |-> l.type, actor |-> l.from, ok |-> Accepted(l, at),
                             before |-> contract, after |-> contract'])

Next == replay

Spec == Init /\ [][Next]_vars

-----------------------------------------------------------------------------
\* The projections of a replay r.

Frames(r) == 1 .. Len(r)

Decoded(r, type) == \E i \in Frames(r) : r[i].type = type

\* The terminal statuses that accepted frames reached.
Observed(r) == {r[i].after : i \in {i \in Frames(r) : r[i].ok}} \cap TERMINAL

\* Mutated form: the frames that decode choose the route.
RouteByDecoded(r) ==
  IF Decoded(r, "cancel") THEN <<"proposed", "cancelled">>
  ELSE IF Decoded(r, "refund") THEN <<"proposed", "accepted", "locked", "refunded">>
  ELSE IF Decoded(r, "reveal") THEN <<"proposed", "accepted", "locked", "claimed">>
  ELSE <<"proposed", "accepted", "locked">>

\* The nodes of the path: towards the terminal status that was reached, else
\* towards one that a rejected frame aimed at.
routeFor(r) ==
  LET aimed(status, type) == status \in Observed(r) \/ (Observed(r) = {} /\ Decoded(r, type))
  IN  IF aimed("cancelled", "cancel") THEN <<"proposed", "cancelled">>
      ELSE IF aimed("refunded", "refund") THEN <<"proposed", "accepted", "locked", "refunded">>
      ELSE IF aimed("claimed", "reveal") THEN <<"proposed", "accepted", "locked", "claimed">>
      ELSE <<"proposed", "accepted", "locked">>

\* Mutated form: the frames that come later count as well.
ReachedByAny(r, n, status) == {i \in Frames(r) : r[i].ok /\ r[i].after = status}

\* The frames up to n that reached a status.
ReachedBy(r, n, status) == {i \in 1 .. n : r[i].ok /\ r[i].after = status}

\* The flight path as it is drawn at frame n.
flightPath(r, n) ==
  [k \in 1 .. Len(routeFor(r)) |->
     LET status == routeFor(r)[k]
         by == ReachedBy(r, n, status)
     IN  [status  |-> status,
          reached |-> by # {},
          at      |-> IF by = {} THEN 0 ELSE CHOOSE i \in by : \A j \in by : i <= j,
          current |-> status = r[n].after]]

\* Mutated form: an accepted frame advances the contract.
AdvancedIfAccepted(r, n) == r[n].ok

\* What the boundary of frame n says of the state.
stateAdvanced(r, n) == r[n].ok /\ r[n].before # r[n].after

\* Mutated form: a rejected lock is marked as well.
MarksOfDecoded(r, n) == {i \in 1 .. n : r[i].type = "lock"}

\* The locks on the rail lane of frame n.
RailMarks(r, n) == {i \in 1 .. n : r[i].ok /\ r[i].type = "lock"}

-----------------------------------------------------------------------------
\* Properties.  A replay without an offer throws, and nothing is drawn.

Drawn == contract # "none"

TypeOK ==
  /\ contract \in Status /\ schedule \in BOOLEAN /\ nowMs \in Clock
  /\ steps \in Seq(Step)

\* The chain of evidence: each step starts where the one before it ended, and a
\* rejected frame ends where it started.
Chain ==
  /\ \A i \in Frames(steps) :
       /\ steps[i].before = IF i = 1 THEN "none" ELSE steps[i - 1].after
       /\ ~steps[i].ok => steps[i].after = steps[i].before
  /\ contract = IF steps = << >> THEN "none" ELSE steps[Len(steps)].after

\* How far a contract is.
rank == [none |-> 0, proposed |-> 1, accepted |-> 2, locked |-> 3,
         claimed |-> 4, refunded |-> 4, cancelled |-> 4]

\* Where a status is entered from.
Before(s) ==
  CASE s = "proposed" -> {"none"} [] s = "accepted" -> {"proposed"}
    [] s = "locked" -> {"accepted"} [] s \in {"claimed", "refunded"} -> {"locked"}
    [] s = "cancelled" -> {"proposed", "accepted"} [] OTHER -> {}

\* A step that enters a status; a lock is entered by a lock alone.
Enters(e, s) ==
  /\ e.ok /\ e.after = s /\ e.before \in Before(s)
  /\ e.type = "lock" <=> s = "locked"

\* A contract goes on from status to status, each entered once, and keeps the
\* one it ended with.
HistoryInOrder ==
  /\ \A i \in Frames(steps) :
       /\ \/ steps[i].after = steps[i].before /\ ~(steps[i].ok /\ steps[i].type = "lock")
          \/ Enters(steps[i], steps[i].after)
       /\ steps[i].after # "none" => \E j \in 1 .. i : Enters(steps[j], steps[i].after)
  /\ \A i, j \in Frames(steps) : i <= j => rank[steps[i].after] <= rank[steps[j].after]
  /\ \A i, j \in Frames(steps) :
       i <= j /\ steps[i].after \in TERMINAL => steps[j].after = steps[i].after

\* Without a schedule, the time of the only evaluation is before the refund.
ClockInOrder == ~schedule =>
  contract # "refunded" /\ (contract = "locked" => nowMs < RefundAfter)

Inductive == TypeOK /\ Chain /\ HistoryInOrder /\ ClockInOrder

\* At every frame the path is a history: nodes are reached one after the
\* other, none is skipped, and the current one is the last that was reached.
PathIsHistory == Drawn => \A n \in Frames(steps) :
  LET path == flightPath(steps, n)
  IN  \A k \in DOMAIN path :
        /\ path[k].reached /\ k > 1 => path[k - 1].reached /\ path[k - 1].at < path[k].at
        /\ path[k].current => path[k].reached /\ \A m \in DOMAIN path : m > k => ~path[m].reached

\* A contract that ended is shown as ended, in the way it ended, whatever
\* frames came in vain before or after.
EndIsShown == contract \in TERMINAL =>
  LET path == flightPath(steps, Len(steps))
  IN  path[Len(path)].status = contract /\ path[Len(path)].current

\* Scrubbing shows an advance exactly between two frames whose reconstructed
\* states differ.
AdvanceIsAChange == \A n \in Frames(steps) : n > 1 =>
  (stateAdvanced(steps, n) <=> steps[n].after # steps[n - 1].after)

\* The rail lane has one lock, and only of a contract that was locked.
OneLockMark == \A n \in Frames(steps) :
  /\ \A i, j \in RailMarks(steps, n) : i = j
  /\ RailMarks(steps, n) # {} <=> \E i \in 1 .. n : steps[i].after = "locked"

\* With one evaluation time for the whole transcript no contract is refunded:
\* what could be locked then cannot be refunded yet (replay.mjs, nowMs without
\* a schedule).
FlatClockNeverRefunds == ~schedule => contract # "refunded"

\* The node of the present state is on the path, at every frame
\* (BLACKBOX_ARCHITECTURE.md: rejected steps preserve the current node).
CurrentIsShown == Drawn => \A n \in Frames(steps) :
  steps[n].after # "none" =>
    \E k \in DOMAIN flightPath(steps, n) : flightPath(steps, n)[k].current
=============================================================================
