-------------------------- MODULE MCAttemptBudget --------------------------
(***************************************************************************)
(* The attempt budget file operation by file operation, and the user of    *)
(* budgets it was made for: a whole deal, from the rail lock to the rail   *)
(* claim, worked on by one request at a time.  The two share no variable;  *)
(* `part' names the one that runs.                                         *)
(***************************************************************************)
EXTENDS AttemptBudget

VARIABLES part, session, readable, mixed, prepared, signed, spent, dealPc, op, snap,
          active, net, answer, room, rail, shown, effects, landed, uncertain, vague, crashes

deal == <<session, readable, mixed, prepared, signed, spent, dealPc, op, snap, active,
          net, answer, room, rail, shown, effects, landed, uncertain, vague, crashes>>

Deal == INSTANCE DealHub WITH
  Steps <- <<"RAIL_LOCK", "REVEAL", "RAIL_CLAIM">>, Handler <- {"h1"},
  NoAction <- NoIdentity, Written <- {"CLAIM"}, MaxCrashes <- 1,
  pc <- dealPc

BothInit == part \in {"budget", "deal"} /\ Init /\ Deal!Init

BothNext ==
  \/ part = "budget" /\ Next /\ UNCHANGED <<part, deal>>
  \/ part = "deal" /\ Deal!Next /\ UNCHANGED <<part, vars>>

BothSpec == BothInit /\ [][BothNext]_<<part, deal, vars>>

\* While one request at a time works on a deal, nothing that is saved drops an
\* attempt (saveSession; two requests do: DealHub's AttemptsImmutable).
AttemptsKept == Deal!AttemptsImmutable

\* The order of the deal, the truth of its records, its budgets and its public
\* evidence survive a crash at any await and a recovery after it (the engine over
\* session.json, the artifacts and the budgets on disk).
DealSurvivesCrash == Deal!Inductive
=============================================================================
