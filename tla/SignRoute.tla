----------------------------- MODULE SignRoute -----------------------------
(***************************************************************************)
(* The two routes to the detached signer: runDetachedSigningRoute of       *)
(* airlock/real-route.mjs, which the tests run with fixture custody and    *)
(* which refuses real custody, and runRealSign of phase3b2-cli.mjs.  Both  *)
(* take the operator's phrase, spend a durable budget and hand over        *)
(* through invokeDetachedBridge of airlock/detached-bridge.mjs, which      *)
(* checks the signer's worktree, writes a request file and waits for a     *)
(* child process.                                                          *)
(*                                                                         *)
(* Several routes run at a time; one may be killed between any two steps,  *)
(* and the child it started goes on; the worktree may move at any time.    *)
(* The marker file that spends a budget is AttemptBudget's and one step    *)
(* here.                                                                   *)
(***************************************************************************)
EXTENDS Naturals

CONSTANTS Process,
          SharedRoot  \* TRUE if the fixture routes are given one budget root

\* What is run: a fixture or a real rehearsal, or a signature of the manifest.
Kind == {"FIXTURE", "RETIRED", "PHASE3B"}
Pcs == {"IDLE", "PROMPT", "CHECK", "BRIDGE", "CHILD", "VERIFY"}
Worktree == {"reviewed", "dirty", "other"}

\* The identity that is spent: its purpose and subject, and for a fixture
\* route without a root a throw-away directory of the process.
Budget == {"manifest", "shared"} \cup Process
BudgetOf(p, k) ==
  IF k = "PHASE3B" THEN "manifest" ELSE IF SharedRoot THEN "shared" ELSE p

VARIABLES pc, kind,
          spent,      \* the budgets spent
          file,       \* the processes whose request file is on disk
          child,      \* the child of each process: what it did, and under which commit
          found,      \* the worktree as the bridge of each process found it
          worktree,   \* the signer's worktree
          killed,     \* the processes that were killed
          signatures, \* history: the signatures made for each budget
          delivered   \* the worktrees a returned signature was started and made under

vars == <<pc, kind, spent, file, child, found, worktree, killed, signatures, delivered>>

Child == {"none", "asking", "refused"} \cup Worktree

TypeOK ==
  /\ pc \in [Process -> Pcs] /\ kind \in [Process -> Kind]
  /\ spent \subseteq Budget /\ file \subseteq Process
  /\ child \in [Process -> Child] /\ found \in [Process -> Worktree \cup {"none"}]
  /\ worktree \in Worktree /\ killed \subseteq Process
  /\ signatures \in [Budget -> Nat]
  /\ delivered \subseteq Worktree \X Worktree

Init ==
  /\ pc = [p \in Process |-> "IDLE"] /\ kind = [p \in Process |-> "FIXTURE"]
  /\ spent = {} /\ file = {} /\ child = [p \in Process |-> "none"]
  /\ found = [p \in Process |-> "none"]
  /\ worktree = "reviewed" /\ killed = {}
  /\ signatures = [b \in Budget |-> 0] /\ delivered = {}

Goto(p, label) == pc' = [pc EXCEPT ![p] = label]

\* Gate A: the coupled mode is refused, and real custody without a human.
gateA(mode, realCustody, humanApproved) ==
  mode = "DETACHED_NETWORK_FREE_ROOM_OPERATION" /\ (realCustody => humanApproved)

\* Real custody of the retired rehearsal is refused before anything else.
assertPhase3a4r4RealPathClosed(k) == k # "RETIRED"

\* A route starts on a terminal; the manifest's also needs its budget unspent.
Begin(p) ==
  \E k \in Kind :
    /\ pc[p] = "IDLE" /\ child[p] = "none" /\ p \notin killed
    /\ assertPhase3a4r4RealPathClosed(k)
    /\ IF k = "PHASE3B" THEN worktree = "reviewed" /\ "manifest" \notin spent
       ELSE gateA("DETACHED_NETWORK_FREE_ROOM_OPERATION", FALSE, FALSE)
    /\ kind' = [kind EXCEPT ![p] = k]
    /\ Goto(p, "PROMPT")
    /\ UNCHANGED <<spent, file, child, found, worktree, killed, signatures, delivered>>

\* Mutated form: a budget found unspent at the review is taken on trust.
TakenOnTrust(b) == spent' = spent \cup {b}

acquireOneShotAttempt(b) == b \notin spent /\ spent' = spent \cup {b}

\* The phrase is right and the recheck passes.  The rehearsal spends its budget
\* at once, the manifest's route checks the worktree first.
Approved(p) ==
  /\ pc[p] = "PROMPT"
  /\ IF kind[p] = "PHASE3B" THEN Goto(p, "CHECK") /\ UNCHANGED spent
     ELSE /\ gateA("DETACHED_NETWORK_FREE_ROOM_OPERATION", FALSE, TRUE)
          /\ acquireOneShotAttempt(BudgetOf(p, kind[p]))
          /\ Goto(p, "BRIDGE")
  /\ UNCHANGED <<kind, file, child, found, worktree, killed, signatures, delivered>>

Acquire(p) ==
  /\ pc[p] = "CHECK" /\ worktree = "reviewed"
  /\ acquireOneShotAttempt("manifest")
  /\ Goto(p, "BRIDGE")
  /\ UNCHANGED <<kind, file, child, found, worktree, killed, signatures, delivered>>

\* Mutated form: an unreviewed worktree is waited for.
RefusedByOperator(p) ==
  /\ pc[p] = "PROMPT" \/ (pc[p] = "CHECK" /\ "manifest" \in spent)
  /\ Goto(p, "IDLE")
  /\ UNCHANGED <<kind, spent, file, child, found, worktree, killed, signatures, delivered>>

\* The operator cancels, types another phrase, or the recheck, the worktree or
\* the budget refuses: the route is over.
Refused(p) ==
  /\ \/ pc[p] = "PROMPT"
     \/ pc[p] \in {"CHECK", "BRIDGE"} /\ worktree # "reviewed"
     \/ pc[p] = "CHECK" /\ "manifest" \in spent
  /\ Goto(p, "IDLE")
  /\ UNCHANGED <<kind, spent, file, child, found, worktree, killed, signatures, delivered>>

\* Mutated form: the worktree is not looked at again before the child starts.
SpawnUnchecked(p) ==
  /\ pc[p] = "BRIDGE"
  /\ kind[p] = "PHASE3B" => "manifest" \in spent
  /\ found' = [found EXCEPT ![p] = worktree]
  /\ file' = file \cup {p} /\ child' = [child EXCEPT ![p] = "asking"]
  /\ Goto(p, "CHILD")
  /\ UNCHANGED <<kind, spent, worktree, killed, signatures, delivered>>

\* The bridge finds the worktree reviewed and clean and holds a receipt of the
\* budget; it writes the request file and starts the child.
Spawn(p) ==
  /\ pc[p] = "BRIDGE" /\ worktree = "reviewed"
  /\ kind[p] = "PHASE3B" => "manifest" \in spent
  /\ found' = [found EXCEPT ![p] = worktree]
  /\ file' = file \cup {p} /\ child' = [child EXCEPT ![p] = "asking"]
  /\ Goto(p, "CHILD")
  /\ UNCHANGED <<kind, spent, worktree, killed, signatures, delivered>>

\* The child asks its own operator and signs, or does not; it answers for the
\* worktree it runs in, and it does so whether or not anyone still listens.
ChildSigns(p) ==
  /\ child[p] = "asking"
  /\ child' = [child EXCEPT ![p] = worktree]
  /\ signatures' = [signatures EXCEPT ![BudgetOf(p, kind[p])] = @ + 1]
  /\ UNCHANGED <<pc, kind, spent, file, found, worktree, killed, delivered>>

ChildRefuses(p) ==
  /\ child[p] = "asking" /\ child' = [child EXCEPT ![p] = "refused"]
  /\ UNCHANGED <<pc, kind, spent, file, found, worktree, killed, signatures, delivered>>

\* Mutated form: the request file goes only when the child succeeded.
RemoveOnSuccess(p) == file' = IF child[p] \in Worktree THEN file \ {p} ELSE file

Remove(p) == file' = file \ {p}

\* Mutated form: the commit the child names is not compared.
AnyCommit(answer) == answer \in Worktree

\* HEAD is compared; what is changed on top of it the answer does not say.
Provenance(answer) == answer \in {"reviewed", "dirty"}

\* The child closed: its file is removed whatever it did, and a usable answer
\* goes on to the verification.
Return(p) ==
  /\ pc[p] = "CHILD" /\ child[p] # "asking"
  /\ Remove(p)
  /\ Goto(p, IF child[p] \in Worktree /\ Provenance(child[p]) THEN "VERIFY" ELSE "IDLE")
  /\ UNCHANGED <<kind, spent, child, found, worktree, killed, signatures, delivered>>

\* Room, text, commit and signature are checked against what was approved.
Verify(p) ==
  /\ pc[p] = "VERIFY"
  /\ delivered' = delivered \cup {<<found[p], child[p]>>}
  /\ Goto(p, "IDLE")
  /\ UNCHANGED <<kind, spent, file, child, found, worktree, killed, signatures>>

Kill(p) ==
  /\ pc[p] # "IDLE" /\ killed' = killed \cup {p} /\ Goto(p, "IDLE")
  /\ UNCHANGED <<kind, spent, file, child, found, worktree, signatures, delivered>>

MoveWorktree ==
  /\ \E w \in Worktree \ {worktree} : worktree' = w
  /\ UNCHANGED <<pc, kind, spent, file, child, found, killed, signatures, delivered>>

Route(p) ==
  Approved(p) \/ Acquire(p) \/ Refused(p) \/ Spawn(p) \/ Return(p) \/ Verify(p)

Next ==
  \/ \E p \in Process : Begin(p) \/ Route(p) \/ ChildSigns(p) \/ ChildRefuses(p) \/ Kill(p)
  \/ MoveWorktree

Spec == Init /\ [][Next]_vars

\* The operator and the child answer, and the process runs on.
FairSpec ==
  Spec /\ \A p \in Process : WF_vars(Route(p)) /\ WF_vars(ChildSigns(p) \/ ChildRefuses(p))

-----------------------------------------------------------------------------
\* A route that may reach the signer, or has.
Reaches(p) == pc[p] = "BRIDGE" \/ child[p] # "none"

\* A route has a child only after its bridge, and delivers only an answer whose
\* commit it has compared.
RouteInOrder(p) ==
  /\ pc[p] \in {"PROMPT", "CHECK", "BRIDGE"} => child[p] = "none"
  /\ pc[p] = "CHECK" => kind[p] = "PHASE3B"
  /\ pc[p] \in {"CHILD", "VERIFY"} => found[p] = "reviewed"
  /\ pc[p] = "VERIFY" => child[p] \in {"reviewed", "dirty"}
  /\ kind[p] # "RETIRED"

\* It has spent its budget, which no other route holds, and the signature of
\* that budget is its own.
BudgetInOrder(p) ==
  Reaches(p) =>
    /\ BudgetOf(p, kind[p]) \in spent
    /\ \A q \in Process \ {p} : Reaches(q) => BudgetOf(q, kind[q]) # BudgetOf(p, kind[p])
    /\ child[p] \notin Worktree => signatures[BudgetOf(p, kind[p])] = 0

SignaturesInOrder == \A b \in Budget : signatures[b] <= 1 /\ (b \notin spent => signatures[b] = 0)

\* Why one budget yields one signature: who may reach the signer holds it.
Inductive ==
  /\ TypeOK
  /\ \A p \in Process : RouteInOrder(p) /\ BudgetInOrder(p)
  /\ SignaturesInOrder

\* One budget yields one signature, although the routes race for it and a
\* killed route leaves its child running (real-route.mjs, step 6).
OneSignature == \A b \in Budget : signatures[b] <= 1

\* What a route returns was signed under the reviewed commit, by a child that was
\* started from the reviewed and clean worktree, although the worktree may move
\* after each check (detached-bridge.mjs, assertReviewedCanonicalWorktree and the
\* provenance).  A change on top of the commit after that check goes unnoticed.
DeliveredIsReviewed == delivered \subseteq {"reviewed"} \X {"reviewed", "dirty"}

\* A request file outlives its bridge only if the process was killed
\* (detached-bridge.mjs, the finally block).
NothingLeftBehind == \A p \in file : pc[p] = "CHILD" \/ p \in killed

\* A route that began comes to an end.
RouteEnds == \A p \in Process : pc[p] # "IDLE" ~> pc[p] = "IDLE"
=============================================================================
