---------------------------- MODULE CustodyProofs ----------------------------
(***************************************************************************)
(* Proofs about the components that decide who signs, with which number    *)
(* and how often, and about the four of them side by side: for any callers,*)
(* requests, routes, budgets, frames, locations and deals.                 *)
(***************************************************************************)
EXTENDS MCCustody, FiniteSetTheorems, TLAPS

\* An instance counts like the module it was taken from.
LEMMA Counts ==
  \A S : Airlock!Cardinality(S) = Cardinality(S) /\ Hub!Cardinality(S) = Cardinality(S)
BY DEF Cardinality, Airlock!Cardinality, Hub!Cardinality

-----------------------------------------------------------------------------
(***************************************************************************)
(* The routes to the detached signer, which share a budget or not.         *)
(***************************************************************************)
LEMMA RouteBudgetTyped ==
  \A p \in RouteProcess, k \in Route!Kind : Route!BudgetOf(p, k) \in Route!Budget
BY DEF Route!BudgetOf, Route!Budget

LEMMA RouteInit == Route!Init => Route!Inductive
BY DEF Route!Init, Route!Inductive, Route!TypeOK, Route!Pcs, Route!Kind, Route!Child,
   Route!Worktree, Route!Budget, Route!RouteInOrder, Route!BudgetInOrder, Route!Reaches,
   Route!SignaturesInOrder

\* Types.

LEMMA RouteTypeStep ==
  ASSUME Route!TypeOK, \A p \in RouteProcess : Route!RouteInOrder(p), [Route!Next]_(Route!vars)
  PROVE  Route!TypeOK'
<1> USE DEF Route!TypeOK
<1>1. ASSUME NEW p \in RouteProcess, Route!Begin(p) PROVE Route!TypeOK'
  BY <1>1 DEF Route!Begin, Route!Goto, Route!Pcs
<1>2. ASSUME NEW p \in RouteProcess, Route!Approved(p) PROVE Route!TypeOK'
  <2>1. Route!BudgetOf(p, kind[p]) \in Route!Budget BY RouteBudgetTyped
  <2>2. spent' \subseteq Route!Budget
    BY <1>2, <2>1 DEF Route!Approved, Route!acquireOneShotAttempt
  <2>3. pc' \in [RouteProcess -> Route!Pcs] BY <1>2 DEF Route!Approved, Route!Goto, Route!Pcs
  <2> QED BY <1>2, <2>2, <2>3 DEF Route!Approved
<1>3. ASSUME NEW p \in RouteProcess, Route!Acquire(p) PROVE Route!TypeOK'
  BY <1>3 DEF Route!Acquire, Route!acquireOneShotAttempt, Route!Budget, Route!Goto, Route!Pcs
<1>4. ASSUME NEW p \in RouteProcess, Route!Refused(p) PROVE Route!TypeOK'
  BY <1>4 DEF Route!Refused, Route!Goto, Route!Pcs
<1>5. ASSUME NEW p \in RouteProcess, Route!Spawn(p) PROVE Route!TypeOK'
  BY <1>5 DEF Route!Spawn, Route!Goto, Route!Pcs, Route!Child
<1>6. ASSUME NEW p \in RouteProcess, Route!Return(p) PROVE Route!TypeOK'
  BY <1>6 DEF Route!Return, Route!Remove, Route!Goto, Route!Pcs
<1>7. ASSUME NEW p \in RouteProcess, Route!Verify(p) PROVE Route!TypeOK'
  <2>1. child[p] \in Route!Worktree /\ found[p] \in Route!Worktree
    BY <1>7 DEF Route!Verify, Route!RouteInOrder, Route!Worktree
  <2> QED BY <1>7, <2>1 DEF Route!Verify, Route!Goto, Route!Pcs
<1>8. ASSUME NEW p \in RouteProcess, Route!ChildSigns(p) PROVE Route!TypeOK'
  <2>1. Route!BudgetOf(p, kind[p]) \in Route!Budget BY RouteBudgetTyped
  <2>2. signatures' \in [Route!Budget -> Nat] BY <1>8, <2>1 DEF Route!ChildSigns
  <2> QED BY <1>8, <2>2 DEF Route!ChildSigns, Route!Child
<1>9. ASSUME NEW p \in RouteProcess, Route!ChildRefuses(p) \/ Route!Kill(p) PROVE Route!TypeOK'
  BY <1>9 DEF Route!ChildRefuses, Route!Kill, Route!Goto, Route!Child, Route!Pcs
<1>10. CASE Route!MoveWorktree \/ UNCHANGED Route!vars
  BY <1>10 DEF Route!MoveWorktree, Route!vars
<1> QED
  BY <1>1, <1>2, <1>3, <1>4, <1>5, <1>6, <1>7, <1>8, <1>9, <1>10 DEF Route!Next, Route!Route

\* What one route does, and who may reach the signer.

LEMMA RouteOrderStep ==
  ASSUME Route!TypeOK, \A p \in RouteProcess : Route!RouteInOrder(p), [Route!Next]_(Route!vars),
         NEW q \in RouteProcess
  PROVE  Route!RouteInOrder(q)'
<1> USE DEF Route!TypeOK, Route!RouteInOrder
<1>1. ASSUME NEW p \in RouteProcess, Route!Begin(p) PROVE Route!RouteInOrder(q)'
  BY <1>1 DEF Route!Begin, Route!Goto, Route!assertPhase3a4r4RealPathClosed
<1>2. ASSUME NEW p \in RouteProcess, Route!Approved(p) \/ Route!Acquire(p) \/ Route!Refused(p)
      PROVE Route!RouteInOrder(q)'
  BY <1>2 DEF Route!Approved, Route!Acquire, Route!Refused, Route!Goto
<1>3. ASSUME NEW p \in RouteProcess, Route!Spawn(p) PROVE Route!RouteInOrder(q)'
  BY <1>3 DEF Route!Spawn, Route!Goto
<1>4. ASSUME NEW p \in RouteProcess, Route!Return(p) PROVE Route!RouteInOrder(q)'
  BY <1>4 DEF Route!Return, Route!Goto, Route!Provenance
<1>5. ASSUME NEW p \in RouteProcess, Route!Verify(p) \/ Route!Kill(p)
      PROVE Route!RouteInOrder(q)'
  BY <1>5 DEF Route!Verify, Route!Kill, Route!Goto
<1>6. ASSUME NEW p \in RouteProcess, Route!ChildSigns(p) \/ Route!ChildRefuses(p)
      PROVE Route!RouteInOrder(q)'
  BY <1>6 DEF Route!ChildSigns, Route!ChildRefuses
<1>7. CASE Route!MoveWorktree \/ UNCHANGED Route!vars
  BY <1>7 DEF Route!MoveWorktree, Route!vars
<1> QED BY <1>1, <1>2, <1>3, <1>4, <1>5, <1>6, <1>7 DEF Route!Next, Route!Route

\* A budget is taken once, by the route that may then reach the signer.
LEMMA RouteReachStep ==
  ASSUME Route!TypeOK, \A p \in RouteProcess : Route!RouteInOrder(p), [Route!Next]_(Route!vars),
         NEW q \in RouteProcess, Route!Reaches(q)'
  PROVE  /\ kind'[q] = kind[q]
         /\ \/ Route!Reaches(q)
            \/ /\ Route!BudgetOf(q, kind[q]) \notin spent
               /\ spent' = spent \cup {Route!BudgetOf(q, kind[q])}
               /\ \A p \in RouteProcess \ {q} : pc'[p] = pc[p] /\ child'[p] = child[p]
               /\ child'[q] = "none" /\ signatures' = signatures
<1> USE DEF Route!TypeOK, Route!Reaches
<1>1. ASSUME NEW p \in RouteProcess, Route!Begin(p) PROVE kind'[q] = kind[q] /\ Route!Reaches(q)
  BY <1>1 DEF Route!Begin, Route!Goto
<1>2. ASSUME NEW p \in RouteProcess, Route!Approved(p), ~Route!Reaches(q)
      PROVE  /\ kind' = kind /\ Route!BudgetOf(q, kind[q]) \notin spent
             /\ spent' = spent \cup {Route!BudgetOf(q, kind[q])} /\ p = q
             /\ pc' = [pc EXCEPT ![p] = "BRIDGE"] /\ child' = child /\ signatures' = signatures
  BY <1>2 DEF Route!Approved, Route!acquireOneShotAttempt, Route!Goto
<1>3. ASSUME NEW p \in RouteProcess, Route!Acquire(p), ~Route!Reaches(q)
      PROVE  /\ kind' = kind /\ Route!BudgetOf(q, kind[q]) \notin spent
             /\ spent' = spent \cup {Route!BudgetOf(q, kind[q])} /\ p = q
             /\ pc' = [pc EXCEPT ![p] = "BRIDGE"] /\ child' = child /\ signatures' = signatures
  <2>1. p = q /\ pc[q] = "CHECK" BY <1>3 DEF Route!Acquire, Route!Goto
  <2>2. Route!BudgetOf(q, kind[q]) = "manifest" BY <2>1 DEF Route!RouteInOrder, Route!BudgetOf
  <2> QED BY <1>3, <2>1, <2>2 DEF Route!Acquire, Route!acquireOneShotAttempt, Route!Goto
<1>4. ASSUME NEW p \in RouteProcess,
             Route!Refused(p) \/ Route!Return(p) \/ Route!Verify(p) \/ Route!Kill(p)
               \/ Route!ChildSigns(p) \/ Route!ChildRefuses(p) \/ Route!Spawn(p)
      PROVE  kind' = kind /\ Route!Reaches(q)
  BY <1>4 DEF Route!Refused, Route!Return, Route!Verify, Route!Kill, Route!ChildSigns,
     Route!ChildRefuses, Route!Spawn, Route!Goto
<1>5. ASSUME NEW p \in RouteProcess, Route!Approved(p) \/ Route!Acquire(p) PROVE kind' = kind
  BY <1>5 DEF Route!Approved, Route!Acquire
<1>6. CASE Route!MoveWorktree \/ UNCHANGED Route!vars
  BY <1>6 DEF Route!MoveWorktree, Route!vars
<1> QED BY <1>1, <1>2, <1>3, <1>4, <1>5, <1>6 DEF Route!Next, Route!Route

\* Budgets and signatures.

\* A budget stays spent, and a signature is made by a child that was asked.
LEMMA RouteSpentStep ==
  ASSUME Route!TypeOK, [Route!Next]_(Route!vars)
  PROVE  /\ spent \subseteq spent'
         /\ \/ signatures' = signatures
            \/ \E p \in RouteProcess : Route!ChildSigns(p)
<1>1. ASSUME NEW p \in RouteProcess, Route!Route(p)
      PROVE spent \subseteq spent' /\ signatures' = signatures
  BY <1>1 DEF Route!Route, Route!Approved, Route!Acquire, Route!Refused, Route!Spawn,
     Route!Return, Route!Verify, Route!acquireOneShotAttempt
<1> QED
  BY <1>1 DEF Route!Next, Route!vars, Route!Begin, Route!ChildSigns, Route!ChildRefuses,
     Route!Kill, Route!MoveWorktree

LEMMA RouteSignsStep ==
  ASSUME Route!TypeOK, NEW p \in RouteProcess, Route!ChildSigns(p)
  PROVE  /\ Route!BudgetOf(p, kind[p]) \in Route!Budget
         /\ signatures'[Route!BudgetOf(p, kind[p])] = signatures[Route!BudgetOf(p, kind[p])] + 1
         /\ \A b \in Route!Budget \ {Route!BudgetOf(p, kind[p])} : signatures'[b] = signatures[b]
         /\ child'[p] \in Route!Worktree /\ Route!Reaches(p) /\ child[p] \notin Route!Worktree
         /\ kind' = kind /\ spent' = spent /\ \A q \in RouteProcess \ {p} : child'[q] = child[q]
<1>1. Route!BudgetOf(p, kind[p]) \in Route!Budget BY RouteBudgetTyped DEF Route!TypeOK
<1> QED BY <1>1 DEF Route!ChildSigns, Route!TypeOK, Route!Reaches, Route!Worktree

LEMMA RouteBudgetStep ==
  ASSUME Route!Inductive, [Route!Next]_(Route!vars), NEW p \in RouteProcess
  PROVE  Route!BudgetInOrder(p)'
<1> SUFFICES ASSUME Route!Reaches(p)'
             PROVE  /\ Route!BudgetOf(p, kind'[p]) \in spent'
                    /\ \A q \in RouteProcess \ {p} : Route!Reaches(q)' =>
                         Route!BudgetOf(q, kind'[q]) # Route!BudgetOf(p, kind'[p])
                    /\ child'[p] \notin Route!Worktree =>
                         signatures'[Route!BudgetOf(p, kind'[p])] = 0
  BY DEF Route!BudgetInOrder, Route!BudgetOf
<1> DEFINE b == Route!BudgetOf(p, kind[p])
<1> USE DEF Route!Inductive
<1>0. kind'[p] = kind[p] /\ b \in Route!Budget
  BY RouteReachStep, RouteBudgetTyped DEF Route!TypeOK
<1> HIDE DEF b
<1>1. b \in spent' BY RouteReachStep, RouteSpentStep DEF Route!BudgetInOrder, b
<1>2. ASSUME NEW q \in RouteProcess \ {p}, Route!Reaches(q)'
      PROVE Route!BudgetOf(q, kind'[q]) # b
  <2> DEFINE c == Route!BudgetOf(q, kind[q])
  <2>1. kind'[q] = kind[q] BY <1>2, RouteReachStep
  <2>2. CASE Route!Reaches(p) /\ Route!Reaches(q) BY <2>1, <2>2 DEF Route!BudgetInOrder, b
  <2>3. CASE ~Route!Reaches(p)
    <3>1. b \notin spent /\ Route!Reaches(q) BY <1>2, <2>3, RouteReachStep DEF b, Route!Reaches
    <3> QED BY <2>1, <3>1 DEF Route!BudgetInOrder
  <2>4. CASE Route!Reaches(p) /\ ~Route!Reaches(q)
    <3>1. c \notin spent BY <1>2, <2>4, RouteReachStep
    <3> QED BY <2>1, <2>4, <3>1 DEF Route!BudgetInOrder, b
  <2> QED BY <2>2, <2>3, <2>4
<1>3. ASSUME child'[p] \notin Route!Worktree PROVE signatures'[b] = 0
  <2>1. CASE ~Route!Reaches(p)
    <3>1. b \notin spent /\ signatures' = signatures BY <2>1, RouteReachStep DEF b
    <3> QED BY <1>0, <3>1 DEF Route!SignaturesInOrder
  <2>2. CASE Route!Reaches(p) /\ signatures' = signatures
    <3>1. child[p] \notin Route!Worktree
      <4>1. child[p] \in Route!Worktree => child'[p] = child[p]
        <5>1. ASSUME NEW q \in RouteProcess, Route!Spawn(q)
              PROVE child[p] \in Route!Worktree => child'[p] = child[p]
          BY <5>1 DEF Route!Spawn, Route!RouteInOrder, Route!TypeOK, Route!Worktree
        <5>2. ASSUME NEW q \in RouteProcess, Route!ChildSigns(q) \/ Route!ChildRefuses(q)
              PROVE  child[p] \in Route!Worktree => child'[p] = child[p]
          BY <5>2 DEF Route!ChildSigns, Route!ChildRefuses, Route!TypeOK, Route!Worktree
        <5> QED
          BY <5>1, <5>2 DEF Route!Next, Route!Route, Route!vars, Route!Begin, Route!Approved,
             Route!Acquire, Route!Refused, Route!Return, Route!Verify, Route!Kill,
             Route!MoveWorktree
      <4> QED BY <1>3, <4>1
    <3> QED BY <2>2, <3>1 DEF Route!BudgetInOrder, b
  <2>3. ASSUME Route!Reaches(p), NEW q \in RouteProcess, Route!ChildSigns(q)
        PROVE signatures'[b] = 0
    <3>1. p # q BY <1>3, <2>3, RouteSignsStep
    <3>2. Route!Reaches(q) /\ child'[p] = child[p] BY <2>3, <3>1, RouteSignsStep
    <3>3. Route!BudgetOf(q, kind[q]) # b BY <2>3, <3>1, <3>2 DEF Route!BudgetInOrder, b
    <3>4. signatures'[b] = signatures[b] BY <1>0, <2>3, <3>3, RouteSignsStep
    <3> QED BY <1>3, <2>3, <3>2, <3>4 DEF Route!BudgetInOrder, b
  <2> QED BY <2>1, <2>2, <2>3, RouteSpentStep
<1> QED BY <1>0, <1>1, <1>2, <1>3 DEF b

LEMMA RouteSignaturesStep ==
  ASSUME Route!Inductive, [Route!Next]_(Route!vars)
  PROVE  Route!SignaturesInOrder'
<1> USE DEF Route!Inductive
<1>1. CASE signatures' = signatures BY <1>1, RouteSpentStep DEF Route!SignaturesInOrder
<1>2. ASSUME NEW p \in RouteProcess, Route!ChildSigns(p) PROVE Route!SignaturesInOrder'
  <2>1. signatures[Route!BudgetOf(p, kind[p])] = 0 /\ Route!BudgetOf(p, kind[p]) \in spent
    BY <1>2, RouteSignsStep DEF Route!BudgetInOrder
  <2> QED BY <1>2, <2>1, RouteSignsStep, RouteSpentStep DEF Route!SignaturesInOrder
<1> QED BY <1>1, <1>2, RouteSpentStep

LEMMA RouteInductiveStep == Route!Inductive /\ [Route!Next]_(Route!vars) => Route!Inductive'
BY RouteTypeStep, RouteOrderStep, RouteBudgetStep, RouteSignaturesStep DEF Route!Inductive

\* The results.

\* What is returned was signed under the reviewed commit by a child that was started
\* from the clean worktree, and a request file outlives its bridge only if its
\* process was killed.
RouteSound == Route!Inductive /\ Route!DeliveredIsReviewed /\ Route!NothingLeftBehind

LEMMA RouteBegin == Route!Init => RouteSound
BY RouteInit
   DEF RouteSound, Route!Init, Route!DeliveredIsReviewed, Route!NothingLeftBehind

LEMMA RouteReviewedStep ==
  ASSUME Route!Inductive, Route!DeliveredIsReviewed, [Route!Next]_(Route!vars)
  PROVE  Route!DeliveredIsReviewed'
<1>1. ASSUME NEW p \in RouteProcess, Route!Verify(p) PROVE Route!DeliveredIsReviewed'
  BY <1>1 DEF Route!Verify, Route!Inductive, Route!RouteInOrder, Route!DeliveredIsReviewed
<1>2. delivered' = delivered \/ \E p \in RouteProcess : Route!Verify(p)
  BY DEF Route!Next, Route!vars, Route!Begin, Route!Route, Route!Approved, Route!Acquire,
     Route!Refused, Route!Spawn, Route!Return, Route!ChildSigns, Route!ChildRefuses,
     Route!Kill, Route!MoveWorktree
<1> QED BY <1>1, <1>2 DEF Route!DeliveredIsReviewed

LEMMA RouteFileStep ==
  ASSUME Route!Inductive, Route!NothingLeftBehind, [Route!Next]_(Route!vars)
  PROVE  Route!NothingLeftBehind'
<1> USE DEF Route!Inductive, Route!TypeOK, Route!NothingLeftBehind
<1>1. ASSUME NEW p \in RouteProcess, Route!Begin(p) \/ Route!Kill(p)
      PROVE  Route!NothingLeftBehind'
  BY <1>1 DEF Route!Begin, Route!Kill, Route!Goto
<1>2. ASSUME NEW p \in RouteProcess,
             Route!Approved(p) \/ Route!Acquire(p) \/ Route!Refused(p) \/ Route!Spawn(p)
      PROVE  Route!NothingLeftBehind'
  BY <1>2 DEF Route!Approved, Route!Acquire, Route!Refused, Route!Spawn, Route!Goto
<1>3. ASSUME NEW p \in RouteProcess, Route!Return(p) \/ Route!Verify(p)
      PROVE  Route!NothingLeftBehind'
  BY <1>3 DEF Route!Return, Route!Verify, Route!Remove, Route!Goto
<1> QED
  BY <1>1, <1>2, <1>3 DEF Route!Next, Route!Route, Route!vars, Route!ChildSigns,
     Route!ChildRefuses, Route!MoveWorktree

LEMMA RouteStep == RouteSound /\ [Route!Next]_(Route!vars) => RouteSound'
BY RouteInductiveStep, RouteReviewedStep, RouteFileStep DEF RouteSound

\* Who may reach the signer holds the budget; this is kept by every step.
THEOREM RouteInductive == Route!Spec => []Route!Inductive
<1>1. RouteSound => Route!Inductive BY DEF RouteSound
<1> QED BY <1>1, RouteBegin, RouteStep, PTL DEF Route!Spec

\* One budget yields one signature, although the routes race for it and a
\* killed route leaves its child running.
THEOREM RouteSignsOnce == Route!Spec => []Route!OneSignature
<1>1. Route!Inductive => Route!OneSignature
  BY DEF Route!Inductive, Route!SignaturesInOrder, Route!OneSignature
<1> QED BY <1>1, RouteInductive, PTL

\* What a route returns was signed under the reviewed commit, by a child that was
\* started from the reviewed and clean worktree, although the worktree may move
\* after each check.
THEOREM RouteDeliversReviewed == Route!Spec => []Route!DeliveredIsReviewed
<1>1. RouteSound => Route!DeliveredIsReviewed BY DEF RouteSound
<1> QED BY <1>1, RouteBegin, RouteStep, PTL DEF Route!Spec

\* A request file outlives its bridge only if its process was killed.
THEOREM RouteLeavesNothing == Route!Spec => []Route!NothingLeftBehind
<1>1. RouteSound => Route!NothingLeftBehind BY DEF RouteSound
<1> QED BY <1>1, RouteBegin, RouteStep, PTL DEF Route!Spec

-----------------------------------------------------------------------------
(***************************************************************************)
(* The airlock: what is accepted is what was approved.                     *)
(***************************************************************************)
AirlockSound ==
  /\ Airlock!Inductive
  /\ Airlock!AcceptedIsApproved /\ Airlock!SettledOnce /\ Airlock!EligibleIsSettled

LEMMA CoreTyped ==
  \A r \in Airlock!Requested : Airlock!CoreOf(r) \in Airlock!Core /\ r.fp \in Airlock!Core
BY DEF Airlock!Requested, Airlock!CoreOf, Airlock!Core

LEMMA Singletons == ASSUME NEW x PROVE Cardinality({x}) <= 1
<1>1. Cardinality({x}) = 1
  BY FS_Singleton
<1>2. QED
  BY <1>1

LEMMA SweepTyped == \A b \in Airlock!Bytes : Airlock!Sweep(b) \in Airlock!Bytes
BY DEF Airlock!Sweep, Airlock!Bytes

\* What the signer answers, with the transport of its caller or with a new one.
LEMMA AnswerTyped ==
  ASSUME Airlock!TypeOK, NEW fp \in Airlock!Core, NEW core \in Airlock!Core,
         NEW brings \in SUBSET Airlock!Kept, Airlock!Nonces(brings)[core.room] < MaxNonce
  PROVE  /\ Airlock!Answer(fp, core, brings) \in Airlock!Response
         /\ Airlock!Answer(fp, core, brings).over \in Airlock!Message
         /\ Airlock!Answer(fp, core, brings).over.room = core.room
         /\ Airlock!Answer(fp, core, brings).over.nonce = Airlock!Nonces(brings)[core.room] + 1
<1>1. core.room \in Airlock!Room /\ core.hash \in Airlock!Bytes /\ core.bytes \in Airlock!Bytes
  BY DEF Airlock!Core
<1>2. Airlock!Nonces(brings)[core.room] \in Nat
  BY <1>1 DEF Airlock!Nonces, Airlock!TypeOK
<1>3. Airlock!Nonces(brings)[core.room] + 1 \in 1 .. MaxNonce
  BY <1>2, AirlockAssumption
<1>4. Airlock!Answer(fp, core, brings).over \in Airlock!Message
  BY <1>1, <1>3, SweepTyped DEF Airlock!Answer, Airlock!Message, Airlock!Did
<1>5. QED
  BY <1>1, <1>3, <1>4 DEF Airlock!Answer, Airlock!Response, Airlock!Did

\* What a signature changes: the numbers of the kept transport, if it made it.
LEMMA SignFacts ==
  ASSUME AirlockSound, NEW fp \in Airlock!Core, NEW core \in Airlock!Core,
         NEW brings \in SUBSET Airlock!Kept,
         Airlock!signApprovedChallenge(fp, core, brings)
  PROVE  /\ nonce' \in [Airlock!Room -> 0 .. MaxNonce]
         /\ signed' \subseteq [fp : Airlock!Core, over : Airlock!Message, kept : BOOLEAN]
         /\ Airlock!NoncesInOrder'
         /\ Airlock!NonceOnce => Airlock!NonceOnce'
<1> DEFINE over == Airlock!Answer(fp, core, brings).over
           kept == "transport" \in brings
           s0 == [fp |-> fp, over |-> over, kept |-> kept]
           k == nonce[core.room] + 1
<1>1. core.room \in Airlock!Room /\ nonce \in [Airlock!Room -> 0 .. MaxNonce]
  BY DEF Airlock!Core, AirlockSound, Airlock!Inductive, Airlock!TypeOK
<1>2. Airlock!Nonces(brings)[core.room] < MaxNonce /\ signed' = signed \cup {s0}
      /\ Airlock!reserveNonce(core.room, brings)
  BY DEF Airlock!signApprovedChallenge
<1>3. over \in Airlock!Message /\ over.room = core.room
      /\ over.nonce = Airlock!Nonces(brings)[core.room] + 1
  BY <1>2, AnswerTyped DEF AirlockSound, Airlock!Inductive
<1> HIDE DEF over
<1>4. signed' \subseteq [fp : Airlock!Core, over : Airlock!Message, kept : BOOLEAN]
  <2>1. kept \in BOOLEAN
    OBVIOUS
  <2> HIDE DEF kept
  <2>2. s0 \in [fp : Airlock!Core, over : Airlock!Message, kept : BOOLEAN]
    BY <1>3, <2>1
  <2> QED BY <1>2, <2>2 DEF AirlockSound, Airlock!Inductive, Airlock!TypeOK
<1>5. \A s \in signed :
        /\ s.kept => s.over.nonce <= nonce[s.over.room]
        /\ s.over.room \in Airlock!Room /\ s.over.nonce \in Nat
  BY DEF AirlockSound, Airlock!NoncesInOrder, Airlock!Inductive, Airlock!TypeOK,
     Airlock!Message
<1>6. CASE "transport" \in brings
  <2>1. Airlock!Nonces(brings) = nonce /\ s0.kept /\ s0.over = over
    BY <1>6 DEF Airlock!Nonces
  <2>2. nonce' = [nonce EXCEPT ![core.room] = k] /\ over.nonce = k /\ nonce[core.room] < MaxNonce
    BY <1>2, <1>3, <1>6, <2>1 DEF Airlock!reserveNonce
  <2>3. nonce' \in [Airlock!Room -> 0 .. MaxNonce]
    BY <1>1, <2>2, AirlockAssumption
  <2> HIDE DEF s0
  <2>4. Airlock!NoncesInOrder'
    BY <1>1, <1>2, <1>3, <1>5, <2>1, <2>2 DEF Airlock!NoncesInOrder
  <2>5. \A s \in signed : s.kept /\ s.over.room = core.room => s.over.nonce # k
    BY <1>1, <1>5
  <2>6. Airlock!NonceOnce => Airlock!NonceOnce'
    BY <1>2, <1>3, <2>1, <2>2, <2>5 DEF Airlock!NonceOnce
  <2> QED BY <1>4, <2>3, <2>4, <2>6
<1>7. CASE "transport" \notin brings
  <2>1. ~s0.kept /\ nonce' = nonce
    BY <1>2, <1>7 DEF Airlock!reserveNonce
  <2> HIDE DEF s0
  <2>2. Airlock!NoncesInOrder'
    BY <1>2, <1>5, <2>1 DEF Airlock!NoncesInOrder
  <2>3. Airlock!NonceOnce => Airlock!NonceOnce'
    BY <1>2, <2>1 DEF Airlock!NonceOnce
  <2> QED BY <1>1, <1>4, <2>1, <2>2, <2>3
<1> QED BY <1>6, <1>7

\* What an acceptance changes: a call that brings its ledger finds there what was
\* settled before, and puts there what it settles.
LEMMA CompleteFacts ==
  ASSUME AirlockSound, NEW r \in Airlock!Requested, NEW a \in Airlock!Core,
         NEW s \in Airlock!Response, NEW clocked \in BOOLEAN, NEW open,
         NEW brings \in SUBSET Airlock!Kept,
         Airlock!verifyResponse(r, a, s, clocked, open, Airlock!Settled(brings)),
         Airlock!Complete(r, s, brings)
  PROVE  /\ completed' = IF "ledger" \in brings THEN completed \cup {r.fp} ELSE completed
         /\ r.fp \in open
         /\ accepted' = accepted \cup {<<s, r.fp, "ledger" \in brings>>}
         /\ accepted' \subseteq Airlock!Response \X Airlock!Core \X BOOLEAN
         /\ completed' = {x[2] : x \in {y \in accepted' : y[3]}}
         /\ Airlock!AcceptedIsApproved'
         /\ Airlock!SettledOnce'
<1> DEFINE kept == "ledger" \in brings
           t == <<s, r.fp, kept>>
<1>1. a = r.fp /\ a = Airlock!CoreOf(r) /\ r.hash = r.bytes
      /\ r.fp \in open \ Airlock!Settled(brings)
      /\ Airlock!Sweep(a.bytes) = a.bytes /\ Airlock!Covers(r, a, s)
  BY DEF Airlock!verifyResponse, Airlock!requestIsIntact, Airlock!checkByteFreeze
<1>2. accepted' = accepted \cup {t}
      /\ completed' = IF kept THEN completed \cup {r.fp} ELSE completed
  BY DEF Airlock!Complete
<1>3. t[1] = s /\ t[2] = r.fp /\ t[3] = kept /\ kept \in BOOLEAN
  OBVIOUS
<1>4. accepted' \subseteq Airlock!Response \X Airlock!Core \X BOOLEAN
  <2>1. accepted \subseteq Airlock!Response \X Airlock!Core \X BOOLEAN
    BY DEF AirlockSound, Airlock!Inductive, Airlock!TypeOK
  <2>2. t \in Airlock!Response \X Airlock!Core \X BOOLEAN
    <3>1. s \in Airlock!Response /\ r.fp \in Airlock!Core
      BY <1>1
    <3> HIDE DEF kept
    <3> QED BY <1>3, <3>1
  <2> QED BY <1>2, <2>1, <2>2
<1>5. completed = {x[2] : x \in {y \in accepted : y[3]}}
  BY DEF AirlockSound, Airlock!Inductive
<1>6. kept => r.fp \notin completed
  BY <1>1 DEF Airlock!Settled
<1>7. AirlockSound => \A x \in accepted : t[3] /\ x[3] => x[2] # t[2]
  BY <1>3, <1>5, <1>6
<1>8. \A x \in accepted : kept /\ x[3] => x[2] # r.fp
  BY <1>3, <1>7
<1> HIDE DEF kept, t
<1>9. completed' = {x[2] : x \in {y \in accepted' : y[3]}}
  <2>1. CASE kept
    <3>1. {y \in accepted' : y[3]} = {y \in accepted : y[3]} \cup {t}
      BY <1>2, <1>3, <2>1
    <3> QED BY <1>2, <1>3, <1>5, <2>1, <3>1
  <2>2. CASE ~kept
    <3>1. {y \in accepted' : y[3]} = {y \in accepted : y[3]}
      BY <1>2, <1>3, <2>2
    <3> QED BY <1>2, <1>5, <2>2, <3>1
  <2> QED BY <2>1, <2>2
<1>10. Airlock!AcceptedIsApproved'
  <2>1. /\ s.over.did = a.did /\ s.over.room = a.room /\ s.over.text = a.bytes
        /\ a.hash = a.bytes /\ s.over.nonce = s.nonce
    BY <1>1 DEF Airlock!Covers, Airlock!CoreOf
  <2>2. ASSUME NEW x \in accepted'
        PROVE  /\ x[1].over.did = x[2].did /\ x[1].over.room = x[2].room
               /\ x[1].over.text = x[2].bytes /\ x[2].hash = x[2].bytes
               /\ x[1].over.nonce = x[1].nonce
    <3>1. CASE x \in accepted
      BY <3>1 DEF AirlockSound, Airlock!AcceptedIsApproved
    <3>2. CASE x = t
      BY <1>1, <1>3, <2>1, <3>2
    <3> QED BY <1>2, <3>1, <3>2
  <2> QED BY <2>2 DEF Airlock!AcceptedIsApproved
<1>11. Airlock!SettledOnce'
  <2>1. Airlock!SettledOnce BY DEF AirlockSound
  <2> QED BY <1>2, <1>3, <1>8, <2>1 DEF Airlock!SettledOnce
<1> QED BY <1>1, <1>2, <1>4, <1>9, <1>10, <1>11 DEF kept, t

\* No lamp is lit ahead of the one before it.
LampsFollow(res) ==
  /\ res.eligible => "LOCALLY_VERIFIED" \in res.codes
  /\ "LOCALLY_VERIFIED" \in res.codes => "SIGNER_RESPONSE_RECEIVED" \in res.codes
  /\ "SIGNER_RESPONSE_RECEIVED" \in res.codes => "HANDOFF_ALLOWED" \in res.codes
  /\ "HANDOFF_ALLOWED" \in res.codes => "REVIEWED" \in res.codes
  /\ "REVIEWED" \in res.codes => "PREPARED" \in res.codes

LEMMA LampFacts ==
  ASSUME NEW res, LampsFollow(res)
  PROVE  \A i \in 2 .. 6 : Airlock!Lamps(res)[i] => Airlock!Lamps(res)[i - 1]
<1>1. Airlock!Lamps(res)[1] = ("PREPARED" \in res.codes)
  BY DEF Airlock!Lamps
<1>2. Airlock!Lamps(res)[2] = ("REVIEWED" \in res.codes)
  BY DEF Airlock!Lamps
<1>3. Airlock!Lamps(res)[3] = ("HANDOFF_ALLOWED" \in res.codes)
  BY DEF Airlock!Lamps
<1>4. Airlock!Lamps(res)[4] = ("SIGNER_RESPONSE_RECEIVED" \in res.codes)
  BY DEF Airlock!Lamps
<1>5. Airlock!Lamps(res)[5] = ("LOCALLY_VERIFIED" \in res.codes)
  BY DEF Airlock!Lamps
<1>6. Airlock!Lamps(res)[6] = res.eligible
  BY DEF Airlock!Lamps
<1>7. Airlock!Lamps(res)[2] => Airlock!Lamps(res)[1]
  BY <1>1, <1>2 DEF LampsFollow
<1>8. Airlock!Lamps(res)[3] => Airlock!Lamps(res)[2]
  BY <1>2, <1>3 DEF LampsFollow
<1>9. Airlock!Lamps(res)[4] => Airlock!Lamps(res)[3]
  BY <1>3, <1>4 DEF LampsFollow
<1>10. Airlock!Lamps(res)[5] => Airlock!Lamps(res)[4]
  BY <1>4, <1>5 DEF LampsFollow
<1>11. Airlock!Lamps(res)[6] => Airlock!Lamps(res)[5]
  BY <1>5, <1>6 DEF LampsFollow
<1>12. \A i \in 2 .. 6 : i = 2 \/ i = 3 \/ i = 4 \/ i = 5 \/ i = 6
  OBVIOUS
<1>13. 2 - 1 = 1 /\ 3 - 1 = 2 /\ 4 - 1 = 3 /\ 5 - 1 = 4 /\ 6 - 1 = 5
  OBVIOUS
<1>14. QED
  BY <1>7, <1>8, <1>9, <1>10, <1>11, <1>12, <1>13

LEMMA AirlockBegin == Airlock!Init => AirlockSound /\ Airlock!NonceOnce
<1> SUFFICES ASSUME Airlock!Init PROVE AirlockSound /\ Airlock!NonceOnce
  OBVIOUS
<1> USE DEF Airlock!Init
<1>1. Airlock!TypeOK
  BY FS_EmptySet, Counts, AirlockAssumption DEF Airlock!TypeOK, Airlock!NoResult, Airlock!Codes
<1>2. LampsFollow(result) /\ ~result.eligible
  BY DEF LampsFollow, Airlock!NoResult
<1>3. Airlock!EligibleIsSettled
  BY <1>2, LampFacts DEF Airlock!EligibleIsSettled
<1>4. QED
  BY <1>1, <1>3 DEF AirlockSound, Airlock!Inductive, Airlock!NoncesInOrder,
     Airlock!AcceptedIsApproved, Airlock!SettledOnce, Airlock!NonceOnce

\* What a step does to the request, the approval and the clock.
LEMMA RequestStep ==
  ASSUME AirlockSound, [Airlock!Next]_(Airlock!vars)
  PROVE  /\ request' \subseteq Airlock!Requested /\ Cardinality(request') <= 1
         /\ approval' \subseteq Airlock!Core /\ Cardinality(approval') <= 1
         /\ edits' \in 0 .. MaxEdits /\ clock' \in {"before", "valid", "expired"}
<1>1. /\ request \subseteq Airlock!Requested /\ Cardinality(request) <= 1
      /\ approval \subseteq Airlock!Core /\ Cardinality(approval) <= 1
      /\ edits \in 0 .. MaxEdits /\ clock \in {"before", "valid", "expired"}
  BY Counts DEF AirlockSound, Airlock!Inductive, Airlock!TypeOK
<1> DEFINE Goal == /\ request' \subseteq Airlock!Requested /\ Cardinality(request') <= 1
                   /\ approval' \subseteq Airlock!Core /\ Cardinality(approval') <= 1
                   /\ edits' \in 0 .. MaxEdits /\ clock' \in {"before", "valid", "expired"}
<1>2. ASSUME UNCHANGED <<request, approval, edits, clock>> PROVE Goal
  BY <1>1, <1>2
<1>3. ASSUME NEW f \in Frame, Airlock!Prepare(f) PROVE Goal
  <2>1. Airlock!Frozen(f) \in Airlock!Core
    BY DEF Airlock!Frozen, Airlock!Core, Airlock!Bytes, Airlock!Room, Airlock!Did,
       Airlock!Destination, Airlock!Author
  <2>2. PICK e \in Airlock!Requested : request' = {e}
    BY <1>3, <2>1 DEF Airlock!Prepare, Airlock!Core, Airlock!Requested
  <2>3. QED
    BY <1>1, <1>3, <2>2, Singletons DEF Airlock!Prepare
<1>4. ASSUME Airlock!Edit PROVE Goal
  <2>0. PICK r \in request : \E e \in Airlock!Edited(r) : request' = {e}
    BY <1>4 DEF Airlock!Edit
  <2>1. PICK e \in Airlock!Edited(r) : request' = {e}
    BY <2>0
  <2>2. e \in Airlock!Requested
    <3>1. r \in Airlock!Requested
      BY <1>1
    <3>2. /\ Airlock!CoreOf(r) \in Airlock!Core /\ "edited" \in Airlock!Bytes
          /\ "other" \in {"post_frame", "other"}
      BY <3>1, CoreTyped DEF Airlock!Bytes
    <3>3. ASSUME e \in {[r EXCEPT !.bytes = "edited"],
                        [r EXCEPT !.bytes = "edited", !.hash = "edited"],
                        [r EXCEPT !.op = "other"], [r EXCEPT !.pin = "other"],
                        [r EXCEPT !.extended = TRUE], [r EXCEPT !.posting = TRUE],
                        [r EXCEPT !.fp = Airlock!CoreOf(r)]}
          PROVE  e \in Airlock!Requested
      BY ZenonT(30), <3>1, <3>2, <3>3 DEF Airlock!Requested
    <3>4. ASSUME NEW x \in Airlock!Room, e = [r EXCEPT !.room = x] PROVE e \in Airlock!Requested
      BY <3>1, <3>4 DEF Airlock!Requested
    <3>5. ASSUME NEW d \in Airlock!Did, e = [r EXCEPT !.did = d] PROVE e \in Airlock!Requested
      BY <3>1, <3>5 DEF Airlock!Requested
    <3>6. QED
      BY <3>3, <3>4, <3>5 DEF Airlock!Edited
  <2>3. edits' \in 0 .. MaxEdits
    BY <1>1, <1>4, AirlockAssumption DEF Airlock!Edit
  <2>4. QED
    BY <1>1, <1>4, <2>1, <2>2, <2>3, Singletons DEF Airlock!Edit
<1>5. ASSUME Airlock!Approve PROVE Goal
  <2>1. PICK r \in request : approval' = {Airlock!CoreOf(r)}
    BY <1>5 DEF Airlock!Approve
  <2>2. Airlock!CoreOf(r) \in Airlock!Core
    BY <1>1, CoreTyped
  <2>3. QED
    BY <1>1, <1>5, <2>1, <2>2, Singletons DEF Airlock!Approve
<1>6. ASSUME Airlock!Tick PROVE Goal
  BY <1>1, <1>6 DEF Airlock!Tick
<1>7. \/ UNCHANGED <<request, approval, edits, clock>>
      \/ Airlock!Edit \/ Airlock!Approve \/ Airlock!Tick \/ \E f \in Frame : Airlock!Prepare(f)
  BY DEF Airlock!Next, Airlock!vars, Airlock!SignDirectly, Airlock!Present, Airlock!Courier
<1>8. QED
  BY <1>2, <1>3, <1>4, <1>5, <1>6, <1>7

LEMMA ImpostorTyped ==
  ASSUME NEW a \in Airlock!Core, NEW s \in Airlock!Impostor(a)
  PROVE  s \in Airlock!Response
<1>1. 1 \in 1 .. MaxNonce
  BY AirlockAssumption
<1>2. a.hash \in Airlock!Bytes /\ a.bytes \in Airlock!Bytes /\ a.room \in Airlock!Room
  BY DEF Airlock!Core
<1>3. QED
  BY <1>1, <1>2 DEF Airlock!Impostor, Airlock!Response, Airlock!Message, Airlock!Did

\* A refusal says nothing about what was accepted.
LEMMA RefusalFacts ==
  ASSUME NEW r, NEW codes, NEW asked, Airlock!Refusal(codes, asked, r),
         codes \in {{"DUPLICATE_REQUEST_REFUSED"}, {"HANDOFF_REFUSED"},
                    {"REAL_INTERFACE_DRY_RUN_NOT_SUPPORTED"}, {"HANDOFF_ALLOWED"},
                    {"HANDOFF_ALLOWED", "SIGNER_REFUSED"},
                    {"HANDOFF_ALLOWED", "SIGNER_RESPONSE_REFUSED"}}
  PROVE  result'.codes \subseteq Airlock!Codes /\ Airlock!EligibleIsSettled'
<1>1. result'.codes = {"PREPARED", "REVIEWED"} \cup codes /\ result'.eligible = FALSE
  BY DEF Airlock!Refusal, Airlock!NoResult
<1>2. result'.codes \subseteq Airlock!Codes
  BY <1>1 DEF Airlock!Codes
<1>3. LampsFollow(result')
  BY <1>1 DEF LampsFollow
<1>4. \A i \in 2 .. 6 : Airlock!Lamps(result')[i] => Airlock!Lamps(result')[i - 1]
  BY <1>3, LampFacts
<1>5. QED
  BY <1>1, <1>2, <1>4 DEF Airlock!EligibleIsSettled

\* What the signer's side keeps: numbers, signatures and responses.
SignerKeeps ==
  /\ nonce' \in [Airlock!Room -> 0 .. MaxNonce]
  /\ signed' \subseteq [fp : Airlock!Core, over : Airlock!Message, kept : BOOLEAN]
  /\ responses' \subseteq Airlock!Response
  /\ Airlock!NoncesInOrder'
  /\ Airlock!NonceOnce => Airlock!NonceOnce'

\* What the verifier's side keeps: the ledger and the verdict.
LedgerKeeps ==
  /\ opened' \subseteq Airlock!Core /\ completed' \subseteq opened'
  /\ accepted' \subseteq Airlock!Response \X Airlock!Core \X BOOLEAN
  /\ result'.codes \subseteq Airlock!Codes
  /\ completed' = {x[2] : x \in {y \in accepted' : y[3]}}
  /\ Airlock!AcceptedIsApproved' /\ Airlock!SettledOnce' /\ Airlock!EligibleIsSettled'

LEMMA SignerIdle ==
  ASSUME AirlockSound, UNCHANGED <<nonce, signed, responses>>
  PROVE  SignerKeeps
BY DEF AirlockSound, Airlock!Inductive, Airlock!TypeOK, SignerKeeps, Airlock!NoncesInOrder,
   Airlock!NonceOnce

LEMMA SignerSigns ==
  ASSUME AirlockSound, NEW fp \in Airlock!Core, NEW core \in Airlock!Core,
         NEW brings \in SUBSET Airlock!Kept,
         Airlock!signApprovedChallenge(fp, core, brings),
         responses' \subseteq responses \cup {Airlock!Answer(fp, core, brings)}
  PROVE  SignerKeeps
<1>1. Airlock!Answer(fp, core, brings) \in Airlock!Response
  BY AnswerTyped DEF Airlock!signApprovedChallenge, AirlockSound, Airlock!Inductive
<1>2. responses' \subseteq Airlock!Response
  BY <1>1 DEF AirlockSound, Airlock!Inductive, Airlock!TypeOK
<1>3. QED
  BY <1>2, SignFacts DEF SignerKeeps

LEMMA LedgerIdle ==
  ASSUME AirlockSound, UNCHANGED <<completed, accepted, result>>,
         opened \subseteq opened', opened' \subseteq Airlock!Core
  PROVE  LedgerKeeps
BY DEF AirlockSound, Airlock!Inductive, Airlock!TypeOK, LedgerKeeps,
   Airlock!AcceptedIsApproved, Airlock!SettledOnce, Airlock!EligibleIsSettled, Airlock!Lamps

LEMMA LedgerRefuses ==
  ASSUME AirlockSound, UNCHANGED <<completed, accepted>>, NEW fp \in Airlock!Core,
         opened' = opened \/ opened' = opened \cup {fp},
         result'.codes \subseteq Airlock!Codes, Airlock!EligibleIsSettled'
  PROVE  LedgerKeeps
BY DEF AirlockSound, Airlock!Inductive, Airlock!TypeOK, LedgerKeeps,
   Airlock!AcceptedIsApproved, Airlock!SettledOnce

\* What a response is judged on: one that the courier holds.
LEMMA JudgeStep ==
  ASSUME AirlockSound, NEW r \in Airlock!Requested, NEW a \in Airlock!Core,
         NEW s \in Airlock!Response, NEW clocked \in BOOLEAN,
         NEW brings \in SUBSET Airlock!Kept,
         r.fp \in Airlock!Core, Airlock!Judge(r, a, s, clocked, brings)
  PROVE  LedgerKeeps
<1> DEFINE verified ==
             /\ Airlock!verifyResponse(r, a, s, clocked, {r.fp}, Airlock!Settled(brings))
             /\ s.kind = "TEST_VECTOR_SIGNER" /\ r.pin = "adopted" /\ a.hash = a.bytes
           eligible == Airlock!Eligible(r, verified)
<1>1. /\ opened' = IF "ledger" \in brings THEN opened \cup {r.fp} ELSE opened
      /\ opened \subseteq Airlock!Core /\ completed \subseteq opened
  BY DEF Airlock!Judge, Airlock!Opening, AirlockSound, Airlock!Inductive, Airlock!TypeOK
<1>2. IF verified THEN Airlock!Complete(r, s, brings) ELSE UNCHANGED <<completed, accepted>>
  BY DEF Airlock!Judge
<1>3. /\ result'.codes = {"PREPARED", "REVIEWED", "HANDOFF_ALLOWED", "SIGNER_RESPONSE_RECEIVED",
                          IF verified THEN "LOCALLY_VERIFIED" ELSE "LOCAL_VERIFY_FAILED",
                          IF eligible THEN "POST_ELIGIBLE" ELSE "POST_ELIGIBILITY_REFUSED"}
      /\ result'.eligible = eligible /\ result'.fp = {r.fp}
  BY DEF Airlock!Judge
<1>4. eligible => verified
  BY DEF Airlock!Eligible
<1>5. verified => Airlock!verifyResponse(r, a, s, clocked, {r.fp}, Airlock!Settled(brings))
  OBVIOUS
<1> HIDE DEF verified, eligible
<1>6. result'.codes \subseteq Airlock!Codes
  BY <1>3 DEF Airlock!Codes
<1>7. LampsFollow(result')
  <2>1. "LOCALLY_VERIFIED" \in result'.codes <=> verified
    BY <1>3
  <2>2. QED
    BY <1>3, <1>4, <2>1 DEF LampsFollow
<1>8. \A i \in 2 .. 6 : Airlock!Lamps(result')[i] => Airlock!Lamps(result')[i - 1]
  BY <1>7, LampFacts
<1>9. CASE verified
  <2>1. /\ completed' = IF "ledger" \in brings THEN completed \cup {r.fp} ELSE completed
        /\ accepted' = accepted \cup {<<s, r.fp, "ledger" \in brings>>}
        /\ accepted' \subseteq Airlock!Response \X Airlock!Core \X BOOLEAN
        /\ completed' = {x[2] : x \in {y \in accepted' : y[3]}}
        /\ Airlock!AcceptedIsApproved' /\ Airlock!SettledOnce'
    BY <1>2, <1>5, <1>9, CompleteFacts
  <2>2. r.fp \in {x[2] : x \in accepted'}
    <3>1. <<s, r.fp, "ledger" \in brings>>[2] = r.fp
      OBVIOUS
    <3> QED BY <2>1, <3>1
  <2>3. Airlock!EligibleIsSettled'
    BY <1>3, <1>8, <2>2 DEF Airlock!EligibleIsSettled
  <2>4. opened' \subseteq Airlock!Core /\ completed' \subseteq opened'
    BY <1>1, <2>1
  <2>5. QED
    BY <1>6, <2>1, <2>3, <2>4 DEF LedgerKeeps
<1>10. CASE ~verified
  <2>1. completed' = completed /\ accepted' = accepted
    BY <1>2, <1>10
  <2>2. Airlock!EligibleIsSettled'
    BY <1>3, <1>4, <1>8, <1>10 DEF Airlock!EligibleIsSettled
  <2>3. QED
    BY <1>1, <1>6, <2>1, <2>2, LedgerRefuses
<1>11. QED
  BY <1>9, <1>10

LEMMA CourierStep ==
  ASSUME AirlockSound, NEW clocked \in BOOLEAN, NEW brings \in SUBSET Airlock!Kept,
         Airlock!Courier(clocked, brings)
  PROVE  SignerKeeps /\ LedgerKeeps
<1>1. /\ request \subseteq Airlock!Requested /\ approval \subseteq Airlock!Core
      /\ responses \subseteq Airlock!Response
  BY DEF AirlockSound, Airlock!Inductive, Airlock!TypeOK
<1>2. PICK r \in request :
        \/ Airlock!Refuse(r, clocked, brings)
        \/ \E a \in approval :
             /\ Airlock!validateHandoff(r, a, clocked, Airlock!Settled(brings))
             /\ \/ \E c \in {"REAL_INTERFACE_DRY_RUN_NOT_SUPPORTED", "HANDOFF_ALLOWED"} :
                     Airlock!DryRun(r, c)
                \/ Airlock!Declined(r, a, brings)
                \/ /\ Airlock!signApprovedChallenge(a, a, brings)
                   /\ responses' = responses \cup {Airlock!Answer(a, a, brings)}
                   /\ Airlock!Judge(r, a, Airlock!Answer(a, a, brings), clocked, brings)
                \/ \E s \in responses \cup Airlock!Impostor(a) :
                     /\ Airlock!Judge(r, a, s, clocked, brings)
                     /\ UNCHANGED <<nonce, signed, responses>>
  BY DEF Airlock!Courier
<1>3. r \in Airlock!Requested /\ r.fp \in Airlock!Core
  BY <1>1, CoreTyped
<1>4. ASSUME Airlock!Refuse(r, clocked, brings) PROVE SignerKeeps /\ LedgerKeeps
  <2>1. UNCHANGED <<completed, accepted, opened, nonce, signed, responses>>
    BY <1>4 DEF Airlock!Refuse, Airlock!ledger
  <2>2. result'.codes \subseteq Airlock!Codes /\ Airlock!EligibleIsSettled'
    BY <1>4, RefusalFacts DEF Airlock!Refuse
  <2>3. QED
    BY <1>3, <2>1, <2>2, SignerIdle, LedgerRefuses
<1>5. ASSUME NEW c \in {"REAL_INTERFACE_DRY_RUN_NOT_SUPPORTED", "HANDOFF_ALLOWED"},
             Airlock!DryRun(r, c)
      PROVE  SignerKeeps /\ LedgerKeeps
  <2>1. UNCHANGED <<completed, accepted, opened, nonce, signed, responses>>
    BY <1>5 DEF Airlock!DryRun, Airlock!ledger
  <2>2. result'.codes \subseteq Airlock!Codes /\ Airlock!EligibleIsSettled'
    BY <1>5, RefusalFacts DEF Airlock!DryRun
  <2>3. QED
    BY <1>3, <2>1, <2>2, SignerIdle, LedgerRefuses
<1>6. \A a \in approval : a \in Airlock!Core
  BY <1>1
<1>7. ASSUME NEW a \in approval, Airlock!Declined(r, a, brings)
      PROVE  SignerKeeps /\ LedgerKeeps
  <2>1. /\ opened' = opened \/ opened' = opened \cup {r.fp}
        /\ UNCHANGED <<completed, responses, accepted>>
    BY <1>7 DEF Airlock!Declined, Airlock!Opening
  <2>2. result'.codes \subseteq Airlock!Codes /\ Airlock!EligibleIsSettled'
    BY <1>7, RefusalFacts DEF Airlock!Declined
  <2>3. LedgerKeeps
    BY <1>3, <2>1, <2>2, LedgerRefuses
  <2>4. UNCHANGED <<nonce, signed>> \/ Airlock!signApprovedChallenge(a, a, brings)
    BY <1>7 DEF Airlock!Declined
  <2>5. SignerKeeps
    BY <1>6, <2>1, <2>4, SignerIdle, SignerSigns
  <2>6. QED
    BY <2>3, <2>5
<1>8. ASSUME NEW a \in approval, Airlock!signApprovedChallenge(a, a, brings),
             responses' = responses \cup {Airlock!Answer(a, a, brings)},
             Airlock!Judge(r, a, Airlock!Answer(a, a, brings), clocked, brings)
      PROVE  SignerKeeps /\ LedgerKeeps
  <2>1. Airlock!Answer(a, a, brings) \in Airlock!Response
    BY <1>6, <1>8, AnswerTyped DEF Airlock!signApprovedChallenge, AirlockSound,
       Airlock!Inductive
  <2>2. LedgerKeeps
    BY <1>3, <1>6, <1>8, <2>1, JudgeStep
  <2>3. QED
    BY <1>6, <1>8, <2>2, SignerSigns
<1>9. ASSUME NEW a \in approval, NEW s \in responses \cup Airlock!Impostor(a),
             Airlock!Judge(r, a, s, clocked, brings), UNCHANGED <<nonce, signed, responses>>
      PROVE  SignerKeeps /\ LedgerKeeps
  <2>1. s \in Airlock!Response
    BY <1>1, <1>6, ImpostorTyped
  <2>2. LedgerKeeps
    BY <1>3, <1>6, <1>9, <2>1, JudgeStep
  <2>3. QED
    BY <1>9, <2>2, SignerIdle
<1>10. QED
  BY <1>2, <1>4, <1>5, <1>7, <1>8, <1>9

LEMMA SettleStep ==
  ASSUME AirlockSound, [Airlock!Next]_(Airlock!vars)
  PROVE  SignerKeeps /\ LedgerKeeps
<1>1. /\ request \subseteq Airlock!Requested /\ approval \subseteq Airlock!Core
      /\ responses \subseteq Airlock!Response
      /\ opened \subseteq Airlock!Core /\ completed \subseteq opened
  BY DEF AirlockSound, Airlock!Inductive, Airlock!TypeOK
<1>0. Airlock!Kept \in SUBSET Airlock!Kept /\ "ledger" \in Airlock!Kept
      /\ Airlock!Settled(Airlock!Kept) = completed
  BY DEF Airlock!Kept, Airlock!Settled
<1>2. ASSUME Airlock!SignDirectly PROVE SignerKeeps /\ LedgerKeeps
  <2>1. PICK r \in request :
          /\ Airlock!signApprovedChallenge(r.fp, Airlock!CoreOf(r), Airlock!Kept)
          /\ responses' = responses \cup {Airlock!Answer(r.fp, Airlock!CoreOf(r), Airlock!Kept)}
          /\ opened' = opened \cup {r.fp} /\ UNCHANGED <<completed, accepted, result>>
    BY <1>2 DEF Airlock!SignDirectly
  <2>2. r.fp \in Airlock!Core /\ Airlock!CoreOf(r) \in Airlock!Core
    BY <1>1, CoreTyped
  <2>3. QED
    BY <1>0, <1>1, <2>1, <2>2, SignerSigns, LedgerIdle
<1>3. ASSUME Airlock!Present PROVE SignerKeeps /\ LedgerKeeps
  <2>1. PICK r \in request, a \in approval, s \in responses :
          /\ Airlock!verifyResponse(r, a, s, TRUE, opened, completed)
          /\ Airlock!Complete(r, s, Airlock!Kept)
          /\ UNCHANGED <<opened, nonce, signed, responses, result>>
    BY <1>3 DEF Airlock!Present
  <2>2. /\ completed' = completed \cup {r.fp} /\ r.fp \in opened
        /\ accepted' = accepted \cup {<<s, r.fp, "ledger" \in Airlock!Kept>>}
        /\ accepted' \subseteq Airlock!Response \X Airlock!Core \X BOOLEAN
        /\ completed' = {x[2] : x \in {y \in accepted' : y[3]}}
        /\ Airlock!AcceptedIsApproved' /\ Airlock!SettledOnce'
    BY <1>0, <1>1, <2>1, CompleteFacts
  <2>3. Airlock!EligibleIsSettled'
    <3>1. accepted \subseteq accepted' /\ result' = result
      BY <2>1, <2>2
    <3> QED BY <3>1 DEF AirlockSound, Airlock!EligibleIsSettled, Airlock!Lamps
  <2>4. LedgerKeeps
    BY <1>1, <2>1, <2>2, <2>3 DEF LedgerKeeps, AirlockSound, Airlock!Inductive, Airlock!TypeOK
  <2>5. QED
    BY <2>1, <2>4, SignerIdle
<1>4. ASSUME UNCHANGED <<opened, completed, nonce, signed, responses, accepted, result>>
      PROVE  SignerKeeps /\ LedgerKeeps
  BY <1>1, <1>4, SignerIdle, LedgerIdle
<1>5. \/ UNCHANGED <<opened, completed, nonce, signed, responses, accepted, result>>
      \/ Airlock!SignDirectly \/ Airlock!Present
      \/ \E clocked \in BOOLEAN, brings \in SUBSET Airlock!Kept : Airlock!Courier(clocked, brings)
  BY DEF Airlock!Next, Airlock!vars, Airlock!ledger, Airlock!Prepare, Airlock!Edit,
     Airlock!Approve, Airlock!Tick
<1>6. QED
  BY <1>2, <1>3, <1>4, <1>5, CourierStep

LEMMA AirlockStep == AirlockSound /\ [Airlock!Next]_(Airlock!vars) => AirlockSound'
<1> SUFFICES ASSUME AirlockSound, [Airlock!Next]_(Airlock!vars) PROVE AirlockSound'
  OBVIOUS
<1>1. Airlock!TypeOK'
  BY Counts, RequestStep, SettleStep DEF Airlock!TypeOK, SignerKeeps, LedgerKeeps
<1>2. QED
  BY <1>1, SettleStep DEF AirlockSound, Airlock!Inductive, SignerKeeps, LedgerKeeps

THEOREM AirlockHolds == Airlock!Spec => []AirlockSound
BY AirlockBegin, AirlockStep, PTL DEF Airlock!Spec

THEOREM AirlockNonceOnce == Airlock!Spec => []Airlock!NonceOnce
<1>1. AirlockSound /\ Airlock!NonceOnce /\ [Airlock!Next]_(Airlock!vars) => Airlock!NonceOnce'
  BY SettleStep DEF SignerKeeps
<1>2. QED
  BY <1>1, AirlockBegin, AirlockHolds, PTL DEF Airlock!Spec

-----------------------------------------------------------------------------
(***************************************************************************)
(* The identity hub and the files of the deals.                            *)
(***************************************************************************)
HubSound == Hub!Inductive /\ Hub!TwoAgents

LEMMA Pairs == ASSUME NEW a, NEW b, a # b PROVE Cardinality({a, b}) = 2
<1>1. IsFiniteSet({a}) /\ Cardinality({a}) = 1
  BY FS_Singleton
<1>2. Cardinality({a} \cup {b}) = 2
  BY <1>1, FS_AddElement
<1>3. {a} \cup {b} = {a, b}
  OBVIOUS
<1>4. QED
  BY <1>2, <1>3

\* The identities found are the DIDs of the markers there are.
LEMMA IdentitiesTyped ==
  ASSUME Hub!TypeOK
  PROVE  Hub!identities \subseteq Agent /\ None \notin Hub!identities
BY DEF Hub!TypeOK, Hub!identities, Hub!candidate, Hub!Install

LEMMA HubBegin == Hub!Init => HubSound
BY HubAssumption DEF Hub!Init, HubSound, Hub!Inductive, Hub!TypeOK, Hub!TwoAgents,
   Hub!FilesInOrder, Hub!Install, Hub!Files, Hub!NoFiles, Hub!Pcs, Hub!Making

\* A call in the middle of a deal makes the next of its files.
LEMMA FileStep ==
  ASSUME HubSound, NEW c \in HubCall, Hub!MakeFile(c)
  PROVE  HubSound'
<1>1. /\ selecting \in [HubCall -> Hub!Pcs] /\ deal \in [HubCall -> Deal \cup {None}]
      /\ deals \in [Deal -> Hub!Files] /\ selecting[c] \in Hub!Making
  BY DEF HubSound, Hub!Inductive, Hub!TypeOK, Hub!MakeFile
<1> DEFINE x == deal[c]
           f == selecting[c]
<1>2. x \in Deal /\ x # None /\ ~deals[x][f] /\ parties[x] # {}
  BY <1>1 DEF HubSound, Hub!Inductive
<1>3. UNCHANGED <<installed, primary, chosen, parties>>
  BY DEF Hub!MakeFile
<1>4. \A d \in HubCall : d # c =>
        selecting'[d] = selecting[d] /\ deal'[d] = deal[d] /\ (deal[d] # None => deal[d] # x)
  BY <1>1, <1>2 DEF Hub!MakeFile, Hub!Goto, HubSound, Hub!Inductive
<1>5. /\ deals' \in [Deal -> Hub!Files]
      /\ \A d \in Deal : d # x => deals'[d] = deals[d]
      /\ \A g \in Hub!Making : deals'[x][g] <=> g = f \/ deals[x][g]
  <2> DEFINE e == [deals[x] EXCEPT ![f] = TRUE]
  <2>1. deals' = [deals EXCEPT ![x] = e]
    BY DEF Hub!MakeFile, Hub!Made
  <2>2. Hub!Files = [Hub!Making -> BOOLEAN]
    BY DEF Hub!Files, Hub!Making
  <2>3. deals[x] \in [Hub!Making -> BOOLEAN]
    BY <1>1, <1>2, <2>2
  <2>4. e \in Hub!Files /\ \A g \in Hub!Making : e[g] <=> g = f \/ deals[x][g]
    BY <1>1, <2>2, <2>3
  <2> HIDE DEF e
  <2>5. QED
    BY <1>1, <1>2, <2>1, <2>4
<1>6. selecting' \in [HubCall -> Hub!Pcs] /\ deal' \in [HubCall -> Deal \cup {None}]
  BY <1>1 DEF Hub!MakeFile, Hub!Goto, Hub!After, Hub!Pcs, Hub!Making
<1>7. Hub!TypeOK' /\ Hub!TwoAgents'
  BY <1>3, <1>5, <1>6 DEF HubSound, Hub!Inductive, Hub!TypeOK, Hub!TwoAgents
\* The file is the next in order, and the one after it is missing still.
<1>8. /\ f = "directory" => selecting'[c] = "secretFile" /\ deal'[c] = x
      /\ f = "secretFile" => selecting'[c] = "secret" /\ deal'[c] = x
      /\ f = "secret" => selecting'[c] = "sessionFile" /\ deal'[c] = x
      /\ f = "sessionFile" => selecting'[c] = "session" /\ deal'[c] = x
      /\ f = "session" => selecting'[c] = "idle" /\ deal'[c] = None
  BY <1>1 DEF Hub!MakeFile, Hub!Goto, Hub!After
<1>9. /\ f = "directory" \/ f = "secretFile" \/ f = "secret" \/ f = "sessionFile" \/ f = "session"
      /\ \A g \in {"directory", "secretFile", "secret", "sessionFile", "session"} : g \in Hub!Making
  BY <1>1 DEF Hub!Making
<1>10. /\ deals[x].session => deals[x].sessionFile
       /\ deals[x].sessionFile => deals[x].secret
       /\ deals[x].secret => deals[x].secretFile
       /\ deals[x].secretFile => deals[x].directory
       /\ f = "secretFile" => deals[x].directory
       /\ f = "secret" => deals[x].secretFile
       /\ f = "sessionFile" => deals[x].secret
       /\ f = "session" => deals[x].sessionFile
  BY <1>2 DEF HubSound, Hub!Inductive, Hub!FilesInOrder
<1> HIDE DEF x, f
<1>11. /\ deals'[x].session => deals'[x].sessionFile
       /\ deals'[x].sessionFile => deals'[x].secret
       /\ deals'[x].secret => deals'[x].secretFile
       /\ deals'[x].secretFile => deals'[x].directory
       /\ selecting'[c] = "secretFile" => deals'[x].directory
       /\ selecting'[c] = "secret" => deals'[x].secretFile
       /\ selecting'[c] = "sessionFile" => deals'[x].secret
       /\ selecting'[c] = "session" => deals'[x].sessionFile
       /\ selecting'[c] # "idle" => ~deals'[x][selecting'[c]]
  BY <1>2, <1>5, <1>8, <1>9, <1>10
<1>12. Hub!FilesInOrder'
  <2>1. ASSUME NEW d \in HubCall
        PROVE  /\ selecting'[d] = "secretFile" => deals'[deal'[d]].directory
               /\ selecting'[d] = "secret" => deals'[deal'[d]].secretFile
               /\ selecting'[d] = "sessionFile" => deals'[deal'[d]].secret
               /\ selecting'[d] = "session" => deals'[deal'[d]].sessionFile
    <3>1. CASE d = c
      BY <1>8, <1>9, <1>11, <3>1
    <3>2. CASE d # c
      <4>1. selecting[d] \in Hub!Making => deal[d] # None /\ deal[d] \in Deal /\ deal[d] # x
        BY <1>1, <1>4, <3>2 DEF HubSound, Hub!Inductive
      <4>2. /\ selecting[d] = "secretFile" => deals[deal[d]].directory
            /\ selecting[d] = "secret" => deals[deal[d]].secretFile
            /\ selecting[d] = "sessionFile" => deals[deal[d]].secret
            /\ selecting[d] = "session" => deals[deal[d]].sessionFile
        BY DEF HubSound, Hub!Inductive, Hub!FilesInOrder
      <4>3. selecting'[d] = selecting[d] /\ deal'[d] = deal[d]
        BY <1>4, <3>2
      <4>4. QED
        BY <1>5, <4>1, <4>2, <4>3 DEF Hub!Making
    <3>3. QED
      BY <3>1, <3>2
  <2>2. ASSUME NEW d \in Deal
        PROVE  /\ deals'[d].session => deals'[d].sessionFile
               /\ deals'[d].sessionFile => deals'[d].secret
               /\ deals'[d].secret => deals'[d].secretFile
               /\ deals'[d].secretFile => deals'[d].directory
               /\ deals'[d].directory => parties'[d] # {}
    <3>1. CASE d = x
      BY <1>2, <1>3, <1>11, <3>1
    <3>2. CASE d # x
      BY <1>3, <1>5, <3>2 DEF HubSound, Hub!Inductive, Hub!FilesInOrder
    <3>3. QED
      BY <3>1, <3>2
  <2>3. QED
    BY <2>1, <2>2 DEF Hub!FilesInOrder
<1>13. ASSUME NEW d \in HubCall
       PROVE  /\ selecting'[d] \in Hub!Making <=> deal'[d] # None
              /\ deal'[d] # None => parties'[deal'[d]] # {} /\ ~deals'[deal'[d]][selecting'[d]]
              /\ selecting'[d] \in {"open", "write"} <=> chosen'[d] # None
              /\ deal'[d] # None => deal'[d] \in Deal
  <2>1. /\ selecting[d] \in Hub!Making <=> deal[d] # None
        /\ deal[d] # None => parties[deal[d]] # {} /\ ~deals[deal[d]][selecting[d]]
        /\ selecting[d] \in {"open", "write"} <=> chosen[d] # None
        /\ deal[d] # None => deal[d] \in Deal
    BY <1>1 DEF HubSound, Hub!Inductive
  <2>2. CASE d = c
    BY <1>1, <1>2, <1>3, <1>8, <1>9, <1>11, <2>1, <2>2 DEF Hub!Making, x
  <2>3. CASE d # c
    BY <1>3, <1>4, <1>5, <2>1, <2>3
  <2>4. QED
    BY <2>2, <2>3
<1>14. \A d, e \in HubCall : deal'[d] = deal'[e] /\ deal'[d] # None => d = e
  <2>1. deal'[c] = x \/ deal'[c] = None
    BY <1>8, <1>9
  <2>2. \A d, e \in HubCall : deal[d] = deal[e] /\ deal[d] # None => d = e
    BY DEF HubSound, Hub!Inductive
  <2>3. QED
    BY <1>4, <2>1, <2>2
<1>15. QED
  BY <1>7, <1>12, <1>13, <1>14 DEF HubSound, Hub!Inductive

\* A new deal has two agents, and no file yet.
LEMMA DealStep ==
  ASSUME HubSound, NEW c \in HubCall, Hub!createDealSession(c)
  PROVE  HubSound'
<1>1. /\ selecting \in [HubCall -> Hub!Pcs] /\ deal \in [HubCall -> Deal \cup {None}]
      /\ parties \in [Deal -> SUBSET Agent] /\ selecting[c] = "profiles"
  BY DEF HubSound, Hub!Inductive, Hub!TypeOK, Hub!createDealSession
<1>2. UNCHANGED <<installed, primary, chosen, deals>>
  BY DEF Hub!createDealSession
<1>3. deal[c] = None /\ chosen[c] = None
  BY <1>1 DEF HubSound, Hub!Inductive, Hub!TypeOK, Hub!Making
<1>4. CASE Hub!Goto(c, "idle") /\ UNCHANGED <<deal, parties>>
  <2>1. /\ selecting' \in [HubCall -> Hub!Pcs] /\ selecting'[c] = "idle"
        /\ \A d \in HubCall : d # c => selecting'[d] = selecting[d]
    BY <1>1, <1>4 DEF Hub!Goto, Hub!Pcs, Hub!Making
  <2>2. QED
    BY <1>1, <1>2, <1>3, <1>4, <2>1 DEF HubSound, Hub!Inductive, Hub!TypeOK, Hub!FilesInOrder,
       Hub!TwoAgents, Hub!Making
<1>5. ASSUME NEW a \in Hub!identities, NEW b \in Hub!identities, NEW d \in Deal,
             Hub!Distinct(a, b), Hub!Fresh(d), parties' = [parties EXCEPT ![d] = {a, b}],
             deal' = [deal EXCEPT ![c] = d], Hub!Goto(c, "directory")
      PROVE  HubSound'
  <2>1. a \in Agent /\ b \in Agent /\ Cardinality({a, b}) = 2
    BY <1>5, IdentitiesTyped, Pairs DEF Hub!Distinct, HubSound, Hub!Inductive
  <2>2. /\ selecting' \in [HubCall -> Hub!Pcs] /\ selecting'[c] = "directory"
        /\ \A e \in HubCall : e # c => selecting'[e] = selecting[e]
    BY <1>1, <1>5 DEF Hub!Goto, Hub!Pcs, Hub!Making
  <2>3. /\ deal' \in [HubCall -> Deal \cup {None}] /\ deal'[c] = d
        /\ \A e \in HubCall : e # c => deal'[e] = deal[e]
    BY <1>1, <1>5
  <2>4. /\ parties' \in [Deal -> SUBSET Agent] /\ parties'[d] = {a, b}
        /\ \A e \in Deal : e # d => parties'[e] = parties[e]
    BY <1>1, <1>5, <2>1
  <2>5. parties[d] = {} /\ d # None
    BY <1>5, HubAssumption DEF Hub!Fresh
  <2>6. \A e \in HubCall : deal[e] # d
    BY <2>5 DEF HubSound, Hub!Inductive
  <2>7. ~deals[d].directory /\ ~deals[d]["directory"]
    BY <2>5 DEF HubSound, Hub!Inductive, Hub!FilesInOrder
  <2>8. Hub!TypeOK' /\ Hub!TwoAgents'
    BY ZenonT(30), <1>2, <2>1, <2>2, <2>3, <2>4, Counts DEF HubSound, Hub!Inductive, Hub!TypeOK,
       Hub!TwoAgents
  <2>9. Hub!FilesInOrder'
    BY <1>2, <2>2, <2>3, <2>4 DEF HubSound, Hub!Inductive, Hub!FilesInOrder
  <2>10. ASSUME NEW e \in HubCall
         PROVE  /\ selecting'[e] \in Hub!Making <=> deal'[e] # None
                /\ deal'[e] # None => parties'[deal'[e]] # {} /\ ~deals'[deal'[e]][selecting'[e]]
                /\ selecting'[e] \in {"open", "write"} <=> chosen'[e] # None
    <3>1. CASE e = c
      BY <1>2, <1>3, <2>2, <2>3, <2>4, <2>5, <2>7, <3>1 DEF Hub!Making
    <3>2. CASE e # c
      <4>1. selecting'[e] = selecting[e] /\ deal'[e] = deal[e] /\ chosen'[e] = chosen[e]
        BY <1>2, <2>2, <2>3, <3>2
      <4>2. deal[e] # None => deal[e] \in Deal /\ parties'[deal[e]] = parties[deal[e]]
        BY <1>1, <2>4, <2>6
      <4>3. /\ selecting[e] \in Hub!Making <=> deal[e] # None
            /\ deal[e] # None => parties[deal[e]] # {} /\ ~deals[deal[e]][selecting[e]]
            /\ selecting[e] \in {"open", "write"} <=> chosen[e] # None
        BY DEF HubSound, Hub!Inductive
      <4>4. QED
        BY <1>2, <4>1, <4>2, <4>3
    <3>3. QED
      BY <3>1, <3>2
  <2>11. \A e, f \in HubCall : deal'[e] = deal'[f] /\ deal'[e] # None => e = f
    BY <2>3, <2>6 DEF HubSound, Hub!Inductive
  <2>12. QED
    BY <2>8, <2>9, <2>10, <2>11 DEF HubSound, Hub!Inductive
<1>6. QED
  BY <1>4, <1>5 DEF Hub!createDealSession

LEMMA ChoiceStep ==
  ASSUME HubSound, NEW c \in HubCall,
         Hub!SelectPrimary(c) \/ Hub!OpenPrimary(c) \/ Hub!WritePrimary(c) \/ Hub!StartDeal(c)
  PROVE  HubSound'
<1>1. /\ selecting \in [HubCall -> Hub!Pcs] /\ deal \in [HubCall -> Deal \cup {None}]
      /\ chosen \in [HubCall -> Agent \cup {None}] /\ primary \in Agent \cup {None, "empty"}
  BY DEF HubSound, Hub!Inductive, Hub!TypeOK
<1>2. UNCHANGED <<installed, deal, deals, parties>>
  BY DEF Hub!SelectPrimary, Hub!OpenPrimary, Hub!WritePrimary, Hub!StartDeal
<1>3. /\ selecting'[c] \notin Hub!Making
      /\ selecting' \in [HubCall -> Hub!Pcs]
      /\ selecting[c] \notin Hub!Making
      /\ \A d \in HubCall : d # c => selecting'[d] = selecting[d] /\ chosen'[d] = chosen[d]
      /\ chosen' \in [HubCall -> Agent \cup {None}] /\ primary' \in Agent \cup {None, "empty"}
      /\ selecting'[c] \in {"open", "write"} <=> chosen'[c] # None
  <2>1. CASE Hub!SelectPrimary(c)
    <3>1. PICK d \in Hub!identities : chosen' = [chosen EXCEPT ![c] = d]
      BY <2>1 DEF Hub!SelectPrimary
    <3>2. d \in Agent /\ d # None
      BY IdentitiesTyped DEF HubSound, Hub!Inductive
    <3>3. QED
      BY <1>1, <2>1, <3>1, <3>2 DEF Hub!SelectPrimary, Hub!Goto, Hub!Pcs, Hub!Making
  <2>2. CASE Hub!OpenPrimary(c)
    BY <1>1, <2>2 DEF Hub!OpenPrimary, Hub!Goto, Hub!Pcs, Hub!Making,
       HubSound, Hub!Inductive
  <2>3. CASE Hub!WritePrimary(c)
    BY <1>1, <2>3 DEF Hub!WritePrimary, Hub!Goto, Hub!Pcs, Hub!Making
  <2>4. CASE Hub!StartDeal(c)
    BY <1>1, <2>4 DEF Hub!StartDeal, Hub!Goto, Hub!Pcs, Hub!Making,
       HubSound, Hub!Inductive
  <2>5. QED
    BY <2>1, <2>2, <2>3, <2>4
<1>4. deal[c] = None
  BY <1>1, <1>3 DEF HubSound, Hub!Inductive
<1>5. Hub!TypeOK' /\ Hub!TwoAgents'
  BY <1>2, <1>3 DEF HubSound, Hub!Inductive, Hub!TypeOK, Hub!TwoAgents
<1>6. Hub!FilesInOrder'
  BY <1>2, <1>3 DEF HubSound, Hub!Inductive, Hub!FilesInOrder, Hub!Making
<1>7. QED
  BY <1>2, <1>3, <1>4, <1>5, <1>6 DEF HubSound, Hub!Inductive

LEMMA HubStep == HubSound /\ [Hub!Next]_(Hub!vars) => HubSound'
<1> SUFFICES ASSUME HubSound, [Hub!Next]_(Hub!vars) PROVE HubSound'
  OBVIOUS
<1>1. CASE Hub!Crash
  BY <1>1 DEF Hub!Crash, HubSound, Hub!Inductive, Hub!TypeOK, Hub!FilesInOrder, Hub!TwoAgents,
     Hub!Pcs, Hub!Making
<1>2. CASE Hub!ChangeInstall
  BY <1>2 DEF Hub!ChangeInstall, HubSound, Hub!Inductive, Hub!TypeOK, Hub!FilesInOrder,
     Hub!TwoAgents
<1>3. CASE UNCHANGED Hub!vars
  BY <1>3 DEF Hub!vars, HubSound, Hub!Inductive, Hub!TypeOK, Hub!FilesInOrder, Hub!TwoAgents
<1>4. QED
  BY <1>1, <1>2, <1>3, FileStep, DealStep, ChoiceStep DEF Hub!Next

THEOREM HubHolds == Hub!Spec => []HubSound
BY HubBegin, HubStep, PTL DEF Hub!Spec

THEOREM HubSecret == Hub!Spec => []Hub!SecretIsThere
<1>1. HubSound => Hub!SecretIsThere
  BY DEF HubSound, Hub!Inductive, Hub!FilesInOrder, Hub!SecretIsThere
<1>2. QED
  BY <1>1, HubHolds, PTL

-----------------------------------------------------------------------------
(***************************************************************************)
(* The nonce store: no nonce is given twice.                               *)
(***************************************************************************)
USE LimitAssumption DEF NONCE_PATTERN

LEMMA NonceInit == Init => Inductive
  BY DEF Init, Inductive, TypeOK, LockInv, FileInv, NextInv, Reservation, Call, Decision

\* The file after a rename: the new reservation is the highest of its lane, and
\* new.
LEMMA ReplaceKeeps ==
  ASSUME Inductive, NEW d \in writing, Replace(d)
  PROVE  /\ counters' \in [Lane -> NONCE_PATTERN] /\ requests' \subseteq Reservation
         /\ FileInv'
         /\ requests' = requests \cup {d.reservation}
<1>1. /\ d \in Decision /\ d.reservation \in Reservation
      /\ d.counters = counters /\ d.requests = requests
  BY DEF Inductive, TypeOK, LockInv, Decision
<1> DEFINE n == d.reservation
<1>2. /\ n.lane \in Lane /\ n.nonce \in NONCE_PATTERN /\ n.request \in Request
  BY <1>1 DEF Reservation
<1>3. /\ counters' = [counters EXCEPT ![n.lane] = n.nonce]
      /\ requests' = requests \cup {n}
  BY <1>1 DEF Replace
<1>4. counters' \in [Lane -> NONCE_PATTERN] /\ requests' \subseteq Reservation
  BY <1>1, <1>2, <1>3 DEF Inductive, TypeOK
<1>5. \A l \in Lane : counters[l] <= counters'[l]
  BY <1>2, <1>3 DEF Inductive, TypeOK, NextInv
<1>6. \A r \in requests' : r.nonce <= counters'[r.lane]
  <2> SUFFICES ASSUME NEW r \in requests' PROVE r.nonce <= counters'[r.lane]
    OBVIOUS
  <2>1. CASE r = n
    BY <2>1, <1>2, <1>3 DEF Inductive, TypeOK
  <2>2. CASE r \in requests
    <3>1. /\ r \in Reservation /\ r.lane \in Lane /\ r.nonce \in NONCE_PATTERN
          /\ r.nonce <= counters[r.lane]
      BY <2>2 DEF Inductive, TypeOK, FileInv, Reservation
    <3>2. counters[r.lane] \in Nat /\ counters'[r.lane] \in Nat
      BY <3>1, <1>4 DEF Inductive, TypeOK
    <3> QED BY <3>1, <3>2, <1>5
  <2> QED BY <2>1, <2>2, <1>3
<1>7. \A r \in requests : r.request # n.request /\ (r.lane = n.lane => r.nonce # n.nonce)
  <2> SUFFICES ASSUME NEW r \in requests
               PROVE  r.request # n.request /\ (r.lane = n.lane => r.nonce # n.nonce)
    OBVIOUS
  <2>1. r.lane \in Lane /\ r.nonce \in NONCE_PATTERN /\ r.nonce <= counters[r.lane]
    BY DEF Inductive, TypeOK, FileInv, Reservation
  <2>2. n.nonce > counters[n.lane] /\ r.request # n.request
    BY DEF Inductive, NextInv
  <2>3. counters[n.lane] \in Nat
    BY <1>2 DEF Inductive, TypeOK
  <2> QED BY <2>1, <2>2, <2>3, <1>2
<1>8. \A r, s \in requests' :
        r.request = s.request \/ (r.lane = s.lane /\ r.nonce = s.nonce) => r = s
  BY <1>3, <1>7 DEF Inductive, FileInv
<1> QED BY <1>3, <1>4, <1>6, <1>8 DEF FileInv

\* Every step of the store keeps the invariant.
LEMMA NonceStep == Inductive /\ [Next]_vars => Inductive'
<1> SUFFICES ASSUME Inductive, [Next]_vars PROVE Inductive'
  OBVIOUS
<1>0. CASE UNCHANGED vars
  BY <1>0 DEF vars, file, Inductive, TypeOK, LockInv, FileInv, NextInv
<1>1. CASE Ask
  <2> PICK c \in Call :
        waiting' = waiting \cup {c} /\ UNCHANGED <<file, reading, writing, returned>>
    BY <1>1 DEF Ask
  <2> QED BY DEF file, Inductive, TypeOK, LockInv, FileInv, NextInv
<1>2. CASE Crash
  <2>1. CASE UNCHANGED file
    BY <1>2, <2>1 DEF Crash, file, Inductive, TypeOK, LockInv, FileInv, NextInv
  <2>2. ASSUME NEW d \in writing, Replace(d) PROVE Inductive'
    <3>1. /\ counters' \in [Lane -> NONCE_PATTERN] /\ requests' \subseteq Reservation
          /\ FileInv' /\ requests' = requests \cup {d.reservation}
      BY <2>2, ReplaceKeeps
    <3> QED BY <1>2, <3>1 DEF Crash, Inductive, TypeOK, LockInv, NextInv
  <2> QED BY <1>2, <2>1, <2>2 DEF Crash
<1>3. ASSUME NEW c \in waiting, locked(c) PROVE Inductive'
  <2>1. /\ reading = {} /\ writing = {}
        /\ waiting' = waiting \ {c} /\ reading' = {c} /\ UNCHANGED <<file, writing, returned>>
    BY <1>3 DEF locked, Free
  <2> QED BY <2>1 DEF file, Inductive, TypeOK, LockInv, FileInv, NextInv
<1>4. ASSUME NEW c \in reading, ReturnOld(c) PROVE Inductive'
  <2> PICK old \in requests :
        /\ returned' = IF old.lane = c.lane THEN returned \cup {old} ELSE returned
        /\ reading' = reading \ {c}
        /\ UNCHANGED <<file, waiting, writing>>
    BY <1>4 DEF ReturnOld, Released
  <2>1. returned' \subseteq requests' /\ returned' \subseteq Reservation
    BY DEF file, Inductive, TypeOK
  <2> QED BY <2>1 DEF file, Inductive, TypeOK, LockInv, FileInv, NextInv
<1>5. ASSUME NEW c \in reading, Reserve(c) PROVE Inductive'
  <2> DEFINE number == High(counters[c.lane], c.floor) + 1
             d == [caller |-> c.caller, counters |-> counters, requests |-> requests,
                   reservation |-> [request |-> c.request, lane |-> c.lane, nonce |-> number]]
  <2>1. /\ \A old \in requests : old.request # c.request
        /\ reading' = reading \ {c} /\ UNCHANGED <<file, waiting, returned>>
        /\ writing' = IF Exhausted(number) THEN writing ELSE writing \cup {d}
    BY <1>5 DEF Reserve
  <2>2. /\ c \in Call /\ c.lane \in Lane /\ c.floor \in NONCE_PATTERN
        /\ c.caller \in Caller /\ c.request \in Request
        /\ counters[c.lane] \in Nat
    BY DEF Inductive, TypeOK, Call
  <2>3. writing = {} /\ reading' = {}
    BY <2>1 DEF Inductive, LockInv
  <2>4. number \in Nat /\ number > counters[c.lane]
    BY <2>2 DEF High
  <2>5. CASE Exhausted(number)
    BY <2>1, <2>3, <2>5 DEF file, Inductive, TypeOK, LockInv, FileInv, NextInv
  <2>6. CASE ~Exhausted(number)
    <3>1. number \in NONCE_PATTERN
      BY <2>4, <2>6 DEF Exhausted
    <3>2. d.reservation \in Reservation
      BY <2>2, <3>1 DEF Reservation
    <3>3. d \in Decision
      BY <2>2, <3>2 DEF Decision, Inductive, TypeOK
    <3>4. writing' = {d}
      BY <2>1, <2>3, <2>6
    <3>5. TypeOK' /\ LockInv' /\ FileInv'
      BY <2>1, <2>3, <3>3, <3>4 DEF file, Inductive, TypeOK, LockInv, FileInv
    <3>6. NextInv'
      BY <2>1, <2>4, <3>4 DEF file, NextInv
    <3> QED BY <2>1, <3>5, <3>6 DEF file, Inductive
  <2> QED BY <2>5, <2>6
<1>6. ASSUME NEW d \in writing, atomicJson(d) PROVE Inductive'
  <2>1. /\ counters' \in [Lane -> NONCE_PATTERN] /\ requests' \subseteq Reservation
        /\ FileInv' /\ requests' = requests \cup {d.reservation}
    BY <1>6, ReplaceKeeps DEF atomicJson
  <2>2. writing' = {} /\ reading' = {} /\ waiting' = waiting
        /\ returned' = returned \cup {d.reservation}
    BY <1>6 DEF atomicJson, Inductive, LockInv
  <2> QED BY <2>1, <2>2 DEF Inductive, TypeOK, LockInv, NextInv
<1>7. ASSUME NEW d \in writing, WriteFails(d) PROVE Inductive'
  BY <1>7 DEF WriteFails, Unsaved, file, Inductive, TypeOK, LockInv, FileInv, NextInv
<1> QED BY <1>0, <1>1, <1>2, <1>3, <1>4, <1>5, <1>6, <1>7 DEF Next

\* The types, the lock, the file, and what is about to be written (reserveNonce).
THEOREM Invariance == Spec => []Inductive
  BY NonceInit, NonceStep, PTL DEF Spec

\* A nonce that was returned is on disk (atomicJson before the return).
THEOREM Durable == Spec => []ReturnedIsDurable
<1>1. Inductive => ReturnedIsDurable
  BY DEF Inductive, ReturnedIsDurable
<1> QED BY <1>1, Invariance, PTL

\* No nonce of a lane is given to two requests (reserveNonce).
THEOREM Once == Spec => []NonceOnce
<1>1. Inductive => NonceOnce
  BY DEF Inductive, FileInv, NonceOnce
<1> QED BY <1>1, Invariance, PTL

\* A request is given one nonce, however often it asks (reserveNonce, old).
THEOREM Same == Spec => []SameAgain
<1>1. Inductive => SameAgain
  BY DEF Inductive, FileInv, SameAgain
<1> QED BY <1>1, Invariance, PTL

HIDE LimitAssumption DEF NONCE_PATTERN

-----------------------------------------------------------------------------
(***************************************************************************)
(* The four side by side: only one of them runs, so a step of its own keeps*)
(* what it has and the others stutter.                                     *)
(***************************************************************************)
AllSound == Inductive /\ RouteSound /\ AirlockSound /\ Airlock!NonceOnce /\ HubSound

LEMMA CustodyBegin == CustodyInit => AllSound
BY NonceInit, RouteBegin, AirlockBegin, HubBegin DEF CustodyInit, AllSound

LEMMA OneRuns ==
  ASSUME [CustodyNext]_<<part, vars, route, airlock, hub>>
  PROVE  /\ [Next]_vars
         /\ [Route!Next]_(Route!vars)
         /\ [Airlock!Next]_(Airlock!vars)
         /\ [Hub!Next]_(Hub!vars)
<1>1. /\ UNCHANGED route => UNCHANGED Route!vars
      /\ UNCHANGED airlock => UNCHANGED Airlock!vars
      /\ UNCHANGED hub => UNCHANGED Hub!vars
  BY DEF route, Route!vars, airlock, Airlock!vars, hub, Hub!vars
<1> QED BY <1>1 DEF CustodyNext

LEMMA NonceOnceStep ==
  ASSUME AirlockSound, Airlock!NonceOnce, [Airlock!Next]_(Airlock!vars)
  PROVE  Airlock!NonceOnce'
BY SettleStep DEF SignerKeeps

LEMMA CustodyStep == AllSound /\ [CustodyNext]_<<part, vars, route, airlock, hub>> => AllSound'
BY OneRuns, NonceStep, RouteStep, AirlockStep, NonceOnceStep, HubStep DEF AllSound

LEMMA CustodyHolds == CustodySpec => []AllSound
BY CustodyBegin, CustodyStep, PTL DEF CustodySpec

\* Nonces: a reservation is on disk before it is returned, and a lane gives
\* none of them twice.
THEOREM NoncesAreReserved == CustodySpec => []Inductive
<1>1. AllSound => Inductive BY DEF AllSound
<1> QED BY <1>1, CustodyHolds, PTL

\* A budget yields one signature, made under the reviewed commit by a child that was
\* started from the clean worktree, and leaves no request file behind unless its
\* route was killed.
THEOREM EveryRouteSignsOnce == CustodySpec => []RoutesSignOnce
<1>1. AllSound => RoutesSignOnce
  BY DEF AllSound, RouteSound, RoutesSignOnce, Route!Inductive, Route!SignaturesInOrder,
     Route!OneSignature
<1> QED BY <1>1, CustodyHolds, PTL

\* What is accepted is what was approved and nothing else may be published; the
\* calls that bring one ledger settle a request once, and those that bring one
\* transport get no nonce of a room twice, whatever calls that bring neither do.
THEOREM EverySettledIsApproved == CustodySpec => []SettledAsApproved
<1>1. AllSound => SettledAsApproved BY DEF AllSound, AirlockSound, SettledAsApproved
<1> QED BY <1>1, CustodyHolds, PTL

\* A deal that can be read has its whole secret and two agents.
THEOREM EveryDealIsSound == CustodySpec => []DealsAreSound
<1>1. HubSound => Hub!SecretIsThere /\ Hub!TwoAgents
  BY DEF HubSound, Hub!Inductive, Hub!FilesInOrder, Hub!SecretIsThere
<1>2. AllSound => DealsAreSound BY <1>1 DEF AllSound, HubSound, DealsAreSound
<1> QED BY <1>2, CustodyHolds, PTL
=============================================================================
