----------------------------- MODULE MCProgress -----------------------------
(***************************************************************************)
(* The components whose calls must come to an end, each on a small         *)
(* instance.  They share no state, so a behaviour of this specification is *)
(* one of one of them: `part' names it and the others stay as they began.  *)
(***************************************************************************)
EXTENDS Naturals

CONSTANT NoAction

VARIABLES part,
  session, readable, mixed, prepared, signed, hubSpent, hubPc, hubOp, snap, active,
  net, answer, room, rail, shown, effects, landed, uncertain, vague, hubCrashes,
  ledger, budgets, changed, expired, custody, counter, pc, op, result, wire, reply,
  public, w2Signatures, posts, w2Vague, crashes,
  routePc, kind, spent, file, child, found, worktree, killed, signatures, delivered,
  counters, requests, waiting, reading, writing, returned,
  now, up, boot, born, used, imports, records, slot, page, window, minted, judged

hub == <<session, readable, mixed, prepared, signed, hubSpent, hubPc, hubOp, snap,
         active, net, answer, room, rail, shown, effects, landed, uncertain, vague,
         hubCrashes>>
w2 == <<ledger, budgets, changed, expired, custody, counter, pc, op, result, wire,
        reply, public, w2Signatures, posts, w2Vague, crashes>>
route == <<routePc, kind, spent, file, child, found, worktree, killed, signatures, delivered>>
nonces == <<counters, requests, waiting, reading, writing, returned>>
connector == <<now, up, boot, born, used, imports, records, slot, page, window,
               minted, judged>>
vars == <<part, hub, w2, route, nonces, connector>>

Hub == INSTANCE DealHub WITH
  Steps <- <<"LOCK">>, Handler <- {"h1", "h2"}, Written <- {}, MaxCrashes <- 1,
  spent <- hubSpent, pc <- hubPc, op <- hubOp, crashes <- hubCrashes
W2 == INSTANCE W2Publication WITH
  Draft <- {"d1"}, Caller <- {"c1", "c2"}, MaxNonce <- 1, MaxCrashes <- 1,
  signatures <- w2Signatures, vague <- w2Vague
Route == INSTANCE SignRoute WITH
  Process <- {"p1", "p2"}, SharedRoot <- FALSE, pc <- routePc
Nonces == INSTANCE NonceStore WITH
  Caller <- {"c1", "c2"}, Request <- {"r1"}, Lane <- {"l1", "l2"}, Limit <- 3
Connector == INSTANCE Connector WITH
  Request <- {"r1", "r2"}, Import <- {1}, MaxImports <- 1, RateLimit <- 1,
  ImportTTL <- 1, PairingTTL <- 1, MaxNow <- 1, MaxBoots <- 1

Init ==
  /\ part \in {"hub", "w2", "route", "nonces", "connector"}
  /\ Hub!Init /\ W2!Init /\ Route!Init /\ Nonces!Init /\ Connector!Init

Next ==
  \/ part = "hub" /\ Hub!Next /\ UNCHANGED <<part, w2, route, nonces, connector>>
  \/ part = "w2" /\ W2!Next /\ UNCHANGED <<part, hub, route, nonces, connector>>
  \/ part = "route" /\ Route!Next /\ UNCHANGED <<part, hub, w2, nonces, connector>>
  \/ part = "nonces" /\ Nonces!Next /\ UNCHANGED <<part, hub, w2, route, connector>>
  \/ part = "connector" /\ Connector!Next /\ UNCHANGED <<part, hub, w2, route, nonces>>

\* The fairness of each component, asked of the one that runs: see FairSpec in
\* its module for why the code justifies it.
Fairness ==
  /\ \A h \in {"h1", "h2"} : WF_hub(part = "hub" /\ Hub!Work(h))
  /\ \A c \in {"c1", "c2"} : WF_w2(part = "w2" /\ W2!Work(c))
  /\ \A p \in {"p1", "p2"} :
       /\ WF_route(part = "route" /\ Route!Route(p))
       /\ WF_route(part = "route" /\ (Route!ChildSigns(p) \/ Route!ChildRefuses(p)))
  /\ \A p \in {"c1", "c2"} :
       SF_nonces(part = "nonces" /\ \E c \in waiting : c.caller = p /\ Nonces!locked(c))
  /\ WF_nonces(part = "nonces" /\ \E c \in reading : Nonces!ReturnOld(c) \/ Nonces!Reserve(c))
  /\ WF_nonces(part = "nonces" /\ \E d \in writing : Nonces!atomicJson(d) \/ Nonces!WriteFails(d))
  /\ \A r \in {"r1", "r2"} : WF_connector(part = "connector" /\ Connector!Handle(r))

Spec == Init /\ [][Next]_vars /\ Fairness

\* An approved execution of the Deal Hub leaves the active operations.
ApprovedExecutionEnds == Hub!ApprovedExecutionEnds

\* A custody answer, a venue answer and an observation of W2 are saved.
ResultsAreSaved == W2!ResultsAreSaved

\* A route to the detached signer, a reservation of a nonce and a request to the
\* connector come to an end (real-route.mjs, store.mjs, connector-client.js).
CallsEnd == Route!RouteEnds /\ Nonces!CallsEnd /\ Connector!RequestsEnd
=============================================================================
