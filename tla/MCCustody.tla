----------------------------- MODULE MCCustody ------------------------------
(***************************************************************************)
(* The components that decide who signs, with which number and how often:  *)
(* the nonce reservations, the routes to the detached signer, the airlock  *)
(* and the identity hub, each on a small instance.  They share no state,   *)
(* so `part' names the one that runs and the others stay as they began.    *)
(***************************************************************************)
EXTENDS NonceStore

CONSTANTS
  RouteProcess, SharedRoot,                 \* of SignRoute
  Frame, MaxNonce, MaxEdits,                \* of Airlock
  Location, Agent, HubCall, Deal, Configured, \* of IdentityHub
  None

\* A room gets a signature at least; locations are numbered; None is no name.
ASSUME AirlockAssumption == MaxNonce \in Nat \ {0} /\ MaxEdits \in Nat
ASSUME HubAssumption == Location \subseteq Nat /\ None \notin Deal \cup Agent

VARIABLES part,
  pc, kind, spent, requestFile, child, found, worktree, killed, signatures, delivered,
  request, approval, edits, clock, opened, completed, nonce, signed, responses,
  accepted, result,
  installed, primary, selecting, chosen, deal, deals, parties

route == <<pc, kind, spent, requestFile, child, found, worktree, killed, signatures, delivered>>
airlock == <<request, approval, edits, clock, opened, completed, nonce, signed,
             responses, accepted, result>>
hub == <<installed, primary, selecting, chosen, deal, deals, parties>>

Route == INSTANCE SignRoute WITH
  Process <- RouteProcess, file <- requestFile
Airlock == INSTANCE Airlock
Hub == INSTANCE IdentityHub WITH Did <- Agent, Call <- HubCall, pc <- selecting

CustodyInit ==
  /\ part \in {"nonces", "route", "airlock", "hub"}
  /\ Init /\ Route!Init /\ Airlock!Init /\ Hub!Init

CustodyNext ==
  \/ part = "nonces" /\ Next /\ UNCHANGED <<part, route, airlock, hub>>
  \/ part = "route" /\ Route!Next /\ UNCHANGED <<part, vars, airlock, hub>>
  \/ part = "airlock" /\ Airlock!Next /\ UNCHANGED <<part, vars, route, hub>>
  \/ part = "hub" /\ Hub!Next /\ UNCHANGED <<part, vars, route, airlock>>

CustodySpec == CustodyInit /\ [][CustodyNext]_<<part, vars, route, airlock, hub>>

\* A budget yields one signature, made under the reviewed commit, and leaves no
\* request file behind unless its route was killed (real-route.mjs).
RoutesSignOnce ==
  /\ part = "route" => Route!Inductive
  /\ Route!OneSignature /\ Route!DeliveredIsReviewed /\ Route!NothingLeftBehind

\* What is accepted is what was approved, and nothing else may be published; a
\* caller that keeps its ledger settles a request once, one that keeps its
\* transport gets no nonce of a room twice, whatever calls that bring neither do
\* in between (adapter.mjs).
SettledAsApproved ==
  /\ part = "airlock" => Airlock!Inductive
  /\ Airlock!AcceptedIsApproved /\ Airlock!SettledOnce
  /\ Airlock!EligibleIsSettled /\ Airlock!NonceOnce

\* A deal that can be read has its whole secret and two agents, wherever the
\* connector died and whichever identities came and went (session.mjs).
DealsAreSound ==
  /\ part = "hub" => Hub!Inductive
  /\ Hub!SecretIsThere /\ Hub!TwoAgents
=============================================================================
