------------------------------ MODULE OneShot ------------------------------
(***************************************************************************)
(* What a one-shot attempt budget promises to the code that guards an      *)
(* irreversible operation with it: for each identity at most one process   *)
(* is ever granted the attempt, only the grantee may perform the           *)
(* operation, and a grant that is lost is lost for good.  There is no      *)
(* action that makes a spent identity available again.                     *)
(*                                                                         *)
(* Module AttemptBudget implements this specification with marker files.   *)
(* Modules that only USE a budget (DealHub, W2Publication) model an        *)
(* acquisition as the single atomic step Grant.                            *)
(***************************************************************************)
EXTENDS Naturals

CONSTANTS Process,   \* who competes for the budget: loops, invocations, double launches
          Identity,  \* budget identities: purpose, operation class, subject
          NoIdentity \* what a process without a grant holds

VARIABLES spent,     \* the identities whose attempt has been granted
          holds,     \* the identity each process is cleared to act for
          performed  \* how often the irreversible operation of an identity ran

vars == <<spent, holds, performed>>

Init == /\ spent = {}
        /\ holds = [p \in Process |-> NoIdentity]
        /\ performed = [i \in Identity |-> 0]

\* The budget of i is handed to p, once for the whole machine.
Grant(p, i) ==
    /\ holds[p] = NoIdentity
    /\ i \notin spent
    /\ spent' = spent \cup {i}
    /\ holds' = [holds EXCEPT ![p] = i]
    /\ UNCHANGED performed

\* The holder performs the irreversible operation and the grant is used up.
Use(p) ==
    /\ holds[p] # NoIdentity
    /\ performed' = [performed EXCEPT ![holds[p]] = @ + 1]
    /\ holds' = [holds EXCEPT ![p] = NoIdentity]
    /\ UNCHANGED spent

\* Some holders die before they act; nothing gives their attempts back.
Forfeit(Dead) ==
    /\ holds' = [p \in Process |-> IF p \in Dead THEN NoIdentity ELSE holds[p]]
    /\ UNCHANGED <<spent, performed>>

Next == \/ \E p \in Process, i \in Identity : Grant(p, i)
        \/ \E p \in Process : Use(p)
        \/ \E Dead \in SUBSET Process : Forfeit(Dead)

Spec == Init /\ [][Next]_vars
=============================================================================
