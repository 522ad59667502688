----------------------------- MODULE Publication -----------------------------
(***************************************************************************)
(* What the publication of validation results promises, whatever requests, *)
(* crashes and networks do: a draft is signed at most once, a signed       *)
(* operation is posted at most once, a cancelled operation is never signed *)
(* or posted, and only what became public is confirmed.                    *)
(***************************************************************************)
EXTENDS Integers

CONSTANTS Draft, Nonce

Operation == Draft \X Nonce

VARIABLES
    signatures,     \* signatures made for an operation
    posts,          \* POSTs begun for it
    public,         \* operations retained in the room
    confirmed,      \* operations recorded as observed
    cancelled       \* operations recorded as cancelled

vars == <<signatures, posts, public, confirmed, cancelled>>

Init ==
    /\ signatures = [o \in Operation |-> 0]
    /\ posts = [o \in Operation |-> 0]
    /\ public = {}
    /\ confirmed = {}
    /\ cancelled = {}

Sign(o) ==
    /\ \A p \in Operation : p[1] = o[1] => signatures[p] = 0
    /\ o \notin cancelled
    /\ signatures' = [signatures EXCEPT ![o] = 1]
    /\ UNCHANGED <<posts, public, confirmed, cancelled>>

Post(o) ==
    /\ signatures[o] = 1
    /\ posts[o] = 0
    /\ posts' = [posts EXCEPT ![o] = 1]
    /\ UNCHANGED <<signatures, public, confirmed, cancelled>>

Appear(o) ==
    /\ posts[o] = 1
    /\ o \notin public
    /\ public' = public \cup {o}
    /\ UNCHANGED <<signatures, posts, confirmed, cancelled>>

Confirm(o) ==
    /\ o \in public
    /\ confirmed' = confirmed \cup {o}
    /\ UNCHANGED <<signatures, posts, public, cancelled>>

Cancel(o) ==
    /\ signatures[o] = 0
    /\ cancelled' = cancelled \cup {o}
    /\ UNCHANGED <<signatures, posts, public, confirmed>>

Next == \E o \in Operation : Sign(o) \/ Post(o) \/ Appear(o) \/ Confirm(o) \/ Cancel(o)

Spec == Init /\ [][Next]_vars
=============================================================================
