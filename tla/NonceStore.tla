----------------------------- MODULE NonceStore -----------------------------
(***************************************************************************)
(* DurableW2Store.reserveNonce of workloads/validation-publication/        *)
(* store.mjs: concurrent reservations in one process, under the lock of    *)
(* the nonce file, which is read, extended and replaced by the rename of a *)
(* temporary file.  The process may crash at any await and be started      *)
(* again; a write may fail.                                                *)
(***************************************************************************)
EXTENDS Naturals

CONSTANTS Caller, Request, Lane,
          Limit      \* 10^19: the first number a nonce cannot be

ASSUME LimitAssumption == Limit \in Nat /\ Limit > 1

\* A nonce is canonical: at most 19 digits.
NONCE_PATTERN == 0 .. Limit - 1
Reservation == [request : Request, lane : Lane, nonce : NONCE_PATTERN]

\* A call that waits for the lock, or has it and reads.
Call == [caller : Caller, request : Request, lane : Lane, floor : NONCE_PATTERN]

\* A call that decided: the file it read, and what it adds to it.
Decision == [caller : Caller, counters : [Lane -> NONCE_PATTERN],
             requests : SUBSET Reservation, reservation : Reservation]

VARIABLES counters, requests,  \* nonce-reservations.json
          waiting, reading, writing,
          returned             \* history: reservations that were returned

file == <<counters, requests>>
vars == <<file, waiting, reading, writing, returned>>

TypeOK ==
  /\ counters \in [Lane -> NONCE_PATTERN] /\ requests \subseteq Reservation
  /\ waiting \subseteq Call /\ reading \subseteq Call /\ writing \subseteq Decision
  /\ returned \subseteq Reservation

Init ==
  /\ counters = [l \in Lane |-> 0] /\ requests = {}
  /\ waiting = {} /\ reading = {} /\ writing = {} /\ returned = {}

\* The arguments are canonical; the call waits for its turn.
Ask ==
  \E c \in Call :
    /\ \A d \in waiting \cup reading \cup writing : d.caller # c.caller
    /\ waiting' = waiting \cup {c}
    /\ UNCHANGED <<file, reading, writing, returned>>

\* Mutated form: only the read is under the lock.
FreeOfReaders == reading = {}

Free == reading = {} /\ writing = {}

locked(c) ==
  /\ Free
  /\ waiting' = waiting \ {c} /\ reading' = reading \cup {c}
  /\ UNCHANGED <<file, writing, returned>>

\* Mutated form: a call that fails keeps the lock.
KeptOnConflict(c, old) == reading' = IF old.lane = c.lane THEN reading \ {c} ELSE reading

Released(c, old) == reading' = reading \ {c}

\* The request has its nonce already, in this lane or in another: then it fails.
ReturnOld(c) ==
  \E old \in requests :
    /\ old.request = c.request
    /\ returned' = IF old.lane = c.lane THEN returned \cup {old} ELSE returned
    /\ Released(c, old)
    /\ UNCHANGED <<file, waiting, writing>>

\* Mutated form: the floor the caller names is believed.
FloorOnly(current, floor) == floor

High(current, floor) == IF current > floor THEN current ELSE floor

\* Mutated form: the limit itself is still given out.
ExhaustedAfter(nonce) == nonce > Limit

Exhausted(nonce) == nonce >= Limit

Reserve(c) ==
  LET nonce == High(counters[c.lane], c.floor) + 1
  IN /\ \A old \in requests : old.request # c.request
     /\ writing' = IF Exhausted(nonce) THEN writing
                   ELSE writing \cup
                     {[caller |-> c.caller, counters |-> counters, requests |-> requests,
                       reservation |-> [request |-> c.request, lane |-> c.lane, nonce |-> nonce]]}
     /\ reading' = reading \ {c}
     /\ UNCHANGED <<file, waiting, returned>>

\* The rename: the file becomes what the call read, with its reservation.
Replace(d) ==
  /\ counters' = [d.counters EXCEPT ![d.reservation.lane] = d.reservation.nonce]
  /\ requests' = d.requests \cup {d.reservation}

atomicJson(d) ==
  /\ Replace(d) /\ returned' = returned \cup {d.reservation}
  /\ writing' = writing \ {d}
  /\ UNCHANGED <<waiting, reading>>

\* Mutated form: a reservation that could not be saved is answered.
AnsweredUnsaved(d) == returned' = returned \cup {d.reservation}

Unsaved(d) == UNCHANGED returned

WriteFails(d) ==
  /\ Unsaved(d) /\ writing' = writing \ {d}
  /\ UNCHANGED <<file, waiting, reading>>

\* Every call is gone, and the lock with it: before the rename or after it.
Crash ==
  /\ UNCHANGED file \/ (\E d \in writing : Replace(d))
  /\ waiting' = {} /\ reading' = {} /\ writing' = {}
  /\ UNCHANGED returned

Next ==
  \/ Ask \/ Crash
  \/ \E c \in waiting : locked(c)
  \/ \E c \in reading : ReturnOld(c) \/ Reserve(c)
  \/ \E d \in writing : atomicJson(d) \/ WriteFails(d)

Spec == Init /\ [][Next]_vars

\* The promises of the lock form a queue, so each call gets its turn, and an
\* operation of the file system ends.
FairSpec ==
  /\ Spec
  /\ \A p \in Caller : SF_vars(\E c \in waiting : c.caller = p /\ locked(c))
  /\ WF_vars(\E c \in reading : ReturnOld(c) \/ Reserve(c))
  /\ WF_vars(\E d \in writing : atomicJson(d) \/ WriteFails(d))

-----------------------------------------------------------------------------
\* The lock is held by one call; what it read is what the file holds.
LockInv ==
  /\ reading = {} \/ writing = {}
  /\ \A c, d \in reading : c = d
  /\ \A c, d \in writing : c = d
  /\ \A d \in writing : d.counters = counters /\ d.requests = requests

\* The counter of a lane is the highest of its nonces.
FileInv ==
  /\ \A r \in requests : r.nonce <= counters[r.lane]
  /\ \A r, s \in requests :
       r.request = s.request \/ (r.lane = s.lane /\ r.nonce = s.nonce) => r = s

\* What is about to be saved is new and above it.
NextInv ==
  \A d \in writing :
    /\ d.reservation.nonce > counters[d.reservation.lane]
    /\ \A r \in requests : r.request # d.reservation.request

Inductive == TypeOK /\ LockInv /\ FileInv /\ NextInv /\ returned \subseteq requests

\* No nonce of a lane is given to two requests, whatever fails or crashes
\* between the read of the file and its replacement, and up to the largest
\* nonce there is (store.mjs, reserveNonce).
NonceOnce ==
  \A r, s \in returned : r.lane = s.lane /\ r.nonce = s.nonce => r = s

\* A nonce that was returned is on disk, so no crash gives it out again
\* (store.mjs, atomicJson before the return).
ReturnedIsDurable == returned \subseteq requests

\* A request that lost its answer gets the same nonce again (store.mjs, old).
SameAgain == \A r, s \in returned : r.request = s.request => r = s

\* A reservation that is asked for comes to an end.
CallsEnd ==
  \A p \in Caller : LET busy == \E c \in waiting \cup reading \cup writing : c.caller = p
                   IN busy ~> ~busy
=============================================================================
