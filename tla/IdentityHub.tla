---------------------------- MODULE IdentityHub ----------------------------
(***************************************************************************)
(* IdentityManager of hub/identity.mjs and the session files of            *)
(* hub/session.mjs: which identities are installed on this machine, which  *)
(* one is primary, and the directories of the deals made with them.        *)
(*                                                                         *)
(* Calls of the connector interleave at their awaits.  Another program     *)
(* installs and removes identity files at any time, and the connector may  *)
(* crash between two writes: writeFile truncates or creates before it      *)
(* writes, and a deal is a directory and two files, created and written in *)
(* a row.                                                                  *)
(***************************************************************************)
EXTENDS Naturals, FiniteSets

CONSTANTS Location,     \* the default location and the named profiles, by number
          Did, Call, Deal,
          Configured,   \* the DID of the profile "default" in PROFILES
          None

\* A location: the DID of its marker, and which protected files exist.
Install == [did : Did \cup {None}, key : BOOLEAN, operator : BOOLEAN]
Files == [directory : BOOLEAN, secretFile : BOOLEAN, secret : BOOLEAN,
          sessionFile : BOOLEAN, session : BOOLEAN]
NoFiles == [directory |-> FALSE, secretFile |-> FALSE, secret |-> FALSE,
            sessionFile |-> FALSE, session |-> FALSE]

\* What a deal is made of, in the order of its making: a directory, a file of
\* the secret and what is written to it, and the same of the session.
Making == {"directory", "secretFile", "secret", "sessionFile", "session"}
Pcs == {"idle", "open", "write", "profiles"} \cup Making

VARIABLES installed,
          primary,   \* identity-primary.json: None, "empty" once truncated, or a DID
          pc, chosen, deal,     \* a call, the DID it selects, the deal it makes
          deals, parties        \* the files and the agents of each deal

vars == <<installed, primary, pc, chosen, deal, deals, parties>>

TypeOK ==
  /\ installed \in [Location -> Install]
  /\ primary \in Did \cup {None, "empty"}
  /\ pc \in [Call -> Pcs] /\ chosen \in [Call -> Did \cup {None}]
  /\ deal \in [Call -> Deal \cup {None}]
  /\ deals \in [Deal -> Files] /\ parties \in [Deal -> SUBSET Did]

Init ==
  /\ installed = [l \in Location |-> [did |-> None, key |-> FALSE, operator |-> FALSE]]
  /\ primary = None /\ pc = [c \in Call |-> "idle"] /\ chosen = [c \in Call |-> None]
  /\ deal = [c \in Call |-> None]
  /\ deals = [d \in Deal |-> NoFiles] /\ parties = [d \in Deal |-> {}]

-----------------------------------------------------------------------------
\* discover: a scan of the locations, the default one first.

candidate(l) == installed[l].did # None
signerAvailableAt(l) == candidate(l) /\ installed[l].key /\ installed[l].operator
statusAt(l) ==
  CASE signerAvailableAt(l) -> "IDENTITY_READY"
    [] installed[l].key /\ ~installed[l].operator -> "IDENTITY_LOCKED"
    [] OTHER -> "SIGNER_UNAVAILABLE"

identities == {installed[l].did : l \in {l \in Location : candidate(l)}}
Places(d) == {l \in Location : installed[l].did = d}
First(d) == CHOOSE l \in Places(d) : \A m \in Places(d) : l <= m

\* Locations of one DID are merged: any signer will do.
signerAvailable(d) == \E l \in Places(d) : signerAvailableAt(l)

\* The status is that of the first location.
Status(d) == statusAt(First(d))

\* The saved choice, else the only identity, else the configured default.
primaryDid ==
  CASE primary \in identities -> primary
    [] primary \notin identities /\ Cardinality(identities) = 1 -> CHOOSE d \in identities : TRUE
    [] primary \notin identities /\ Cardinality(identities) > 1 /\ Configured \in identities ->
         Configured
    [] OTHER -> None

status ==
  CASE identities = {} -> "NO_IDENTITY"
    [] identities # {} /\ primaryDid = None -> "MULTIPLE_IDENTITIES_FOUND"
    [] OTHER -> Status(primaryDid)

\* A truncated choice does not parse, and the whole scan fails with it.
discoverAnswers == primary # "empty"

-----------------------------------------------------------------------------
Goto(c, label) == pc' = [pc EXCEPT ![c] = label]

\* selectPrimary: scan, then the file is opened, which empties it, and written.
SelectPrimary(c) ==
  /\ pc[c] = "idle" /\ discoverAnswers
  /\ \E d \in identities : chosen' = [chosen EXCEPT ![c] = d]
  /\ Goto(c, "open")
  /\ UNCHANGED <<installed, primary, deal, deals, parties>>

OpenPrimary(c) ==
  /\ pc[c] = "open" /\ primary' = "empty" /\ Goto(c, "write")
  /\ UNCHANGED <<installed, chosen, deal, deals, parties>>

WritePrimary(c) ==
  /\ pc[c] = "write" /\ primary' = chosen[c]
  /\ chosen' = [chosen EXCEPT ![c] = None] /\ Goto(c, "idle")
  /\ UNCHANGED <<installed, deal, deals, parties>>

\* POST /deals: the primary must be ready; then the profiles are scanned anew,
\* and two agents with different DIDs are taken from them.
StartDeal(c) ==
  /\ pc[c] = "idle" /\ discoverAnswers /\ status = "IDENTITY_READY"
  /\ Goto(c, "profiles")
  /\ UNCHANGED <<installed, primary, chosen, deal, deals, parties>>

\* Mutated form: two profiles are two agents.
AnyTwo(a, b) == TRUE

Distinct(a, b) == a # b

\* Mutated form: the identifier of a deal may come again.
AnyDeal(d) == TRUE

\* The identifier is random.
Fresh(d) == parties[d] = {}

createDealSession(c) ==
  /\ pc[c] = "profiles"
  /\ \/ /\ discoverAnswers
        /\ \E a, b \in identities, d \in Deal :
             /\ Distinct(a, b)
             /\ Fresh(d)
             /\ parties' = [parties EXCEPT ![d] = {a, b}]
             /\ deal' = [deal EXCEPT ![c] = d]
        /\ Goto(c, "directory")
     \/ Goto(c, "idle") /\ UNCHANGED <<deal, parties>>
  /\ UNCHANGED <<installed, primary, chosen, deals>>

Made(c, file) == deals' = [deals EXCEPT ![deal[c]] = [@ EXCEPT ![file] = TRUE]]

\* Mutated form: the session is written before its secret.
StateFirst == [directory |-> "sessionFile", sessionFile |-> "session",
               session |-> "secretFile", secretFile |-> "secret", secret |-> "idle"]

After == [directory |-> "secretFile", secretFile |-> "secret", secret |-> "sessionFile",
          sessionFile |-> "session", session |-> "idle"]

\* The directory, the secret, the state: each is created exclusively, and a
\* file is written after that.
MakeFile(c) ==
  /\ pc[c] \in Making
  /\ Made(c, pc[c]) /\ Goto(c, After[pc[c]])
  /\ deal' = IF After[pc[c]] = "idle" THEN [deal EXCEPT ![c] = None] ELSE deal
  /\ UNCHANGED <<installed, primary, chosen, parties>>

Crash ==
  /\ pc' = [c \in Call |-> "idle"] /\ chosen' = [c \in Call |-> None]
  /\ deal' = [c \in Call |-> None]
  /\ UNCHANGED <<installed, primary, deals, parties>>

\* Another program changes one of the identity files.
ChangeInstall ==
  /\ \E l \in Location, i \in Install :
       /\ i.did = installed[l].did \/ (i.key = installed[l].key /\ i.operator = installed[l].operator)
       /\ installed' = [installed EXCEPT ![l] = i]
  /\ UNCHANGED <<primary, pc, chosen, deal, deals, parties>>

\* listSessions reads the state of every directory there is, and fails with the
\* first that is missing or torn.
listSessions ==
  IF \E d \in Deal : deals[d].directory /\ ~deals[d].session THEN {}
  ELSE {d \in Deal : deals[d].session}

Next ==
  \/ \E c \in Call : SelectPrimary(c) \/ OpenPrimary(c) \/ WritePrimary(c)
                     \/ StartDeal(c) \/ createDealSession(c) \/ MakeFile(c)
  \/ Crash \/ ChangeInstall

Spec == Init /\ [][Next]_vars

-----------------------------------------------------------------------------
\* The files of a deal appear in order, those a call makes among them.
FilesInOrder ==
  /\ \A d \in Deal : /\ deals[d].session => deals[d].sessionFile
                     /\ deals[d].sessionFile => deals[d].secret
                     /\ deals[d].secret => deals[d].secretFile
                     /\ deals[d].secretFile => deals[d].directory
                     /\ deals[d].directory => parties[d] # {}
  /\ \A c \in Call : /\ pc[c] = "secretFile" => deals[deal[c]].directory
                     /\ pc[c] = "secret" => deals[deal[c]].secretFile
                     /\ pc[c] = "sessionFile" => deals[deal[c]].secret
                     /\ pc[c] = "session" => deals[deal[c]].sessionFile

\* Types; a call in the middle of a deal has the files it made so far, and two
\* calls never make the same deal.
Inductive ==
  /\ TypeOK
  /\ \A c \in Call :
       /\ pc[c] \in Making <=> deal[c] # None
       /\ deal[c] # None => parties[deal[c]] # {} /\ ~deals[deal[c]][pc[c]]
       /\ pc[c] \in {"open", "write"} <=> chosen[c] # None
       /\ \A d \in Call : deal[c] = deal[d] /\ deal[c] # None => c = d
  /\ FilesInOrder

\* A deal that can be read has its whole secret, wherever the connector crashed,
\* also between a file's creation and its content (session.mjs, createDealSession).
SecretIsThere == \A d \in Deal : deals[d].session => deals[d].directory /\ deals[d].secret

\* A deal has two agents with different DIDs, although identities come and go
\* between the two scans (session.mjs, TWO_DISTINCT_LOCAL_PROFILES_REQUIRED).
TwoAgents == \A d \in Deal : parties[d] # {} => Cardinality(parties[d]) = 2

\* An identity with a signer is reported ready (IDENTITY_HUB.md).
ReadyIsReported ==
  \A d \in identities : signerAvailable(d) <=> Status(d) = "IDENTITY_READY"

\* While no call is writing, a scan answers, and so an identity can be chosen
\* (IDENTITY_HUB.md).
CanBeSelected == (\A c \in Call : pc[c] = "idle") => discoverAnswers

\* While no call is making one, each deal is whole, and all are listed
\* (DEAL_HUB_V1.md; session.mjs, listSessions).
DealsAreListed ==
  (\A c \in Call : pc[c] = "idle") =>
    \A d \in Deal : deals[d].session => d \in listSessions
=============================================================================
