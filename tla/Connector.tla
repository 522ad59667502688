----------------------------- MODULE Connector -----------------------------
(***************************************************************************)
(* The loopback connector of hub/connector.mjs and the page that is paired *)
(* with it: pairing and its token, the request handler up to the dispatch, *)
(* the transcripts imported into its memory, their validation, and the     *)
(* record on disk.  The page is web/connector-client.js with the pairing   *)
(* and workload parts of web/hub-app.js; the import window is import.js of *)
(* the transcript-validation workload, which the connector serves.         *)
(*                                                                         *)
(* A request stops at every await of its handler, and others run there.    *)
(* The connector may crash and be started again: its pairing is new, what  *)
(* was in memory is gone and the records stay.  The deal, identity and     *)
(* publication routes hand over to modules of their own.                   *)
(***************************************************************************)
EXTENDS Naturals, FiniteSets

CONSTANTS Request,    \* requests that can be under way at a time
          Import,     \* the random identifiers of imports
          MaxImports, RateLimit,
          ImportTTL, PairingTTL,  \* in minutes; a minute is one step of time
          MaxNow, MaxBoots        \* bounds of the exploration

None == 0
Boot == 1 .. MaxBoots
Id == Import \cup {None}
Ops == {"confirm", "status", "import", "describe", "validate"}
Stages == {"IDLE", "SENT", "READING", "VERIFYING", "SAVING", "WRITING", "ANSWER"}
Answers == {"none", "ok", "PAIRING_REQUIRED", "RATE_LIMITED", "TOO_MANY_IMPORTS",
            "IMPORT_EXPIRED", "REJECTED", "INTERNAL_ERROR", "lost"}
Slot == [at : Stages, op : Ops, token : Boot \cup {None}, id : Id,
         answer : Answers, heard : BOOLEAN]
Idle == [at |-> "IDLE", op |-> "status", token |-> None, id |-> None,
         answer |-> "none", heard |-> FALSE]

\* The page: the pairing in session storage (the boot it belongs to), and what
\* its script remembers until the next load.
Page == [pairing : Boot \cup {None}, connected : BOOLEAN, opened : BOOLEAN,
         importId : Id, result : Id, disabled : BOOLEAN]
Blank(pairing) ==
  [pairing |-> pairing, connected |-> FALSE, opened |-> FALSE,
   importId |-> None, result |-> None, disabled |-> FALSE]

VARIABLES now, up, boot, born,  \* the clock; the connector; when each pairing was made
          used,     \* requests counted against this minute's limit
          imports,
          records,  \* of files: those that were created, and those written to their end
          slot, page,
          window,   \* the token the import window holds
          minted, judged  \* history: the identifiers given out, the imports verified

connector == <<up, boot, born, used, imports, records>>
history == <<minted, judged>>
vars == <<now, connector, slot, page, window, history>>

TypeOK ==
  /\ now \in 0 .. MaxNow /\ up \in BOOLEAN /\ boot \in Boot
  /\ born \in [Boot -> 0 .. MaxNow] /\ used \in 0 .. RateLimit
  /\ imports \subseteq [id : Import, at : 0 .. MaxNow, boot : Boot]
  /\ records \subseteq Import \X {"created", "written"}
  /\ slot \in [Request -> Slot] /\ page \in Page
  /\ window \in Boot \cup {None}
  /\ minted \subseteq Import /\ judged \subseteq Import

Init ==
  /\ now = 0 /\ up = TRUE /\ boot = 1 /\ born = [b \in Boot |-> 0] /\ used = 0
  /\ imports = {} /\ records = {}
  /\ slot = [r \in Request |-> Idle] /\ page = Blank(None) /\ window = None
  /\ minted = {} /\ judged = {}

Put(r, value) == slot' = [slot EXCEPT ![r] = value]
Answer(r, a) == Put(r, [slot[r] EXCEPT !.at = "ANSWER", !.answer = a])
Sent(op, token, id) ==
  [at |-> "SENT", op |-> op, token |-> token, id |-> id, answer |-> "none", heard |-> TRUE]

-----------------------------------------------------------------------------
\* The connector.

Expired(b) == now >= born[b] + PairingTTL
Held(id) == {i \in imports : i.id = id}

Purged == {i \in imports : now - i.at < ImportTTL}

\* POST /workloads/import: the limit is checked, then the body is awaited.
StartImport(r) ==
  /\ IF Cardinality(Purged) >= MaxImports THEN Answer(r, "TOO_MANY_IMPORTS")
     ELSE Put(r, [slot[r] EXCEPT !.at = "READING"])
  /\ imports' = Purged

\* GET of an import and POST of its validation.
UseImport(r) ==
  LET found == \E i \in Purged : i.id = slot[r].id
  IN /\ CASE ~found -> Answer(r, "IMPORT_EXPIRED")
          [] found /\ slot[r].op = "describe" -> Answer(r, "ok")
          [] OTHER -> Put(r, [slot[r] EXCEPT !.at = "VERIFYING"])
     /\ imports' = Purged

\* Mutated form: a request waits for a connector that is down.
WaitsForConnector(r) == UNCHANGED slot

Unreachable(r) == Answer(r, "lost")

\* The handler up to its first await: token, limit, purge, dispatch.
Arrive(r) ==
  /\ slot[r].at = "SENT"
  /\ CASE ~up -> Unreachable(r) /\ UNCHANGED <<used, imports>>
       [] up /\ (slot[r].token # boot \/ Expired(boot)) ->
            Answer(r, "PAIRING_REQUIRED") /\ UNCHANGED <<used, imports>>
       [] up /\ slot[r].token = boot /\ ~Expired(boot) /\ used = RateLimit ->
            Answer(r, "RATE_LIMITED") /\ UNCHANGED <<used, imports>>
       [] OTHER ->
            /\ used' = used + 1
            /\ CASE slot[r].op \in {"confirm", "status"} -> Answer(r, "ok") /\ imports' = Purged
                 [] slot[r].op = "import" -> StartImport(r)
                 [] slot[r].op \in {"describe", "validate"} -> UseImport(r)
  /\ UNCHANGED <<now, up, boot, born, records, page, window, history>>

\* The body is complete and described; a refused one leaves nothing behind.
ReadTranscript(r) ==
  /\ slot[r].at = "READING"
  /\ \/ \E id \in Import \ minted :
          /\ imports' = imports \cup {[id |-> id, at |-> now, boot |-> boot]}
          /\ minted' = minted \cup {id}
          /\ Put(r, [slot[r] EXCEPT !.at = "ANSWER", !.answer = "ok", !.id = id])
     \/ Answer(r, "REJECTED") /\ UNCHANGED <<imports, minted>>
  /\ UNCHANGED <<now, up, boot, born, used, records, page, window, judged>>

\* Mutated form: the bytes are dropped only once they have a verdict.
DropOnVerdict(r, verdict) ==
  imports' = IF verdict THEN imports \ Held(slot[r].id) ELSE imports

Drop(r, verdict) == imports' = imports \ Held(slot[r].id)

\* The verifier is through: the bytes go, whatever it said.
Verified(r) ==
  /\ slot[r].at = "VERIFYING"
  /\ \E verdict \in BOOLEAN :
       /\ Drop(r, verdict)
       /\ IF verdict THEN Put(r, [slot[r] EXCEPT !.at = "SAVING"]) ELSE Answer(r, "REJECTED")
  /\ judged' = judged \cup {slot[r].id}
  /\ UNCHANGED <<now, up, boot, born, used, records, page, window, minted>>

\* The file of the record is created with wx, then written; a file that is there,
\* or a full disk, is an internal error.
Save(r) ==
  /\ slot[r].at = "SAVING"
  /\ \/ /\ <<slot[r].id, "created">> \notin records
        /\ records' = records \cup {<<slot[r].id, "created">>}
        /\ Put(r, [slot[r] EXCEPT !.at = "WRITING"])
     \/ Answer(r, "INTERNAL_ERROR") /\ UNCHANGED records
  /\ UNCHANGED <<now, up, boot, born, used, imports, page, window, minted, judged>>

Write(r) ==
  /\ slot[r].at = "WRITING"
  /\ \/ records' = records \cup {<<slot[r].id, "written">>} /\ Answer(r, "ok")
     \/ Answer(r, "INTERNAL_ERROR") /\ UNCHANGED records
  /\ UNCHANGED <<now, up, boot, born, used, imports, page, window, minted, judged>>

Interrupted(r) == slot[r].at \in {"READING", "VERIFYING", "SAVING", "WRITING"}

Crash ==
  /\ up /\ up' = FALSE /\ imports' = {}
  /\ slot' = [r \in Request |->
       IF Interrupted(r)
       THEN [slot[r] EXCEPT !.at = "ANSWER", !.answer = "lost"] ELSE slot[r]]
  /\ UNCHANGED <<now, boot, born, used, records, page, window, history>>

\* createConnector: a new pairing file, an empty rate map.
createConnector ==
  /\ ~up /\ boot < MaxBoots
  /\ up' = TRUE /\ boot' = boot + 1 /\ born' = [born EXCEPT ![boot + 1] = now] /\ used' = 0
  /\ UNCHANGED <<now, imports, records, slot, page, window, history>>

Tick ==
  /\ now < MaxNow /\ now' = now + 1 /\ used' = 0
  /\ UNCHANGED <<up, boot, born, imports, records, slot, page, window, history>>

-----------------------------------------------------------------------------
\* The page and its import window.

storedPairing == page.pairing # None /\ ~Expired(page.pairing)

\* connectorRequest: nothing is sent without a pairing, and a stale one goes.
Send(r, op, id, next, refused) ==
  IF storedPairing
  THEN Put(r, Sent(op, page.pairing, id)) /\ page' = next
  ELSE Put(r, Idle) /\ page' = [refused EXCEPT !.pairing = None]

\* A file of this or an earlier start of the connector is picked.
importPairing(r) ==
  /\ slot[r].at = "IDLE"
  /\ \E b \in 1 .. boot :
       /\ ~Expired(b)
       /\ page' = [page EXCEPT !.pairing = b]
       /\ Put(r, Sent("confirm", b, None))
  /\ UNCHANGED <<now, connector, window, history>>

\* The script starts afresh; whatever it waited for is no longer heard, the
\* window's requests excepted.
Reloaded(r, next) ==
  slot' = [q \in Request |->
    IF q = r THEN next
    ELSE [slot[q] EXCEPT !.heard = @ /\ slot[q].op = "import"]]

Load(r) ==
  /\ slot[r].at = "IDLE"
  /\ IF storedPairing
     THEN page' = Blank(page.pairing) /\ Reloaded(r, Sent("status", page.pairing, None))
     ELSE page' = Blank(None) /\ Reloaded(r, Idle)
  /\ UNCHANGED <<now, connector, window, history>>

\* Forget pairing: cleared, and the page loads again.
Forget ==
  /\ page.pairing # None /\ page' = Blank(None)
  /\ slot' = [q \in Request |-> [slot[q] EXCEPT !.heard = @ /\ slot[q].op = "import"]]
  /\ UNCHANGED <<now, connector, window, history>>

\* The import window is opened, says it is ready and is given the token.
OpenWindow ==
  /\ page.connected /\ storedPairing
  /\ page' = [page EXCEPT !.opened = TRUE] /\ window' = page.pairing
  /\ UNCHANGED <<now, connector, slot, history>>

SubmitImport(r) ==
  /\ slot[r].at = "IDLE" /\ window # None
  /\ Put(r, Sent("import", window, None))
  /\ UNCHANGED <<now, connector, page, window, history>>

ClickValidate(r) ==
  /\ slot[r].at = "IDLE" /\ page.importId # None /\ ~page.disabled
  /\ Send(r, "validate", page.importId, [page EXCEPT !.disabled = TRUE], page)
  /\ UNCHANGED <<now, connector, window, history>>

\* The pairing's own request and the status after it: any failure clears what
\* is stored, whichever pairing that is by now.
Paired(r) ==
  IF slot[r].answer = "ok"
  THEN IF slot[r].op = "confirm"
       THEN Send(r, "status", None, page, [page EXCEPT !.connected = FALSE])
       ELSE page' = [page EXCEPT !.connected = TRUE] /\ Put(r, Idle)
  ELSE page' = [page EXCEPT !.pairing = None, !.connected = FALSE] /\ Put(r, Idle)

\* The window tells its opener, which asks the connector for the descriptor.
Imported(r) ==
  IF slot[r].answer = "ok" /\ page.opened
  THEN Send(r, "describe", slot[r].id, page, page)
  ELSE Put(r, Idle) /\ UNCHANGED page

Described(r) ==
  /\ page' = IF slot[r].answer = "ok"
             THEN [page EXCEPT !.importId = slot[r].id, !.result = None] ELSE page
  /\ Put(r, Idle)

\* Mutated form: the verdict is taken from any answer.
ResultOfAny(r) ==
  /\ page' = [page EXCEPT !.result = slot[r].id]
  /\ Put(r, Idle)

Result(r) ==
  /\ page' = IF slot[r].answer = "ok" THEN [page EXCEPT !.result = slot[r].id]
             ELSE [page EXCEPT !.disabled = FALSE]
  /\ Put(r, Idle)

Receive(r) ==
  /\ slot[r].at = "ANSWER"
  /\ CASE ~slot[r].heard -> Put(r, Idle) /\ UNCHANGED page
       [] slot[r].heard /\ slot[r].op \in {"confirm", "status"} -> Paired(r)
       [] slot[r].heard /\ slot[r].op = "import" -> Imported(r)
       [] slot[r].heard /\ slot[r].op = "describe" -> Described(r)
       [] slot[r].heard /\ slot[r].op = "validate" -> Result(r)
  /\ UNCHANGED <<now, connector, window, history>>

Handle(r) ==
  \/ Arrive(r) \/ ReadTranscript(r) \/ Verified(r) \/ Save(r) \/ Write(r) \/ Receive(r)

Next ==
  \/ \E r \in Request :
       Handle(r) \/ importPairing(r) \/ Load(r) \/ SubmitImport(r) \/ ClickValidate(r)
  \/ Forget \/ OpenWindow \/ Crash \/ createConnector \/ Tick

Spec == Init /\ [][Next]_vars

\* Every handler runs on after its await, and every answer arrives.
FairSpec == Spec /\ \A r \in Request : WF_vars(Handle(r))
-----------------------------------------------------------------------------
\* A request of this kind succeeded.
Answered(r, op) == slot[r].at = "ANSWER" /\ slot[r].op = op /\ slot[r].answer = "ok"

\* What is in memory belongs to this start of the connector.
ImportsInOrder ==
  /\ \A i \in imports : up /\ i.boot = boot /\ i.id \in minted
  /\ \A i, j \in imports : i.id = j.id => i = j

\* So does what runs.  What a request names was given out, and a verdict that was
\* answered is on disk.
RequestInOrder(r) ==
  /\ slot[r].at \in {"READING", "VERIFYING", "SAVING", "WRITING"} => up /\ slot[r].token = boot
  /\ slot[r].at = "READING" => slot[r].op = "import"
  /\ slot[r].at \in {"VERIFYING", "SAVING", "WRITING"} => slot[r].op = "validate"
  /\ slot[r].at \in {"SAVING", "WRITING"} => slot[r].id \in judged
  /\ slot[r].op \in {"describe", "validate"} => slot[r].id \in minted
  /\ Answered(r, "import") => slot[r].id \in minted
  /\ Answered(r, "validate") => <<slot[r].id, "written">> \in records

\* Every record on disk is of an import that was verified.
Inductive ==
  /\ TypeOK /\ ImportsInOrder
  /\ \A r \in Request : RequestInOrder(r)
  /\ page.importId \in minted \cup {None}
  /\ \A f \in records : f[1] \in judged
  /\ judged \subseteq minted

\* The bytes of an import are gone once they were verified, whatever came of it
\* and whoever else still verifies them (connector.mjs, validate).
BytesDropped == \A i \in imports : i.id \notin judged

\* A verdict the page shows is the verdict of a record that is whole on disk,
\* although the connector may have crashed while it wrote or answered (hub-app.js,
\* the validate handler).
ShownIsRecorded == page.result # None => <<page.result, "written">> \in records

\* A request comes to an end, whatever happens to the connector meanwhile.
RequestsEnd == \A r \in Request : slot[r].at # "IDLE" ~> slot[r].at = "IDLE"

\* No more than the allowed number of imports is in memory (WORKLOAD_W1.md).
AtMostFour == Cardinality(imports) <= MaxImports

\* A pairing the connector accepts is forgotten only by the user
\* (DEAL_HUB_V1.md; connector-client.js, connectionStatus and importPairing).
PairingKept ==
  [][page.pairing = boot /\ ~Expired(boot) /\ page'.pairing = None => Forget]_vars

\* The token is held in the page's session storage only (DEAL_HUB_V1.md; the
\* token variable of import.js).
TokenOnlyInStorage == window # None => window = page.pairing

\* An import the page calls ready can be validated, or is being validated
\* (hub-app.js, "Validate when ready").
ReadyCanBeValidated ==
  page.importId # None /\ page.result = None /\ page.disabled =>
    \E r \in Request : slot[r].op = "validate" /\ slot[r].at # "IDLE" /\ slot[r].heard

\* The verdict shown is that of the import shown (hub-app.js, "for these
\* supplied bytes only").
ShownTogether == page.result # None => page.result = page.importId
=============================================================================
