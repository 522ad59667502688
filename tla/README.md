# Verification of TCLK BLACKBOX

TLA+ models, TLC checks and TLAPS proofs for the parts of this repository that
decide whether an irreversible action (a signature, a POST to a public room, a
PaperRail write) happens once, in order, and is recorded truthfully.

The repository's central claim is `SIGNED != SUBMITTED != ACK_RECEIVED !=
OBSERVED_PUBLIC != COMPLETE`: every one of these is separate evidence, and no
crash, retry, concurrent request or silent venue may turn one into another.

Contents: [inventory](#inventory), [modules](#modules), [runs](#runs),
[proofs](#proofs), [divergences](#divergences-from-the-documents),
[limits](#what-is-not-shown), [plan](#plan), [how to run](#how-to-run).

## Inventory

| component | source (under `src/blackbox`) | state | operations | what is hard | what makes it correct |
|---|---|---|---|---|---|
| Attempt budget | `airlock/attempt-budget.mjs` | one marker file per identity | acquire, inspect | racing processes, kill between create, write and fsync, power loss | the guarded operation runs at most once, and never without a complete record |
| Deal Hub engine | `hub/engine.mjs`, `hub/session.mjs` | `session.json`, the in-memory set `active` | prepare, execute, refresh, finalize, serve | requests interleave at every await and save the snapshot they read; the file is rewritten in place; crash | order of the deal, one effect per attempt, true records, exclusive execution |
| Real executor | `hub/real-executor.mjs` | artifacts (`wx` files), budgets | prepare, sign, submit, write rail, observe | POSTs lost, late or unanswered; a world-writable rail; failing reads | uncertainty is recorded as such; a recovery only after it, and once |
| W2 publication | `workloads/validation-publication/*` | nonce store, operation ledgers, custody | reserve, prepare, approve and sign, submit, observe, cancel | per-file lock, two concurrent operations on one ledger, results stored late, nonce exhaustion, crash while signing | unique nonces, at most one signature and one POST, COMPLETE only on exact observation |
| Phase 3B lineage | `phase3b-s2.mjs`, `export-public-phase3b-capsule.mjs` | exclusive evidence files, budgets, the public copy | sign, submit, second attempt, observe, write rail, finalize, export | two commands at a time, a command that dies in a file, late answers, a note anybody may write, a second attempt after an uncertain first | a stage is public only after the one before, evidence is true and is never lost |
| First journey | `phase3b2-cli.mjs`, `phase3b-submit-observe.mjs`, `phase3b-rail.mjs`, `phase3b2.mjs`, `phase3b-finalize.mjs` | the same, with files that are overwritten, and what earlier attempts left behind | sign, submit, observe, reconcile, write rail, finalize | repeated commands, observations that change, spent budgets without a receipt | one copy of each message, in order; a complete capsule is true |
| Signature airlock | `airlock/adapter.mjs`, `envelope.mjs`, `budget.mjs`, `signer.mjs`, `prepare.mjs`, `verify.mjs`, `operator-approval.mjs` | ledger, the transport's nonces | prepare, approve, dry run, courier, verify, settle | a request edited after its approval, expiry, a response presented again, callers that keep no ledger | what is signed and settled is what was approved, once |
| Detached signing | `airlock/real-route.mjs`, `airlock/detached-bridge.mjs`, `phase3b2-cli.mjs` | budget, request file, child process | approve, spend, check the worktree, run the child, verify | racing routes, a killed route whose child goes on, a worktree that moves | one signature for a budget, by the reviewed signer |
| Connector | `hub/connector.mjs`, `web/connector-client.js`, `web/hub-app.js`, `transcript-validation/import.js` | pairing, rate counters, imports in memory, records on disk; the page's session storage | pair, import, describe, validate, forget | checks before an await, expiry, restarts, late answers | verdicts shown are on disk, bytes go with their verdict, calls end |
| Identity hub | `hub/identity.mjs`, `hub/session.mjs` | selection file, deal directories | discover, select, create and list deals | identities that come and go between two scans, crashes between files | a deal that can be read has two agents and its whole secret |
| Replay core | `core/*` | none (one pass, then projections) | replay, project, import a live export | rejected and later frames, overlapping windows | each frame shows a history, nothing is replayed twice |
| W1 verifier | `workloads/transcript-validation/verifier.mjs` | checks and counters of one pass | judge a line, finish | findings on lines whose checks end early | `VALID` only when the lines as a whole are |
| Publication page | `web/workload-record.js` | buttons, timer, last answer | prepare, sign, cancel, submit, observe | answers late, lost or crossed, expiry, buttons pressed before there is an operation | nothing is asked twice for an operation or shown backwards |

Interactions: the web page calls the connector over HTTP; the connector calls
`DealEngine` for deals, the W1 verifier for imports and the W2 service for
publications; the engine calls the real executor, which takes an attempt budget,
calls the detached signer and talks to the venue; the engine persists the result
in the session. The Phase 3B commands are processes started by hand: they share
evidence files, budgets and the venue with each other and nothing with the hub.
Budgets are the only state shared between processes of different kinds.

Not modelled, and why: the pages under `web/` that only display a fetched record;
`lab/` and `scripts/`, one-off probes and attestations of the pinned upstream;
command line wiring and terminal output; `render.mjs`, `ui/`, the demonstrations
and the rehearsal, which format or replay components listed above;
`canonical.mjs`, `json.mjs`, `capsule.mjs`, `provenance.mjs`, `chaos.mjs` and
`phase3b-fixture.mjs`, conversions character by character;
`SimulatedExecutor`, a test double; the origin check of the connector.
`PROJECT.json` lists every component with its status and the hazards with their
lines.

## Modules

### OneShot and AttemptBudget

`OneShot` is what a budget promises: `Grant` once per identity, only the grantee
may `Use` it, a grant lost to a crash is lost for good (`Forfeit`), and nothing
makes an identity available again.

`AttemptBudget` is `acquireOneShotAttempt` file operation by file operation.

| model | code |
|---|---|
| `marker[i]` in `ABSENT, EMPTY, PARTIAL, RECORD` | the marker file: missing, created, half written, complete |
| `synced` | `fsyncSync` returned |
| `CreateMarker`, `RefuseSpent`, `RefuseUnusable` | the outcomes of `mkdirSync` and `openSync(path, 'wx')` |
| `WritePart`, `WriteRest`, `SyncMarker`, `RecordFails` | `writeSync`, `fsyncSync`, an exception in either |
| `Perform` | the caller's irreversible operation after the return |
| `Kill`, `PowerLoss` | a process dies; the machine loses what was not synced |

After power loss an unsynced marker is in any form it had before, including
absent. `fsync` of the file is taken to persist its directory entry too; the
code does not sync the directory, so this is an assumption about the file system
(it holds on NTFS and on journalled Linux file systems for a new file).

The refinement maps `spent` to `synced` and `holds` to the identity of a process
that has been cleared.

### DealHub

One session, the requests of one connector process, the disk and the venue.

| model | code |
|---|---|
| `session`, `readable`, `mixed` | `session.json`; a `writeFile` truncates before it writes, and overlapping writers may leave a longer document's tail |
| `prepared`, `signed`, `spent` | `prepared-<action>` and `signed` artifacts (`wx`), attempt budgets |
| `pc`, `op`, `snap` | where a request stands, its operation, the session object it read and changes |
| `active` | `engine.active`, with the request that added the name (the code has a plain set: the entry's owner is the one request that may remove it) |
| `net`, `answer`, `room`, `rail` | POSTs on the wire, answers, retained copies in the room, the PaperRail value |
| `Answered`, `AnsweredVaguely`, `NoAnswer` | an answer that tells what became of the POST; 408, 425, 429 or a 2xx that nothing verifies, which tell nothing and are filed like the others; no answer, 5xx |
| `ForeignWrite` | anybody writes a value of `Written` on the note, the deal's own next value included |
| `shown`, `effects`, `landed`, `uncertain`, `vague` | history variables the properties speak of |

A request is one `Start` action (`PrepareStart`, `ExecuteStart`, `RefreshStart`,
`FinalizeStart`: read the session, check, keep the snapshot), the steps of the
executor with one action per await that matters, and `OpenFile`, `WriteFile`
(save the snapshot, answer, leave `active`). A POST that has been sent may be
accepted, refused or lost at any later time, also after its request gave up or
the process died. `AcquireBudget` is the atomic `Grant` of `OneShot`.

What the code cannot know, the properties do not claim. `refresh()` verifies a rail
step by the value alone, and the note is unsigned and world-writable, so a rail step
has happened (`Happened`) when its exact value was on the rail, whoever wrote it; a
message has happened when the venue accepted it. And a record of an attempt is true as
far as the answer told: after a vague one it may be filed wrongly (`TrueRecord`).

Abstractions: one session (requests for different sessions share only names in
`active`, which contain the session id); texts, keys, hashes and times are left
out; a signer's valid answer and the `signed` artifact are one step; a room read
counts exact copies; the operator may approve or cancel anything that is
prepared. The last branch of `refresh()` (`BLOCKED`) has no model: the real
executor never returns a classification that reaches it. The steps are a
constant: the code's six steps, or any subsequence that a run needs.

### Publication and W2Publication

`Publication` is what publishing a validation result promises: `Sign` a draft
once over all its nonces, `Post` a signed operation once, `Appear`, `Confirm`
only what is public, `Cancel` only what is unsigned.

`W2Publication` is the W2 service over its store: calls of one connector process
that overlap, the operation ledgers, custody, the one-shot budgets and the venue.

| model | code |
|---|---|
| `ledger[o]` | `operations/<id>.json`: state, the two budgets, signature present, result of the POST recorded, an exact observation recorded |
| `custody`, `counter` | the trusted custody's current reservation of each draft, the last nonce of the lane |
| `budgets` | the `W2_SUBMIT` markers (`Grant` of `OneShot`, atomic) |
| `pc`, `op`, `result` | where a call stands, its operation, what it got |
| calls in `Holding` | they are inside `store.update()`, waiting for the operator or for custody with the lock of the ledger |
| `Saves` | `atomicJson`: temporary file, fsync, rename (a reader sees the old or the new ledger) |
| `Reserve`, `Create` | `prepare` |
| `SignStart`, `ApproveSign`, `CustodySigns`, `SaveSigned` | `approveAndSign`; on an expired approval `Burn`, `SaveCancelled` |
| `CancelStart`, `Burn`, `SaveCancelled` | `cancel` |
| `SubmitStart`, `ApproveSubmit`, `Post` or `BudgetRefused`, `Answered`, `AnsweredVaguely` or `NoAnswer`, `SaveAnswer` | `submitOnce` |
| `ObserveStart`, `Observe`, `SaveObservation` | `observe`; `Start` and the fetch hold no lock |
| `Accept`, `Reject`, `Lose` | the venue takes, refuses or never gets a POST, at any later time |
| `Expire`, `ChangeRecord`, `Crash` | the approval expires, the W1 record no longer matches, the process dies |

Abstractions: texts, hashes, approvals and signatures are the identity of the
operation (`draft`, `nonce`); all drafts share one lane. Custody is a program
outside this repository and is taken as the weakest one that fits the bridge: it
signs or burns any operation whose reservation is the current one, as often as
it is asked. The operator may type the phrase at any time, also after the
approval expired while the prompt was open, since the code compares the time
before it prompts. A client error that tells (`Answered`) means that the POST was not
accepted, which is what `REJECTED` claims; 408, 425 and 429 (`AnsweredVaguely`) are
filed as `REJECTED` too, whatever became of the POST, and `vague` remembers them. The
list of observations and the events are left out. The queue of `locked()` is any order of the waiting calls.
The idempotent return of a second `cancel` changes nothing and has no action.

### StagedLineage, Lineage and Journey

`StagedLineage` is what a lineage promises: operations become public one at a time
and in order (`Publish`), and the transcript is sealed only over all of them (`Seal`).

`Lineage` is `phase3b-s2.mjs` with the export of its capsule. Commands are processes;
`disk` holds the evidence files, each `missing`, `torn` (its writer died) or what was
written.

| model | code |
|---|---|
| `Order`, `Ready`, `PredecessorPublic` | the order of a lineage, the gates before the prompt |
| `Start`, `Approve`, `Grant` | review and prompt, checks after the prompt, `acquireOneShotAttempt` |
| `Signed`, `Answered`, `Classified`, `WriteFile` | the detached signature, the answer of a POST, its evidence file (`wx`) |
| `ObserveRoom`, `ObserveExport`, `Reconciled`, `Effective` | `runRealObserve`: the page, then the export; the first observation, the corrected one, the one that stands |
| `RecoveryEligible`, attempt `SUBMIT2` | the second attempt of the first write |
| `ObserveRail`, `Finalize`, `Export` | rail observation, the sealed capsule, the three public files |
| `Stop` | a command fails or is killed, perhaps with a file half written |
| `Arrive`, `Evict`, `ForeignWrite` | the venue takes or refuses a POST at any later time, forgets old messages; anybody writes the note |

`Journey` is the first journey (writes 1 to 6) whose commands overwrite their
evidence by renaming a new file over it. Only the rail's receipts and production
observations, the reconciliation of write 5 and the capsule are created with `wx` and
then written (`Created`, `WriteFile`): a command that dies in between (`Stop`) leaves
them torn for good. `Left` and `Begun` say where a behaviour starts:
what the attempts of earlier releases left behind, and which writes are public.
`RailRead` and `RailSave` are apart because a rail observation is classified when it
is saved. `ReconcileWrite3` and `QuarantineRail` are the two commands that explain
such remains; `SaveByHand` is the operator's copy of an observation that the program
only prints. The signing command of `phase3b2-cli.mjs` is the `SIGN` attempt.

### Airlock and SignRoute

`Airlock` is the synchronous part: `Prepare` and freeze, `Approve` (a deep-frozen
copy), `Courier` (`signFrozenAirlockRequest` with every refusal, dry runs, declined
and forged answers; `brings` says whether the caller brings its transport and its ledger or gets
new ones for the call), `SignDirectly` and `Present` (the rehearsal's path), `Edit` (the
request is a plain object and may be changed between any two calls) and `Tick`. A hash
stands for what it covers, a signature for the message it signs.

`SignRoute` is the asynchronous part: `Begin`, `Approved`, `Acquire`, `Spawn`,
`ChildSigns`, `ChildRefuses`, `Return`, `Verify`, `Refused`, with `Kill` (the child
goes on) and `MoveWorktree` at any time: to another commit, or to changes on top of the
reviewed one. The child names the commit it ran under and not those changes.

### NonceStore

`DurableW2Store.reserveNonce`: `Ask`, `locked`, `ReturnOld`, `Reserve`, `atomicJson`,
`WriteFails`, `Crash`. A crash in the middle of `atomicJson` leaves the old file or
the new one. `Limit` is 10^19 in the code, the first number that is not canonical.

### IdentityHub

`discover` and what it reports are operators on what is `installed`;
`SelectPrimary`, `OpenPrimary`, `WritePrimary` are the selection with its in-place
file; `StartDeal`, `createDealSession`, `MakeFile` the creation of a deal, whose two
agents come from a second scan, and whose two files are created and then written; `ChangeInstall` is another program, `Crash` the end of
the connector.

### Connector and PublicationPage

`Connector` has both sides of the loopback: the handler up to each await (`Arrive`,
`ReadTranscript`, `Verified`, `Save` and `Write`), `Crash` and `createConnector`, and the page with
its import window (`importPairing`, `Load`, `Forget`, `OpenWindow`, `SubmitImport`,
`ClickValidate`, `Receive`). `slot` is a request wherever it is; `heard` says whether
the script that sent it still lives. Time is in minutes; the rate limit counts the requests
of a calendar minute, so `Tick` starts a new count.

`PublicationPage` is the publication section of a record: `Press`, `Answered`,
`Render`, `TimerFires`, and `PressBlind`, `BlindFails`: Sign and Cancel are created
enabled in a hidden stage, and a preparation that fails shows it, so they may be pressed
before there is an operation, and their failure may come back when there is one; the service is seen through its answers (`Serve`, `Refuse`,
`LoseAnswer`). `Ticks` says whether the clock may pass the expiry between two reads of
it in one handler.

### Transcript, Replay and LiveImport

`Transcript` is the loop of `validateTranscript`, a line per step, with the findings
of each early `continue`; `Meaning` is the reference: what the lines say as a whole.
`Replay` is the replay of frames with its evaluation clock, and the projections of
`model.mjs` as operators on the steps; the lawful transitions belong to the pinned
upstream library and are external. `LiveImport` is a reader that joins windows of rooms
into an export, and `importLiveTranscript` with the lines it hands to the replay.

### The composed instances

`MCCustody`, `MCReaders` and `MCProgress` put several components into one run, each an
`INSTANCE` of the component, with `part` naming the one that runs; `MCAttemptBudget` puts a
deal, the main user of the budgets, beside the budget itself. This loses no
interleaving: these components share no variable, so a behaviour of the whole system
projects to one of each, and the safety and the liveness of a component speak of its
own variables only. `MCJourney` does the same with two instances of `Journey`.

## Runs

| run | instance | properties |
|---|---|---|
| `attempt_budget` | 3 processes, 2 identities; a deal of RAIL_LOCK, REVEAL, RAIL_CLAIM: 1 request at a time, 1 crash, others write CLAIM | `Inductive`, `AtMostOnce`, `PerformedIsRecorded`, refinement of `OneShot`; `DealSurvivesCrash`, `AttemptsKept` |
| `hub_interleaved` | 2 requests, RAIL_LOCK then REVEAL, 1 crash and 1 request at a time after it (`LoneAfterCrash`), others write LOCK | `Inductive`, `PredecessorsHappened`, `RecordedAttemptsAreTrue`, `RecoveryOnlyAfterUncertain`, `ExclusiveExecution`, `OneEffectPerAttempt`, `ServedRecordHappened`, `OneRailLock` |
| `w2_publication` | 3 calls, 1 draft, 2 nonces, 1 crash | `Inductive`, `SpentBeforeEffect`, `ClaimsAreTrue`, refinement of `Publication`, `EvidenceKept`, `CompleteLeftOnlyByAnswer` |
| `lineage` | 2 commands, OFFER, RAIL_LOCK, RAIL_CLAIM | `EvidenceHolds`, `OneCopyPerBudget`, refinement of `StagedLineage`, `ObservationsStand` |
| `journey` | 2 commands on writes 1 to 3; 1 command from write 3 to the capsule | `AllInductive`, `PublicOnceInOrder`, `CapsuleIsTrue`, `RailEvidenceStands` |
| `custody` | nonces: 2 callers, 2 requests, 2 lanes, numbers below 4; 3 signing routes on one budget; 3 frames, 1 edit, 2 nonces; 2 locations, 2 DIDs, 2 calls, 1 deal | `Inductive` (of `NonceStore`), `RoutesSignOnce`, `SettledAsApproved`, `DealsAreSound` |
| `readers` | 3 lines; 5 frames; 2 rooms of 4 messages, 3 records; 2 requests, 1 import, 2 starts of the connector; one page | `TranscriptIsJudged`, `ReplayIsHistory`, `PagesAreTrue`, `NothingGoesBack` |
| `progress` | 2 of each: requests, calls, routes, callers, page requests; fairness | `ApprovedExecutionEnds`, `ResultsAreSaved`, `CallsEnd` |
| `hub_lost_attempt`, `hub_reopened`, `hub_no_receipt`, `hub_failed_read` | one step | the first four divergences below, each violated |

Where a property of a composed run is a conjunction, each conjunct states one thing
and is named and explained in the module of its component; `PROJECT.json` lists a
mutant for the conjuncts, a change of the code that makes the conjunction fail.

Bounds. Three processes are enough for a race with a winner, a loser and a later
retry; two identities for their independence. Two requests give every pairwise
overlap of prepare, execute, refresh and finalize, which is what a stale snapshot
needs. A rail step followed by a signed step is the deal in which a predecessor may
have been satisfied by somebody else; `attempt_budget` adds the claim that replaces the
lock value, a whole deal to its end. Both have one crash (`MaxCrashes`) at any await, which
shows every single point of failure; the one-shot files make a second one repeat the
first. Two requests after a crash, and any other order of steps, are left to the proofs,
which cover any number of both. `Written` is the value that matters, the one that the
deal is waiting for; the proofs cover any values. The request names are symmetric in the
safety runs. Copies in the room, effects and the rest need no bound: a budget bounds them.

`w2_publication` needs three calls: a POST waiting for its answer, an observation
that completes the operation meanwhile, and a third call that wants the lock. The
second nonce is the one a draft gets after its first was burned, the only way to a
second operation of the same draft. Drafts do not share a ledger or a reservation
and meet only in the counter; the proofs cover any number.

`lineage` has a signed step with its second attempt, a rail write after a signed step
and a rail write after a rail write. A signed step after another is left out: of the
step before its own a command asks only whether it is public, and the proofs cover
any order. Two commands give a race for a budget, a file and the note;
a third meets what the two left on disk. `journey` is cut at write 3, the step that two
halves share: the first half ends with it and the second begins with it public; its
`Begun` and `Left` are the state of the repository's evidence at that time. The order
it checks is the one the code keeps: writes 2, 4 and 5 after the write before them, the
claim after the lock and write 3. Writes 1 and 3 are exempt because earlier releases sent
them, and the claim does not wait for the reveal (Divergences).

In `custody`, three routes are a holder of the budget, a loser and a later retry;
numbers below 4 are enough for a floor, a counter and the limit to differ; the three
frames are one of the approved identity, one of another and one whose text the sweep
changes, and one edit changes any single field of a request after its approval. In
`readers`, a gap, a clash and a step back are relations of two lines, which the third
may separate; five frames are a whole contract and one frame in vain; `MaxNow` lets an
import (one minute) expire and a pairing not, and `progress` lets the pairing expire
too. The limits 120, 4, 10 minutes and 8 hours of the code are the constants 3, 1, 1
and 2: what is checked is what happens at each.

Deadlock is not checked for `DealHub`, alone or beside `AttemptBudget`: a session may really
stop, complete, unreadable after a crash, or with its budgets spent. Nor for
`W2Publication`, which may end with its nonces and budgets spent, nor for the
composed runs and the journeys, whose bounded counters, transcripts and one-time files
run out. `Lineage` never stops.

Fairness. `FairSpec` is weakly fair to what a request does by itself once it is
under way (`Work`): file operations and fetches settle, since the fetch of Node
bounds headers and body by timeouts. Nothing is assumed of the operator, of the
detached signer (it waits for a confirmation of its own, without a timeout), of
the venue or of crashes. `ApprovedExecutionEnds` therefore speaks of submissions
and rail writes and not of signatures. `W2Publication` is fair to the same kind of
steps, its `Work`; the prompts and custody (`Awaited`) get no fairness, so
`ResultsAreSaved` says that an open prompt is never in the way of a result: no call
can be in one for an operation whose signature or answer is on its way
(`OneWorker`), and an observation waits for none either. `RouteEnds`, unlike these two,
does assume that the operator answers: a signing route and its child are weakly fair,
since their prompts end with an answer, a closed terminal or the kill of the process;
a route that is killed ends at once. The lock of the nonce file is strongly fair to each caller
because `locked()` chains each call on the promise of the one before, so a caller that
waits is served in turn although the lock is taken and released meanwhile; the file
operations behind it are weakly fair. A connector request is weakly fair at each of its
steps (`Handle`), and a connector that died answers with a refused connection. In
`progress` each of these conditions is asked only of the component that runs.

## Proofs

`AttemptBudgetProofs` proves, for any sets `Process` and `Identity`:

- `InductiveInvariant`: a process past the exclusive create is alone for its
  identity, the operation has not run, the marker has the form its pc says, and
  a marker is synced exactly when it clears the caller. `AtMostOnce` alone is not
  inductive: it does not say that a cleared process has a fresh identity.
- `OperationAtMostOnce`, `RanMeansRecorded`: the two safety properties.
- `MarkersImplementOneShot`: every step maps to `Grant`, `Use`, `Forfeit` or a
  stutter of `OneShot`.

The only assumption is `NoIdentityAssumption` (the "no grant" value is not an
identity).

`DealHubProofs` proves, for any steps, any set of requests and any number of
crashes:

- `InductiveInvariant`. Neither the order of the deal nor the truth of a served
  record is inductive: a step's effect follows from a check that its request made
  on a snapshot, perhaps long ago, and the snapshot may be saved over a newer one.
  `Inductive` therefore says of the file **and of every snapshot a request holds**
  that a final operation happened (above) and that an operation is open only after
  final predecessors (`SessionsSound`); that what a request checked still holds of
  its own snapshot (`RequestsChecked`); that a name in `active` has one owner
  (`NamesUnique`); that what is in the room was accepted and what is on the rail was
  shown (`EvidenceReal`); that a note the deal has locked is never vacant again
  (`RailLockStands`); that an
  effect has its budget, while a budget just taken has had no effect and has one
  holder (`BudgetsHeld`); that every recorded attempt is true, as far as its answer told, and every recovery on
  offer follows an uncertain attempt (`RecordsHonest`); and that a POST is on the
  wire, accepted or neither, and an answer that tells says which (`AnswersHonest`). It works
  although a stale save may undo a newer state, because what happened never becomes
  untrue: an effect stays, what landed stays, what was lost does not return.
- From it `AttemptsHaveOneEffect`, `DealKeepsItsOrder`, `RecordsAreTrue`,
  `RecoveriesAreEarned`, `ServedRecordIsTrue`, `ExecutionIsExclusive` and
  `RailIsLockedOnce`: a first write of the lock was sent while the note was vacant, so
  of it and its recovery the one that comes second finds a value. Of the claim this is
  not so, since anybody may write the lock value again in between.
- `AttemptsStay`, for one request at a time (`OneRequest`: no two requests are
  different), with crashes between its steps. Its invariant `SnapshotsCurrent` says that
  what the request holds contains every attempt that is saved. It fails for overlapping
  requests, as the divergences show.

Assumptions: `StepsAssumption` (a non-empty sequence of different step kinds),
`CrashesAssumption`, `NoActionAssumption`, `WrittenAssumption` (others write no vacancy).

`W2PublicationProofs` proves, for any drafts, calls, nonces and crashes:

- `InductiveInvariant`. The safety properties are not inductive: a call signs,
  posts or stores because of what the ledger said before it waited, with the lock
  released in between. `Inductive` says what of that still holds (`CallsInOrder`),
  that the fields of a ledger agree with its state (`LedgersInOrder`), effects with
  ledgers and reservations (`EffectsInOrder`), ledgers with the venue
  (`VenueInOrder`), that a burned nonce never comes back (`ReservationsInOrder`)
  and that no two calls are on their way to an effect of one operation
  (`OneWorker`): the lock keeps the second out while it is held, and the state of
  the ledger does once it is free.
- `BudgetsSpentFirst`, `LedgerTellsTheTruth` (of a rejection, unless its answer was vague);
  `EvidenceIsKept` and
  `CompleteIsLeftOnce` are action properties: what each write puts into a ledger
  is stated once in `LedgerChange` and `LedgerValue`.
- `ServiceKeepsPromise`: each step is a `Sign`, `Post`, `Appear`, `Confirm`,
  `Cancel` or a stutter of `Publication`. That a draft is signed once over all its
  nonces follows from "signed means still reserved": custody has one current
  reservation per draft, and only a pending operation is ever burned.

The only assumption is `BoundsAssumption` (the two bounds are numbers).

`LineageProofs` proves, for any order of steps that starts with a signed one
(`OrderAssumption`) and any commands at a time:

- `LineageInductive`. That the evidence is true is not inductive: a file is written long
  after what it says was found, and by then others have written theirs. `Inductive`
  says that a file, on disk **or about to be written**, is founded on what has happened
  (`FilesFounded`), and that a request which is posted or may still be, for its command
  passed the gates, comes after everything before it (`StepsInOrder`). It stands
  because a file is created once: what a gate read on disk stays as it was
  (`DiskFinal`), also when its neighbours are torn. `CorrectionStep` is the point where
  two observations meet: a corrected one can only appear beside an absence.
- From it `LineageEvidenceHolds`, `LineageOneCopyPerBudget` (by counting the copies of a
  room against the attempts that may have left them) and the action property
  `LineageObservationsStand`.
- `LineageImplementsStages`: an arrival at the venue is a `Publish`, the creation of the
  capsule is a `Seal` and everything else a stutter of `StagedLineage`.

`JourneyProofs` proves, for any set of operations that the commands work on, any number
of commands, anything that earlier attempts left behind and any starting point whose
writes were observed one after the other (`BegunAssumption`):

- `InductiveHolds`. That the evidence is true is not inductive here either, and the
  files are no help: unlike those of a lineage they are overwritten, so what a gate
  read may be gone. `Inductive` therefore never speaks of what stood in a file when a
  gate read it but of what the venue took, which is never undone: an observation found,
  on disk or still in a command's memory, a receipt or an applied request means that
  the venue took the message (`EvidenceFollowsVenue`); a request whose command passed
  the gates, or that is on its way, comes after its predecessor was taken
  (`RequestsInOrder`); and what was sent has its budget, while what is on its way has
  no copy yet (`PostsAccounted`). A file that is created and not yet written has one
  writer, and what that is going to write is true (`WritersInOrder`, `Founded`). The attempt at write 3 that an earlier release made
  has no such account, and the claim on the rail waits for the lock only: both are
  exceptions of the invariant because they are exceptions of the code.
- From it `PostedOnce`, `InOrder`, `EvidenceHolds`, `CapsuleHolds` and
  `RailEvidenceHolds`: a claim that was posted, and a capsule that is whole, stand on a
  whole observation and receipt, because neither file is ever written over.

`MCJourneyProofs` proves the same of the two stretches that the `journey` run puts side
by side (`BothInductive`, `BothInOrder`, `BothCapsules`, `BothRailEvidence`).

`CustodyProofs` proves, of the four components of the `custody` run, what holds of each
alone, and then of the four as they are run there; the constants are arbitrary but for
`LimitAssumption` (a number above 1), `AirlockAssumption` (at least one nonce) and
`HubAssumption` (locations are numbers, and "none" is no deal and no agent).

- Nonces (`Invariance`, `Durable`, `Once`, `Same`): the lock is held by one call and
  what that call read is what the file holds (`LockInv`); the counters bound the nonces
  and no two reservations share a number or a request (`FileInv`); what is about to be
  saved is new (`NextInv`). That no nonce is given twice is not inductive without the
  first: a second reader would decide on a file that the first is about to replace.
- Signing routes (`RouteInductive`, `RouteSignsOnce`, `RouteDeliversReviewed`,
  `RouteLeavesNothing`). One signature per budget is not inductive: a killed route
  leaves a child that still signs. The invariant says of each route that may reach the
  signer, or whose child already did, that it has spent its budget, that no other such
  route holds the same one, and that the only signature of that budget is its own.
- Airlock (`AirlockHolds`, `AirlockNonceOnce`): what was signed and accepted is what was
  approved, though the request can be edited between any two calls. The invariant says
  that whatever was signed or presented goes by a fingerprint that an operator opened,
  that no nonce used so far is above the last one of the transport that is kept
  (`NoncesInOrder`), and that the ledger that is kept knows what was settled with it. That a
  request is settled once and a nonce used once holds between the calls that bring one
  ledger, or one transport; a call that brings none gets a new one and remembers nothing.
- Identity hub (`HubHolds`): a deal that can be read has its secret, and a deal with
  agents has two different ones. The invariant says which files are there while a call
  still makes the next one (`FilesInOrder`), and that no two calls make the same deal.
- `NoncesAreReserved`, `EveryRouteSignsOnce`, `EverySettledIsApproved`,
  `EveryDealIsSound`: the properties of the run. A step is one of
  one component and a stutter of the others (`OneRuns`).

`ReadersProofs` does the same for the five components of the `readers` run, for any
lines, frames, rooms, requests and imports and any bounds, with `EntryAssumption` and
`FrameAssumption` (lines and frames are of the form the parser gives them),
`RoomAssumption` and `ImportAssumption` (numbers are numbers, "none" is no import).

- Transcript. The reference `Meaning` speaks of all pairs of lines and the pass
  remembers only the last number, the identities and the worst finding of each check.
  The invariant says what these stand for: the number is that of the last row
  (`RowsInOrder`), a check has failed exactly if some line is wrong or two clash, and
  short of that one is unknown exactly if a row is unsure (`FindingsInOrder`), and rows
  follow one another as long as no gap was counted (`OrderInOrder`). `RowFacts` splits
  a step by the early `continue`s of the loop. That the verdict never leaves `INVALID`
  (`DecidedFacts`) follows from `update`, which keeps the worst.
- Replay. `flightPath` and the marks are drawn from the whole
  transcript for each frame; the invariant gives the history a shape that does not depend on
  the frame: each state is entered from one before it (`Chain`, `HistoryInOrder`), ranks never
  fall, a terminal state stays, and with one evaluation time nothing is locked that
  could be refunded (`ClockInOrder`). `PathShown` compares it with the route.
- Live import. `Said` and `DocumentInOrder` say that every record was said and that the
  document describes its records. That a reported gap is a missed message is a counting
  argument: records of an export that advances without a gap are one apart, position by position
  (`Spaced`, `Unbroken`). Like the choice of a first position by `CHOOSE` in the replay, it is
  proved from the least counterexample (`Least`), since an induction rule cannot be cited.
- Connector and page (`ConnectorHolds`). That the bytes go with the verdict and a verdict
  shown is on disk is not inductive, since a request runs on after its await on
  what it read before it: the invariant says of each request, wherever it stands, that
  its token is of this start of the connector while it runs, that its import was given out, and
  that an answer "validated" is whole on disk, written by the request that created it
  (`RequestInOrder`, `ImportsInOrder`).
- Publication page (`PageHolds`). That nothing is asked twice rests on the buttons, and
  these on answers that may be late: the invariant says what the page has pressed and
  may still press, by what it shows (`AsksInOrder`), that requests which name no operation
  touch nothing but buttons and leave at most two for a Cancel (`CancelsAtMostTwice`), and that neither page nor answer is ahead
  of the ledger (`AnswersInOrder`). The clock is read once in a handler (`Ticks` FALSE).
- `EveryTranscriptIsJudged`, `EveryReplayIsHistory`, `EveryPageIsTrue` and the action
  property `EveryStepForward`: the properties of the run.

## Divergences from the documents

The first four are shown by runs of their own, which TLC must find violated.

1. `AttemptsImmutable`: docs/DEAL_HUB_V1.md:41 says old attempts remain
   immutable. `refresh()` writes back the session it read before its venue reads;
   a prepare and an execute that finished in between are lost, with the attempt
   they recorded. The budgets are not lost, so nothing runs twice
   (`OneEffectPerAttempt` holds). With one request at a time the property holds
   (`AttemptsKept`).
2. `FinalizedStays`: README.md:55 calls the completed Flight Record read-only. A
   refresh that read the session before `finalize()` and was still reading the venue
   saves it afterwards, and the record is open again and no longer served.
3. `RailNeedsReceipt`: docs/DEAL_HUB_V1.md:54 asks for a write receipt and an
   exact value. A rail write without an answer is `SUBMISSION_UNCERTAIN`, and
   `refresh()` verifies it by the value alone.
4. `RecoveryOnlyIfAbsent`: docs/DEAL_HUB_V1.md:41 offers a recovery only when
   observation proves the record absent. A read that fails counts as a read that
   found nothing.

The others are stated in the modules, beside the properties that hold, and refuted by
TLC when they are added as an invariant (`PairingKept`: as a property) to the instance
of the run, with the constants named here where they differ from it.

| module, property | the code | what the repository says |
|---|---|---|
| DealHub `RejectedIsDefinite` | `real-executor.mjs:130` and `:146` file every 4xx as `REJECTED`, 408, 425 and 429 included (docs/DEAL_HUB_V1.md:41 says so of an "explicit 4xx") | docs/PHASE3B_FAILURE_MATRIX.md:28: these map to `unknown`, "the frame may well be public" |
| W2Publication `RejectedIsDefinite` | `service.mjs:132`: the same | the same |
| Lineage `RejectedIsDefinite` | `phase3b-s2.mjs:165` files every 4xx as `REJECTED`, 408, 425 and 429 included | docs/PHASE3B_FAILURE_MATRIX.md:28: these map to `unknown`, "the frame may well be public" |
| Lineage `UncertainCanBeReconciled` | `phase3b-s2.mjs:288` asks an observation for submit evidence, which a submission killed after its POST never wrote (line 168) | docs/PHASE3B_FAILURE_MATRIX.md:15: reconciliation "YES, mandatory" |
| Lineage `ReconciledWasFalseNegative` | `phase3b-s2.mjs:262` files every later public observation as a false negative of the first, also when the message became public in between | blackbox/tests/phase3b-s2-observer.test.mjs:39: "historical false negative is preserved" |
| Journey `SecretOnlyAfterReveal` | `phase3b-rail.mjs:32`: the claim waits for the lock on the rail and not for the reveal | docs/PHASE3B_PUBLIC_FOOTPRINT.md:181: the preimage is published "at write #4 only" |
| Journey `RetentionRestsOnAck` | `phase3b-submit-observe.mjs:675` records write 2, when it is not found, as acknowledged and evicted, without looking for a submission | docs/PHASE3B_FAILURE_MATRIX.md:49: "`SIGNED` never implies `SUBMITTED`" |
| Journey `PredecessorStaysPublic` (write 3 in `Active` of the second instance) | `phase3b-submit-observe.mjs:654` renames a later observation over the earlier one, so a second look after an eviction makes a public message absent | `phase3b2.mjs:29`: `OBSERVED_PUBLIC` leads to `ACCEPTED_BY_MACHINE` only |
| Airlock `ContactIsReported` | `adapter.mjs:335`: `refusal()` says the signer was not contacted, also when it was asked and refused (lines 443 and 449) | docs/CANONICAL_SIGNER_ADAPTER.md:66 describes the field by whether it was contacted |
| Airlock `NonceNeverReused` | `adapter.mjs:366`: a call without a transport makes a new one, whose nonces start at 1; between calls that bring one transport the property holds (`NonceOnce`) | `signer.mjs:107`: "Never reused per room" |
| Airlock `SettledForGood` | `adapter.mjs:367`: a call without a ledger makes a new one, in which no request is settled; between calls that bring one ledger the property holds (`SettledOnce`) | `envelope.mjs:164`: the ledger exists "so a completed handoff cannot quietly become a second action on the same machine" |
| Connector `AtMostFour` (2 imports, limit 9) | `connector.mjs:116`: the limit is compared before the body is awaited, the import is counted after | docs/WORKLOAD_W1.md:3: "at most four may be pending" |
| Connector `PairingKept` | `connector-client.js:79`: a failed status clears the stored pairing, whichever was imported meanwhile | docs/DEAL_HUB_V1.md:19: forgotten when the tab ends or **Forget pairing** is selected |
| Connector `TokenOnlyInStorage` | `import.js:8`: the import window keeps the token in a variable | docs/DEAL_HUB_V1.md:19: "held only in browser session storage" |
| Connector `ReadyCanBeValidated` (2 imports, limit 9) | `hub-app.js:234`: the button stays disabled after a success, also for the transcript imported next | `hub-app.js:229`: "Validate when ready." |
| Connector `ShownTogether` (2 imports, limit 9) | `hub-app.js:237`: a late verdict is shown beside the hash of a later import | `hub-app.js:238`: "for these supplied bytes only" |
| IdentityHub `ReadyIsReported` | `identity.mjs:119`: the signers of all places of a DID are merged, the status is that of the first | docs/IDENTITY_HUB.md:49: "reports whether the existing signer is ready, locked or unavailable" |
| IdentityHub `CanBeSelected` | `identity.mjs:145` empties the selection file before it writes it; left empty by a crash it makes every discovery fail | docs/IDENTITY_HUB.md:23: "the user must select the primary explicitly" |
| IdentityHub `DealsAreListed` (2 deals) | `session.mjs:67` reads all deals at once; a directory without a session makes the list fail | docs/DEAL_HUB_V1.md:53: "Each deal has its own directory" |
| Replay `CurrentIsShown` | `model.mjs:43`: the path of a cancelled contract leaves out that it was accepted | docs/BLACKBOX_ARCHITECTURE.md:41: "rejected steps preserve the current node" |
| PublicationPage `OfferedForAnOperation` | `workload-record.js:44` and `:45` create Sign and Cancel enabled and line 99 shows them when a preparation fails; what is then pressed asks for an operation named null, and only fails | `workload-record.js:41`: "You are approving exactly this publication." |
| PublicationPage `CancelFits` | `workload-record.js:101` gives Cancel back on any failure, also after SIGNED was rendered | `workload-record.js:94`: disabled unless `APPROVAL_PENDING` |
| PublicationPage `UncertainIsObservable` | `workload-record.js:102`: when the answer of Submit is lost, neither Submit nor Observe can be pressed until the page is loaded again | `workload-record.js:96`: "Only read-only public observation is available." |
| PublicationPage `OfferExpires` (`Ticks` TRUE) | `workload-record.js:62` and `:92` read the clock twice; when it passes the expiry in between, no timer withdraws the offer | `workload-record.js:65`: "APPROVAL PENDING · EXPIRED" |

## What is not shown

- Liveness under fairness (`progress`) is only model-checked: it needs ENABLED, which the
  prover does not handle. Every other property that a run shows to hold is also a
  theorem; `AttemptsKept`, which is `AttemptsImmutable` of a single request, under the
  hypothesis of one request at a time.
- Who wrote a value of the rail that a deal found there: the note is unsigned, and
  `PredecessorsHappened` and `ServedRecordHappened` say that it was there, not by whom.
- What the recursive or text-level conversions compute (canonical forms, JSON, hashes,
  rendering) is taken as the identity of what they stand for; no property is about them.
- A session may get stuck: two accepted copies (a late first POST and its
  recovery) are never `exactMatchCount = 1`; a crash after the `wx` artifact makes
  a later prepare fail; a torn `session.json` is unreadable. The code fails closed
  in all of these and no document promises otherwise, so no property is stated.
- Two connector processes on the same state root are not modelled (`active` is
  per process); the budgets alone keep them apart. The same holds for two processes on
  one `NonceStore`, whose lock is a promise in memory.
- In `W2Publication` a custody child ends with the connector. A child that outlives
  it could burn or sign later; what custody then allows is decided by the Python
  program the bridge calls. `SignRoute` has children that outlive their route.
- In `Lineage` and `Journey` the bindings between evidence files (hashes of files,
  pins of releases) always hold when a file is whole: files are edited by nobody but
  the commands.

## Plan

1. Done: `OneShot`, `AttemptBudget`; `DealHub`; `Publication`, `W2Publication`, with
   their proofs.
2. Done: `StagedLineage`, `Lineage` with its proofs, `Journey`; `Airlock`; `SignRoute`;
   `NonceStore`; `IdentityHub`; `Connector`, `PublicationPage`; `Transcript`, `Replay`,
   `LiveImport`.
3. Done: the proofs of `Journey` and its two instances, of the parts of `custody`
   (`Airlock` and `IdentityHub` included) and of the parts of `readers`.
4. Done: answers that do not tell, values that others write, callers without a ledger,
   buttons without an operation, files torn between creation and writing, with the proofs
   over them; `AttemptsImmutable` for one request at a time. What is
   left to prove is nothing that a run checks, only what the models leave out: two
   processes on one state root, and a custody child that outlives its connector in
   `W2Publication`.

## How to run

    tlc -workers 2 -config AttemptBudget.cfg MCAttemptBudget
    tlc -workers 2 -config DealHubInterleaved.cfg MCDealHub
    tlc -workers 2 -config W2Publication.cfg MCW2Publication
    tlc -workers 2 -config Lineage.cfg MCLineage
    tlc -workers 2 -config Custody.cfg MCCustody
    tlapm AttemptBudgetProofs.tla
    tlapm DealHubProofs.tla
    tlapm W2PublicationProofs.tla
    tlapm LineageProofs.tla
    tlapm JourneyProofs.tla
    tlapm MCJourneyProofs.tla
    tlapm CustodyProofs.tla
    tlapm ReadersProofs.tla

The longest runs (`readers`, `hub_interleaved`, `custody`) take two to three minutes on two
workers.
