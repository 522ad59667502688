----------------------------- MODULE Transcript -----------------------------
(***************************************************************************)
(* validateTranscript of workloads/transcript-validation/verifier.mjs: one *)
(* pass over the lines of an export, which joins what it finds into ten    *)
(* checks, counts rows, gaps and duplicates, and gives one verdict and one *)
(* window status at the end.  The reference definitions below say what a   *)
(* verdict means of the lines as a whole.                                  *)
(*                                                                         *)
(* A line is what the parser and the patterns tell apart: whether it is a  *)
(* JSON object, its fields, and the outcome of each pattern and of the     *)
(* signature.  A sequence number or nonce is an exact number.              *)
(***************************************************************************)
EXTENDS Integers, Sequences, FiniteSets

CONSTANTS Line,      \* the lines that occur, a subset of LineRecord
          MaxLines   \* bound of the exploration

LineRecord ==
  [form : {"object", "value", "malformed"}, extra : BOOLEAN, shaped : BOOLEAN,
   seq : Nat, time : Nat, from : {"did", "other did", "bad did", "nickname"},
   nonce : {"absent", "bad"} \cup {"1", "2"}, text : BOOLEAN,
   sig : {"absent", "bad", "wrong", "right"}]

CONTENT == {"JSONL_FORM", "RECORD_SHAPE", "DID_SHAPE", "NONCE_EXACT", "SIGNED_TEXT",
            "SIGNATURE", "OP_IDENTITY_UNIQUE", "SEQ_ORDER"}
COVERAGE == {"GENERATION_CONTEXT", "SEQ_GAPS", "TIMESTAMP_METADATA", "RETENTION_LIMIT"}
Check == CONTENT \cup COVERAGE
Status == {"NOT_APPLICABLE", "PASS", "UNKNOWN", "FAIL"}
Verdicts == {"VALID", "INVALID", "INDETERMINATE"}
Nothing == -1

VARIABLES lines,     \* the lines read so far
          checks, rows, signedVerified, unsignedContext, legacyUnverifiable,
          seen,      \* the identities met, a set of pairs of author and nonce
          priorSeq, previousTime, gaps,
          known,     \* a generation header was supplied
          outcome

counters == <<rows, signedVerified, unsignedContext, legacyUnverifiable>>
vars == <<lines, checks, counters, seen, priorSeq, previousTime, gaps, known, outcome>>

newChecks ==
  [c \in Check |-> IF c \in {"JSONL_FORM", "RECORD_SHAPE", "SEQ_ORDER", "RETENTION_LIMIT"}
                   THEN "PASS" ELSE "NOT_APPLICABLE"]

rank == [NOT_APPLICABLE |-> 0, PASS |-> 1, UNKNOWN |-> 2, FAIL |-> 3]

\* The worst of some statuses.
Worst(statuses) == CHOOSE s \in statuses : \A t \in statuses : rank[t] <= rank[s]
Found(found, c) == {s \in Status : <<c, s>> \in found}

\* Mutated form: the last finding counts.
LastFinding(found) ==
  [c \in Check |-> IF Found(found, c) = {} THEN checks[c] ELSE Worst(Found(found, c))]

\* Each check keeps the worst status it was given.
update(found) == [c \in Check |-> Worst({checks[c]} \cup Found(found, c))]

Init ==
  /\ known \in BOOLEAN
  /\ checks = [newChecks EXCEPT !["GENERATION_CONTEXT"] = IF known THEN "PASS" ELSE "UNKNOWN"]
  /\ lines = <<>> /\ rows = 0 /\ signedVerified = 0
  /\ unsignedContext = 0 /\ legacyUnverifiable = 0 /\ seen = {}
  /\ priorSeq = Nothing /\ previousTime = Nothing /\ gaps = 0 /\ outcome = "READING"

-----------------------------------------------------------------------------
Pass(b) == IF b THEN "PASS" ELSE "FAIL"

didLike(l) == l.from # "nickname"
key(l) == l.from \in {"did", "other did"}
goodNonce(l) == l.nonce \in {"1", "2"}
goodSig(l) == l.sig \in {"wrong", "right"}
Identity(l) == <<l.from, l.nonce>>
Verifiable(l) == goodSig(l) /\ key(l) /\ goodNonce(l) /\ l.text

\* Where the loop leaves the row: by what it is, before any signature check.
Case(l) ==
  CASE ~didLike(l) /\ l.nonce = "absent" /\ l.sig = "absent" -> "context"
    [] ~didLike(l) /\ (l.nonce # "absent" \/ l.sig # "absent") -> "shape"
    [] didLike(l) /\ l.sig = "absent" -> "legacy"
    [] didLike(l) /\ l.sig # "absent" /\ l.nonce = "absent" -> "noNonce"
    [] OTHER -> "signed"

\* What the order of a row says of it.
Sequence(l) ==
  CASE priorSeq = Nothing -> {}
    [] priorSeq # Nothing /\ l.seq <= priorSeq ->
         {<<"SEQ_ORDER", "FAIL">>, <<"SEQ_GAPS", "UNKNOWN">>}
    [] priorSeq # Nothing /\ l.seq > priorSeq -> {<<"SEQ_GAPS", Pass(l.seq = priorSeq + 1)>>}

Timely(l) == l.time # 0 /\ l.time >= previousTime

\* An identity is met even if the signature of its row does not verify.
Met(l) == goodNonce(l) /\ key(l)

Signature(l) ==
  IF ~goodSig(l) THEN "FAIL"
  ELSE IF Verifiable(l) THEN Pass(l.sig = "right") ELSE "UNKNOWN"

\* What the author and the signature of a row say of it.
Signed(l) ==
  CASE Case(l) = "context" -> {}
    [] Case(l) = "shape" -> {<<"RECORD_SHAPE", "FAIL">>}
    [] Case(l) = "noNonce" -> {<<"RECORD_SHAPE", "FAIL">>, <<"DID_SHAPE", Pass(key(l))>>}
    [] Case(l) = "legacy" ->
         {<<"DID_SHAPE", Pass(key(l))>>, <<"SIGNATURE", "UNKNOWN">>,
          <<"NONCE_EXACT", "UNKNOWN">>, <<"OP_IDENTITY_UNIQUE", "UNKNOWN">>}
    [] OTHER ->
         {<<"DID_SHAPE", Pass(key(l))>>, <<"NONCE_EXACT", Pass(goodNonce(l))>>,
          <<"SIGNED_TEXT", Pass(l.text)>>, <<"SIGNATURE", Signature(l)>>}
         \cup (IF Met(l) THEN {<<"OP_IDENTITY_UNIQUE", Pass(Identity(l) \notin seen)>>} ELSE {})

\* All findings of a shaped row.
Findings(l) ==
  Signed(l) \cup Sequence(l) \cup {<<"TIMESTAMP_METADATA", Pass(Timely(l))>>}
  \cup (IF l.extra THEN {<<"RECORD_SHAPE", "UNKNOWN">>} ELSE {})

Reading == outcome = "READING"

\* Mutated form: only signed rows are counted.
SignedRowsAfter(l) == IF l.form = "object" /\ Case(l) = "signed" THEN rows + 1 ELSE rows

rowsAfter(l) == IF l.form = "object" THEN rows + 1 ELSE rows

\* A line that is not an object, or an object without the four fields.
ReadUnusable(l) ==
  /\ l.form # "object" \/ ~l.shaped
  /\ checks' = update(IF l.form # "object" THEN {<<"JSONL_FORM", "FAIL">>}
                      ELSE {<<"RECORD_SHAPE", "FAIL">>})
  /\ rows' = rowsAfter(l)
  /\ UNCHANGED <<signedVerified, unsignedContext, legacyUnverifiable, seen, priorSeq,
                 previousTime, gaps>>

ReadRow(l) ==
  /\ l.form = "object" /\ l.shaped
  /\ checks' = update(Findings(l))
  /\ rows' = rowsAfter(l)
  /\ gaps' = IF priorSeq # Nothing /\ l.seq > priorSeq + 1 THEN gaps + 1 ELSE gaps
  /\ priorSeq' = l.seq
  /\ previousTime' = IF Timely(l) THEN l.time ELSE previousTime
  /\ unsignedContext' = IF Case(l) = "context" THEN unsignedContext + 1 ELSE unsignedContext
  /\ legacyUnverifiable' =
       IF Case(l) = "legacy" THEN legacyUnverifiable + 1 ELSE legacyUnverifiable
  /\ signedVerified' = IF Case(l) = "signed" /\ Verifiable(l) /\ l.sig = "right"
                       THEN signedVerified + 1 ELSE signedVerified
  /\ seen' = IF Case(l) = "signed" /\ Met(l) THEN seen \cup {Identity(l)} ELSE seen

ReadLine ==
  /\ Reading /\ Len(lines) < MaxLines
  /\ \E l \in Line : lines' = Append(lines, l) /\ (ReadUnusable(l) \/ ReadRow(l))
  /\ UNCHANGED <<known, outcome>>

\* The checks as they are reported: nothing was checked in an empty input, and
\* one identity has none to differ from.
Reported ==
  [c \in Check |->
     IF \/ rows = 0 /\ lines = <<>> /\ c \in {"JSONL_FORM", "RECORD_SHAPE", "SEQ_ORDER"}
        \/ c = "OP_IDENTITY_UNIQUE" /\ Cardinality(seen) < 2 /\ checks[c] = "PASS"
     THEN "NOT_APPLICABLE" ELSE checks[c]]

\* Mutated form: one signature that verifies outweighs what is unknown.
VerdictOfSignatures ==
  IF \E c \in CONTENT : Reported[c] = "FAIL" THEN "INVALID"
  ELSE IF signedVerified > 0 THEN "VALID" ELSE "INDETERMINATE"

Verdict ==
  IF \E c \in CONTENT : Reported[c] = "FAIL" THEN "INVALID"
  ELSE IF signedVerified = 0 \/ \E c \in CONTENT : Reported[c] = "UNKNOWN" THEN "INDETERMINATE"
  ELSE "VALID"

\* Mutated form: only gaps count.
WindowOfGaps == IF gaps > 0 THEN "GAPPED" ELSE "BOUNDED"

windowStatus ==
  CASE rows = 0 -> "EMPTY"
    [] rows > 0 /\ ~known -> "UNKNOWN_GENERATION"
    [] rows > 0 /\ known /\ Reported["SEQ_ORDER"] = "FAIL" -> "UNRELIABLE_ORDER"
    [] OTHER -> IF gaps > 0 THEN "GAPPED" ELSE "BOUNDED"

\* The input ends with a newline.
Finish ==
  /\ Reading /\ outcome' = Verdict
  /\ UNCHANGED <<lines, checks, counters, seen, priorSeq, previousTime, gaps, known>>

\* It ends without one: the rest is not read.
FinishCut ==
  /\ Reading /\ checks' = update({<<"JSONL_FORM", "FAIL">>}) /\ outcome' = "INVALID"
  /\ UNCHANGED <<lines, counters, seen, priorSeq, previousTime, gaps, known>>

\* The time or the memory of the verifier is spent.
FinishFailed ==
  /\ Reading /\ outcome' = "INTERNAL_ERROR"
  /\ UNCHANGED <<lines, checks, counters, seen, priorSeq, previousTime, gaps, known>>

Next == ReadLine \/ Finish \/ FinishCut \/ FinishFailed

Spec == Init /\ [][Next]_vars

-----------------------------------------------------------------------------
\* The reference: what is said of the lines as a whole.
Rows == {i \in 1 .. Len(lines) : lines[i].form = "object" /\ lines[i].shaped}
Precedes(i, j) == i < j /\ \A k \in Rows : ~(i < k /\ k < j)
Signs(i) == Case(lines[i]) = "signed"

\* A line that is wrong whatever the others are, and two that are wrong together.
Wrong(i) ==
  LET l == lines[i]
  IN \/ i \notin Rows
     \/ didLike(l) /\ ~key(l)
     \/ Case(l) \in {"shape", "noNonce"}
     \/ Signs(i) /\ ~(Verifiable(l) /\ l.sig = "right")
Clash(i, j) ==
  \/ Precedes(i, j) /\ lines[j].seq <= lines[i].seq
  \/ i < j /\ Signs(i) /\ Signs(j) /\ Met(lines[i]) /\ Identity(lines[i]) = Identity(lines[j])
Unsure(i) == lines[i].extra \/ Case(lines[i]) = "legacy"

Meaning ==
  IF (\E i \in 1 .. Len(lines) : Wrong(i)) \/ \E i, j \in Rows : Clash(i, j) THEN "INVALID"
  ELSE IF (\E i \in Rows : Unsure(i)) \/ \A i \in Rows : ~Signs(i) THEN "INDETERMINATE"
  ELSE "VALID"

-----------------------------------------------------------------------------
TypeOK ==
  /\ checks \in [Check -> Status] /\ known \in BOOLEAN
  /\ outcome \in Verdicts \cup {"READING", "INTERNAL_ERROR"}
  /\ lines \in Seq(Line)
  /\ rows \in Nat /\ signedVerified \in Nat /\ unsignedContext \in Nat
  /\ legacyUnverifiable \in Nat /\ gaps \in Nat
  /\ priorSeq \in Nat \cup {Nothing} /\ previousTime \in Nat \cup {Nothing}

\* The counters count disjoint rows.
CountersInOrder ==
  /\ signedVerified + unsignedContext + legacyUnverifiable <= rows /\ rows <= Len(lines)
  /\ gaps <= rows

\* What is remembered of the rows: the number of the last, the identities of the
\* signed ones, and whether a signature verified.
RowsInOrder ==
  /\ \/ Rows = {} /\ priorSeq = Nothing
     \/ \E i \in Rows : priorSeq = lines[i].seq /\ \A k \in Rows : k <= i
  /\ seen = {Identity(lines[i]) : i \in {i \in Rows : Signs(i) /\ Met(lines[i])}}
  /\ signedVerified = 0 <=>
       \A i \in Rows : ~(Signs(i) /\ Verifiable(lines[i]) /\ lines[i].sig = "right")

\* What the checks have found: a failure is of a line that is wrong or of two that
\* clash, and short of one, what is unknown is of a row that is unsure.
FindingsInOrder == Reading =>
  /\ (\E c \in CONTENT : checks[c] = "FAIL") <=>
       (\E i \in 1 .. Len(lines) : Wrong(i)) \/ \E i, j \in Rows : Clash(i, j)
  /\ (\A c \in CONTENT : checks[c] # "FAIL") =>
       ((\E c \in CONTENT : checks[c] = "UNKNOWN") <=> \E i \in Rows : Unsure(i))

\* Rows whose order did not fail and between which no gap was counted follow one
\* another.
OrderInOrder == checks["SEQ_ORDER"] # "FAIL" /\ gaps = 0 =>
  \A i, j \in Rows : Precedes(i, j) => lines[j].seq = lines[i].seq + 1

Inductive == TypeOK /\ CountersInOrder /\ RowsInOrder /\ FindingsInOrder /\ OrderInOrder

\* The verdict of the pass is the verdict of the lines: VALID only if every
\* signed row verifies, none clashes and nothing is unknown (verifier.mjs, the
\* row loop, its early continues and the verdict; WORKLOAD_W1.md).
VerdictIsMeaning == Reading => Verdict = Meaning

\* A window called bounded is without a gap or a step back, whatever unusable
\* lines stand between its rows (verifier.mjs, windowStatus).
BoundedIsContiguous == windowStatus = "BOUNDED" =>
  \A i, j \in Rows : Precedes(i, j) => lines[j].seq = lines[i].seq + 1

\* What made a transcript invalid is not made good by the lines after it
\* (verifier.mjs, update keeps the worst).
InvalidIsDecisive == [][Verdict = "INVALID" => Verdict' = "INVALID"]_vars
=============================================================================
