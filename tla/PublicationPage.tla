--------------------------- MODULE PublicationPage ---------------------------
(***************************************************************************)
(* The publication section of a record page (web/workload-record.js): five *)
(* buttons, each with one request to the connector, whose answers are      *)
(* drawn as they arrive; and a timer that withdraws an expired approval.   *)
(* The publication service is seen through its answers: a request is       *)
(* served at once, and the answer may be late or lost.  One page, from its *)
(* loading until it is left, and one operation: the form is not changed    *)
(* between two attempts to prepare.                                        *)
(*                                                                         *)
(* The buttons of an operation are in a stage that is hidden at first, and *)
(* Sign and Cancel are created enabled.  A preparation that fails shows    *)
(* the stage, so they may be pressed before there is an operation: such a  *)
(* blind request names none, matches no route, and only fails.             *)
(***************************************************************************)
EXTENDS Naturals

CONSTANT Ticks  \* whether the clock may tick while a handler runs

Buttons == {"prepare", "sign", "cancel", "submit", "observe"}
Decided == {"CANCELLED_NONCE_BURNED", "SIGNING_OUTCOME_UNCERTAIN", "SIGNED"}
Posted == {"SUBMISSION_UNCERTAIN", "ACK_RECEIVED", "REJECTED"}
States == Decided \cup Posted \cup {"APPROVAL_PENDING", "COMPLETE"}

VARIABLES ledger,    \* the state of the operation at the service
          bound,     \* whether its approval candidate matches it
          expired,   \* whether the approval has expired
          sent,      \* the requests that were not served yet
          answers,   \* what requests were answered and the page did not see yet
          blind,     \* the buttons whose request names no operation, on their way
          page,      \* the state that the page renders
          stage,     \* whether the buttons of the operation are shown
          enabled,   \* the buttons that are not disabled
          timer,     \* whether the expiry timer is set
          pressed,   \* (history) the buttons pressed so far, but for blind requests
          twice      \* (history) those pressed again

service == <<ledger, bound, expired>>
face == <<page, stage>>
history == <<pressed, twice>>
vars == <<service, sent, answers, blind, face, enabled, timer, history>>

\* A button has one request on its way, but for Cancel, which a blind request that
\* fails gives back while another is on its way.
Asks == Buttons \cup {"cancel again"}
Button(r) == IF r = "cancel again" THEN "cancel" ELSE r

\* A request on its way, or its answer.
Pending(r) == r \in sent \/ answers[r] # "none"

Init ==
  /\ ledger = "NONE" /\ bound \in BOOLEAN /\ expired = FALSE
  /\ sent = {} /\ answers = [r \in Asks |-> "none"] /\ blind = {}
  /\ page = "NONE" /\ stage = FALSE /\ timer = FALSE
  /\ enabled = {"prepare", "sign", "cancel"}
  /\ pressed = {} /\ twice = {}

-----------------------------------------------------------------------------
\* The connector and the service behind it.

\* What the ledger may become when a request is served (COMPLETE stands for any
\* public observation).  A draft that was prepared is found again.
Served(b) ==
  CASE b = "prepare" /\ ledger \in {"NONE", "APPROVAL_PENDING"} -> {"APPROVAL_PENDING"}
    [] b = "sign" /\ ledger = "APPROVAL_PENDING" ->
         IF expired THEN {"CANCELLED_NONCE_BURNED"} ELSE {"SIGNING_OUTCOME_UNCERTAIN", "SIGNED"}
    [] b = "cancel" /\ ledger = "APPROVAL_PENDING" -> {"CANCELLED_NONCE_BURNED"}
    [] b = "submit" /\ ledger = "SIGNED" -> Posted
    [] /\ b = "observe"
       /\ ledger \in Posted \cup {"COMPLETE"} ->
         {ledger, "COMPLETE"}
    [] OTHER -> {}

Serve(r) ==
  /\ r \in sent /\ sent' = sent \ {r}
  /\ \E s \in Served(Button(r)) : ledger' = s /\ answers' = [answers EXCEPT ![r] = s]
  /\ UNCHANGED <<bound, expired, blind, face, enabled, timer, history>>

\* What it is asked is not available, the operator or the custody refuses, or
\* the connector is gone.
Refuse(r) ==
  /\ r \in sent /\ sent' = sent \ {r}
  /\ answers' = [answers EXCEPT ![r] = "ERROR"]
  /\ UNCHANGED <<service, blind, face, enabled, timer, history>>

\* The connector dies after it served a request, and the page sees a failure.
LoseAnswer(r) ==
  /\ answers[r] \in States
  /\ answers' = [answers EXCEPT ![r] = "ERROR"]
  /\ UNCHANGED <<service, sent, blind, face, enabled, timer, history>>

Expire ==
  /\ ~expired /\ expired' = TRUE
  /\ UNCHANGED <<ledger, bound, sent, answers, blind, face, enabled, timer, history>>

-----------------------------------------------------------------------------
\* The page.

\* The request that a button makes for the operation shown.
RequestOf(b) == IF b = "cancel" /\ Pending("cancel") THEN "cancel again" ELSE b

Press(b) ==
  /\ b \in enabled /\ enabled' = enabled \ {b}
  /\ b = "prepare" \/ page # "NONE"
  /\ ~Pending(RequestOf(b)) /\ sent' = sent \cup {RequestOf(b)}
  /\ pressed' = pressed \cup {b}
  /\ twice' = twice \cup ({b} \cap pressed)
  /\ UNCHANGED <<service, answers, blind, face, timer>>

\* A button of the stage, before there is an operation.
PressBlind(b) ==
  /\ b \in enabled \ {"prepare"} /\ stage /\ page = "NONE"
  /\ enabled' = enabled \ {b} /\ blind' = blind \cup {b}
  /\ UNCHANGED <<service, sent, answers, face, timer, history>>

\* Mutated form: whatever was posted may be observed while it is signed too.
OffersFromSigned(s) ==
  (IF s = "APPROVAL_PENDING" THEN {"cancel"} ELSE {})
  \cup (IF s = "SIGNED" THEN {"submit", "observe"} ELSE {})
  \cup (IF s \in {"ACK_RECEIVED", "SUBMISSION_UNCERTAIN", "COMPLETE"} THEN {"observe"} ELSE {})

\* The buttons, but for sign, that a rendered state offers.
Offers(s) ==
  (IF s = "APPROVAL_PENDING" THEN {"cancel"} ELSE {})
  \cup (IF s = "SIGNED" THEN {"submit"} ELSE {})
  \cup (IF s \in {"ACK_RECEIVED", "SUBMISSION_UNCERTAIN", "COMPLETE"} THEN {"observe"} ELSE {})

refreshApprovalExpiry(s) == IF s = "APPROVAL_PENDING" /\ ~expired /\ bound THEN {"sign"} ELSE {}

\* Mutated form: the remaining time is taken with the wrong sign.
ArmedWhenOver(s) == s = "APPROVAL_PENDING" /\ expired

Armed(s) == s = "APPROVAL_PENDING" /\ ~expired

\* Mutated form: an answer renders the section, and the form to prepare stays.
SetupKept == {"prepare"}

\* What stays of the form to prepare once an answer was rendered: nothing.
Setup == {}

\* renderPublication: the clock is read for the sign button and again for the
\* timer, and may have passed the expiry in between.
Render(s) ==
  /\ page' = s /\ stage' = TRUE
  /\ enabled' = Offers(s) \cup refreshApprovalExpiry(s) \cup Setup
  /\ \/ timer' = Armed(s) /\ UNCHANGED expired
     \/ Ticks /\ ~expired /\ expired' = TRUE /\ timer' = FALSE

\* Mutated form: every button may be pressed again after a failure.
AfterAnyFailure(b) == {b}

\* The buttons that a failed request gives back.
AfterFailure(b) == {b} \cap {"prepare", "cancel", "observe"}

Answered(r) ==
  /\ answers[r] # "none" /\ answers' = [answers EXCEPT ![r] = "none"]
  /\ IF answers[r] = "ERROR"
     THEN /\ enabled' = enabled \cup AfterFailure(Button(r))
          /\ stage' = (stage \/ r = "prepare")
          /\ UNCHANGED <<page, timer, expired>>
     ELSE Render(answers[r])
  /\ UNCHANGED <<ledger, bound, sent, blind, history>>

\* A blind request fails, by now perhaps on a page that shows an operation.
BlindFails(b) ==
  /\ b \in blind /\ blind' = blind \ {b}
  /\ enabled' = enabled \cup AfterFailure(b)
  /\ UNCHANGED <<service, sent, answers, face, timer, history>>

TimerFires ==
  /\ timer /\ expired
  /\ timer' = FALSE
  /\ enabled' = (enabled \ {"sign"}) \cup refreshApprovalExpiry(page)
  /\ UNCHANGED <<service, sent, answers, blind, face, history>>

Next ==
  \/ Expire \/ TimerFires
  \/ \E b \in Buttons : Press(b) \/ PressBlind(b) \/ BlindFails(b)
  \/ \E r \in Asks : Serve(r) \/ Refuse(r) \/ LoseAnswer(r) \/ Answered(r)

Spec == Init /\ [][Next]_vars

-----------------------------------------------------------------------------
\* Properties.

rank == [s \in States \cup {"NONE"} |->
  CASE s = "NONE" -> 0 [] s = "APPROVAL_PENDING" -> 1
    [] s \in Decided -> 2 [] s \in Posted -> 3 [] s = "COMPLETE" -> 4]

TypeOK ==
  /\ ledger \in States \cup {"NONE"} /\ page \in States \cup {"NONE"}
  /\ bound \in BOOLEAN /\ expired \in BOOLEAN /\ timer \in BOOLEAN /\ stage \in BOOLEAN
  /\ enabled \subseteq Buttons /\ sent \subseteq Asks /\ pressed \subseteq Buttons
  /\ blind \subseteq {"sign", "cancel"}
  /\ answers \in [Asks -> States \cup {"none", "ERROR"}]

\* No button but Cancel has two requests on their way; each is offered only after
\* what comes before it was answered, sign and submit until they are pressed for
\* the operation shown.
AsksInOrder ==
  /\ \A r \in Asks : Pending(r) =>
       /\ Button(r) \in pressed /\ (r \in sent => answers[r] = "none")
       /\ Button(r) # "cancel" => r \notin enabled
  /\ page = "NONE" =>
       /\ enabled \subseteq {"prepare", "sign", "cancel"} /\ enabled \cap blind = {}
       /\ pressed \subseteq {"prepare"}
  /\ page # "NONE" => "prepare" \notin enabled /\ ~Pending("prepare")
  /\ page # "NONE" /\ "sign" \in enabled => timer /\ "sign" \notin pressed
  /\ "submit" \in enabled => "submit" \notin pressed
  /\ "submit" \in enabled \cup pressed => "sign" \in pressed \ enabled /\ ~Pending("sign")
  /\ "observe" \in enabled \cup pressed => "submit" \in pressed /\ ~Pending("submit")

\* Of a Cancel that may be pressed, a blind one and two for the operation shown,
\* two exist at most: no press is left out.
CancelsAtMostTwice ==
  /\ ~("cancel" \in enabled /\ Pending("cancel") /\ Pending("cancel again"))
  /\ ~("cancel" \in blind /\ Pending("cancel") /\ Pending("cancel again"))
  /\ "cancel" \in enabled \cap blind => ~Pending("cancel") /\ ~Pending("cancel again")

\* What a request was answered is what it may become, and no later than the
\* ledger; what the page shows is no later than what comes.
AnswersInOrder ==
  /\ rank[page] <= rank[ledger]
  /\ page \in Posted \cup {"COMPLETE"} => "submit" \in pressed /\ ~Pending("submit")
  /\ \A r \in Asks : answers[r] \in States => rank[answers[r]] <= rank[ledger]
  /\ answers["prepare"] \in States => answers["prepare"] = "APPROVAL_PENDING"
  /\ answers["sign"] \in States => answers["sign"] \in Decided
  /\ \A r \in {"cancel", "cancel again"} : answers[r] \in States =>
       answers[r] = "CANCELLED_NONCE_BURNED" /\ ledger = "CANCELLED_NONCE_BURNED"
  /\ answers["submit"] \in States => answers["submit"] \in Posted
  /\ answers["observe"] \in States =>
       /\ answers["observe"] \in Posted \cup {"COMPLETE"}
       /\ rank[page] <= rank[answers["observe"]]

Inductive == TypeOK /\ AsksInOrder /\ CancelsAtMostTwice /\ AnswersInOrder

\* Whatever order the answers arrive in, the page never shows an earlier state of
\* the operation after a later one.
ShowsForward == [][rank[page] <= rank[page']]_page

\* The page asks for a signature and for a submission of the operation it shows
\* once, also when the answer was a failure or was lost, and whatever was pressed
\* before there was an operation (workload-record.js, the handlers of sign and
\* submit).
AskedOnce == twice \cap {"sign", "submit"} = {}

\* A signature that the page still offers when its approval has expired is about to
\* be withdrawn: the timer is set (workload-record.js, renderPublication).
OfferExpires == page # "NONE" /\ expired /\ "sign" \in enabled => timer

\* A state offers the cancellation only while it can be cancelled.
CancelFits == page # "NONE" /\ "cancel" \in enabled => page = "APPROVAL_PENDING"

\* An uncertain submission can be observed (workload-record.js: only read-only
\* public observation is available).
UncertainIsObservable ==
  ledger = "SUBMISSION_UNCERTAIN" /\ ~Pending("submit") =>
    "observe" \in enabled \/ Pending("observe")
\* Sign and Cancel may be pressed only when an operation is shown to approve.
OfferedForAnOperation == stage /\ page = "NONE" => enabled \subseteq {"prepare"}
=============================================================================
