--------------------------- MODULE ExecutorProtocol ---------------------------
(***************************************************************************)
(* The local executor (scripts/executor.mjs) against the apply-run API of  *)
(* module ApplyRuns.  An executor polls for queued and approved runs and   *)
(* works through the snapshot it got, one run at a time: it claims a       *)
(* queued run, fills the form in a browser page it keeps open, pauses for  *)
(* review, and, once the user approved, claims the run again, clicks the   *)
(* employer's Submit button on the kept page and records the receipt.      *)
(*                                                                         *)
(* Every await of the script is a point where the user, the server and     *)
(* other executors may act.  A request that the server refuses, and any    *)
(* browser error, throws to the catch of the main loop ("failing").        *)
(*                                                                         *)
(* Abstractions.  The page of a run is what the protocol can tell of it.   *)
(* The fill loop (at most MAX_STEPS rounds) is a non-deterministic choice  *)
(* of its outcomes.  The snapshot's order is left open.  A user who fills  *)
(* or submits by hand in the executor's window is not modelled.            *)
(***************************************************************************)
EXTENDS ApplyRuns

CONSTANTS
    Executors,    \* executor processes started for the profile
    NoRun,        \* the run of an executor that works on none
    AllowedApps,  \* the applications whose provider the executors enable
    MayLose       \* may a request, or its answer, be lost?

ASSUME ExecutorAssumption ==
    /\ NoRun \notin Runs
    /\ AllowedApps \subseteq Apps
    /\ MayLose \in BOOLEAN

VARIABLES
    pc,        \* what an executor does next
    cur,       \* the run it works on
    todo,      \* the rest of its poll snapshot: <<run, status when polled>>
    window,    \* openRuns: the browser page it keeps for a run
    clicks,    \* how often Submit was clicked for a run
    accepted   \* the runs whose submission the employer accepted

executorVars == <<pc, cur, todo, window>>
protocolVars == <<runStatus, runApp, approvalToken, approvedAt, recent, appStatus,
                  receipted, pc, cur, todo, window, clicks, accepted>>

(* "none": no entry in openRuns; "closed": an entry whose page was closed; *)
(* "blank": a page that never navigated; "open": on the employer's form;   *)
(* "filled": the form was shown for review; "sent": the employer took it.  *)
Pages == {"none", "closed", "blank", "open", "filled", "sent"}

ExecutorSteps == {"idle", "opening", "filling", "click", "clicked",
                  "confirming", "failing"}

SubmitSteps == {"click", "clicked", "confirming"}

ProtocolTypeOK ==
    /\ ServerTypeOK
    /\ pc \in [Executors -> ExecutorSteps]
    /\ cur \in [Executors -> Runs \cup {NoRun}]
    /\ \A e \in Executors : pc[e] = "idle" <=> cur[e] = NoRun
    /\ todo \in [Executors -> SUBSET (Runs \X {"queued", "approved"})]
    /\ window \in [Executors -> [Runs -> Pages]]
    /\ clicks \in [Runs -> Nat]
    /\ accepted \subseteq Runs

ProtocolInit ==
    /\ ServerInit
    /\ pc = [e \in Executors |-> "idle"]
    /\ cur = [e \in Executors |-> NoRun]
    /\ todo = [e \in Executors |-> {}]
    /\ window = [e \in Executors |-> [r \in Runs |-> "none"]]
    /\ clicks = [r \in Runs |-> 0]
    /\ accepted = {}

-----------------------------------------------------------------------------
(* Helpers.                                                                *)

GoTo(e, step) ==
    /\ pc' = [pc EXCEPT ![e] = step]
    /\ cur' = IF step = "idle" THEN [cur EXCEPT ![e] = NoRun] ELSE cur

Page(e) == window[e][cur[e]]
SetPage(e, r, page) == window' = [window EXCEPT ![e][r] = page]

(* A request that the server accepts (step "applied") or refuses.  The     *)
(* script goes on at "next" when the answer arrives; a refusal, a lost     *)
(* request and a lost answer all throw.                                    *)
Answered(e, next) == GoTo(e, next)
Refused(e) == GoTo(e, "failing") /\ UNCHANGED serverVars
LostRequest(e) == MayLose /\ Refused(e)
LostAnswer(e) == MayLose /\ GoTo(e, "failing")

(* progress(): PATCH /apply-runs/{id}.                                     *)
Progress(e, s, next) ==
    \/ Report(cur[e], s) /\ Answered(e, next)
    \/ ~ReportAccepted(cur[e], s) /\ Refused(e)
    \/ LostRequest(e)
    \/ Report(cur[e], s) /\ LostAnswer(e)

(* A last message about the run, after which its page is forgotten; the    *)
(* page is kept when the message throws.                                   *)
ProgressAndForget(e, s) ==
    /\ Progress(e, s, "idle")
    /\ IF pc'[e] = "idle" THEN SetPage(e, cur[e], "none") ELSE UNCHANGED window

-----------------------------------------------------------------------------
(* The main loop.                                                          *)

Snapshot == {<<r, runStatus[r]>> : r \in {q \in Runs : runStatus[q] \in {"queued", "approved"}}}

PollApprovedOnly(e) ==
    /\ pc[e] = "idle" /\ todo[e] = {}
    /\ todo' = [todo EXCEPT ![e] = {item \in Snapshot : item[2] = "approved"}]
    /\ UNCHANGED <<serverVars, pc, cur, window, clicks, accepted>>

Poll(e) ==
    /\ pc[e] = "idle" /\ todo[e] = {}
    /\ todo' = [todo EXCEPT ![e] = Snapshot]
    /\ UNCHANGED <<serverVars, pc, cur, window, clicks, accepted>>

(* The next run of the snapshot is taken off it.                           *)
TakeNext(e, r, status) ==
    /\ pc[e] = "idle"
    /\ <<r, status>> \in todo[e]
    /\ todo' = [todo EXCEPT ![e] = @ \ {<<r, status>>}]

ProviderEnabled(r) == runApp[r] \in AllowedApps

(* A message whose failure is swallowed: it changes the run only if the    *)
(* server accepts it.                                                      *)
TryReport(r, s) ==
    \/ Report(r, s)
    \/ (~ReportAccepted(r, s) \/ MayLose) /\ UNCHANGED serverVars

(* A run whose provider is not enabled: report it failed and go on.        *)
SkipDisallowed(e, r, status) ==
    /\ TakeNext(e, r, status)
    /\ ~ProviderEnabled(r)
    /\ TryReport(r, "failed")
    /\ UNCHANGED <<pc, cur, window, clicks, accepted>>

StartOn(e, r, step) ==
    /\ pc' = [pc EXCEPT ![e] = step]
    /\ cur' = [cur EXCEPT ![e] = r]

(* The claim throws when it is refused or lost, or the application is gone. *)
ClaimOrFail(e, r, step) ==
    \/ Claim(r) /\ StartOn(e, r, IF Gone(runApp[r]) THEN "failing" ELSE step)
    \/ ~Claimable(r) /\ StartOn(e, r, "failing") /\ UNCHANGED serverVars
    \/ MayLose /\ (Claim(r) \/ UNCHANGED serverVars) /\ StartOn(e, r, "failing")

(* handleQueued, its claim: a run without an entry gets a new page and is  *)
(* opened; with an entry the page is used as it is, and a closed one is    *)
(* replaced by a new page that nothing navigates any more.                 *)
TakeQueued(e, r) ==
    /\ TakeNext(e, r, "queued")
    /\ ProviderEnabled(r)
    /\ ClaimOrFail(e, r, IF window[e][r] = "none" THEN "opening" ELSE "filling")
    /\ IF pc'[e] # "failing" /\ window[e][r] \in {"none", "closed"}
         THEN SetPage(e, r, "blank")
         ELSE UNCHANGED window
    /\ UNCHANGED <<clicks, accepted>>

PageLost(e, r) == window[e][r] \in {"none", "closed"}

(* handleApproved when the filled page is gone: report the run as failed.  *)
LostPage(e, r) ==
    /\ TakeNext(e, r, "approved")
    /\ ProviderEnabled(r)
    /\ PageLost(e, r)
    /\ \/ Report(r, "failed") /\ UNCHANGED <<pc, cur>>
       \/ ~ReportAccepted(r, "failed") /\ StartOn(e, r, "failing") /\ UNCHANGED serverVars
       \/ MayLose /\ (Report(r, "failed") \/ UNCHANGED serverVars) /\ StartOn(e, r, "failing")
    /\ UNCHANGED <<window, clicks, accepted>>

TakeApprovedReopening(e, r) ==
    /\ TakeNext(e, r, "approved")
    /\ ProviderEnabled(r)
    /\ ClaimOrFail(e, r, "click")
    /\ IF PageLost(e, r) THEN SetPage(e, r, "open") ELSE UNCHANGED window
    /\ UNCHANGED <<clicks, accepted>>

(* handleApproved, its claim: only an answer with the token goes on.       *)
TakeApproved(e, r) ==
    /\ TakeNext(e, r, "approved")
    /\ ProviderEnabled(r)
    /\ ~PageLost(e, r)
    /\ ClaimOrFail(e, r, IF runStatus[r] = "approved" THEN "click" ELSE "failing")
    /\ UNCHANGED <<window, clicks, accepted>>

-----------------------------------------------------------------------------
(* handleQueued after the claim.                                           *)

(* Announce, then navigate the new page to the apply URL; on a page that   *)
(* was closed in between, the navigation throws.                           *)
OpenPage(e) ==
    /\ pc[e] = "opening"
    /\ Progress(e, "none", IF Page(e) = "blank" THEN "filling" ELSE "failing")
    /\ IF pc'[e] = "filling"
         THEN SetPage(e, cur[e], "open")
         ELSE UNCHANGED window
    /\ UNCHANGED <<todo, clicks, accepted>>

(* One round of the fill loop; a run that was cancelled refuses it.        *)
FillRound(e) ==
    /\ pc[e] = "filling"
    /\ Progress(e, "none", "filling")
    /\ UNCHANGED <<todo, window, clicks, accepted>>

(* A sign-in wall, a CAPTCHA, a panel that is not ready, or a required     *)
(* question without an answer.                                             *)
AskForInput(e) ==
    /\ pc[e] = "filling"
    /\ Progress(e, "awaiting_input", "idle")
    /\ UNCHANGED <<todo, window, clicks, accepted>>

PauseForReview(e) ==
    /\ pc[e] = "filling"
    /\ Progress(e, "paused_for_review", "idle")
    /\ IF runStatus'[cur[e]] = "paused_for_review" /\ Page(e) = "open"
         THEN SetPage(e, cur[e], "filled")
         ELSE UNCHANGED window
    /\ UNCHANGED <<todo, clicks, accepted>>

(* Navigation, the panel or an upload throws.                              *)
BrowserError(e) ==
    /\ pc[e] \in {"opening", "filling", "click", "clicked", "confirming"}
    /\ GoTo(e, "failing")
    /\ UNCHANGED <<serverVars, todo, window, clicks, accepted>>

-----------------------------------------------------------------------------
(* handleApproved after the claim.                                         *)

(* The Submit button is found and clicked.  The employer's form accepts    *)
(* the application, or its own validation blocks it; the click can         *)
(* navigate the page under the script, which then throws.                  *)
ClickSubmit(e) ==
    /\ pc[e] = "click"
    /\ Page(e) \in {"open", "filled"}
    /\ clicks' = [clicks EXCEPT ![cur[e]] = @ + 1]
    /\ \/ SetPage(e, cur[e], "sent") /\ accepted' = accepted \cup {cur[e]}
       \/ UNCHANGED <<window, accepted>>
    /\ \E step \in {"clicked", "failing"} : GoTo(e, step)
    /\ UNCHANGED <<serverVars, todo>>

NoSubmitButton(e) ==
    /\ pc[e] = "click"
    /\ Page(e) # "closed"
    /\ ProgressAndForget(e, "needs_verification")
    /\ UNCHANGED <<todo, clicks, accepted>>

ReportClickAndRetry(e) ==
    /\ pc[e] = "clicked"
    /\ \/ Progress(e, "none", "confirming")
       \/ MayLose /\ GoTo(e, "click") /\ UNCHANGED serverVars
    /\ UNCHANGED <<todo, window, clicks, accepted>>

(* Tell the server that the button was clicked.                            *)
ReportClick(e) ==
    /\ pc[e] = "clicked"
    /\ Progress(e, "none", "confirming")
    /\ UNCHANGED <<todo, window, clicks, accepted>>

(* The employer shows no confirmation in time, or invalid fields: the user *)
(* has to verify.                                                          *)
NoEvidence(e) ==
    /\ pc[e] = "confirming"
    /\ ProgressAndForget(e, "needs_verification")
    /\ UNCHANGED <<todo, clicks, accepted>>

RecordAfterClick(e) ==
    /\ pc[e] = "confirming"
    /\ \/ /\ RecordAccepted(cur[e], TRUE)
          /\ RecordSubmitted(cur[e], TRUE)
          /\ SetPage(e, cur[e], "none")
          /\ GoTo(e, "idle")
       \/ /\ ~RecordAccepted(cur[e], TRUE)
          /\ GoTo(e, "failing")
          /\ UNCHANGED <<serverVars, window>>
    /\ UNCHANGED <<todo, clicks, accepted>>

(* A confirmation page is evidence: record the receipt, then forget and    *)
(* close the page.  The server may find the token right and still refuse,  *)
(* after it wrote a receipt for an application that cannot be submitted.   *)
RecordReceipt(e) ==
    /\ pc[e] = "confirming"
    /\ Page(e) = "sent"
    /\ \/ /\ RecordAccepted(cur[e], TRUE)
          /\ RecordSubmitted(cur[e], TRUE)
          /\ SetPage(e, cur[e], "none")
          /\ GoTo(e, "idle")
       \/ /\ \/ ~RecordAccepted(cur[e], TRUE) /\ RecordSubmitted(cur[e], TRUE)
                                              /\ GoTo(e, "failing")
             \/ (~RecordAuthorised(cur[e], TRUE) \/ Gone(runApp[cur[e]])) /\ Refused(e)
             \/ LostRequest(e)
             \/ RecordSubmitted(cur[e], TRUE) /\ LostAnswer(e)
          /\ UNCHANGED window
    /\ UNCHANGED <<todo, clicks, accepted>>

-----------------------------------------------------------------------------
(* Failure and restart.                                                    *)

ForgetFailure(e) ==
    /\ pc[e] = "failing"
    /\ GoTo(e, "idle")
    /\ UNCHANGED <<serverVars, todo, window, clicks, accepted>>

(* The catch of the main loop.                                             *)
ReportFailure(e) ==
    /\ pc[e] = "failing"
    /\ TryReport(cur[e], "failed")
    /\ GoTo(e, "idle")
    /\ UNCHANGED <<todo, window, clicks, accepted>>

(* The process is killed, and started again with an empty openRuns.        *)
Restart(e) ==
    /\ GoTo(e, "idle")
    /\ todo' = [todo EXCEPT ![e] = {}]
    /\ window' = [window EXCEPT ![e] = [r \in Runs |-> "none"]]
    /\ UNCHANGED <<serverVars, clicks, accepted>>

(* The user closes a window of the executor's browser.                     *)
CloseWindow(e, r) ==
    /\ window[e][r] \in {"blank", "open", "filled", "sent"}
    /\ SetPage(e, r, "closed")
    /\ UNCHANGED <<serverVars, pc, cur, todo, clicks, accepted>>

ExecutorStep(e) ==
    \/ Poll(e)
    \/ \E r \in Runs, status \in {"queued", "approved"} : SkipDisallowed(e, r, status)
    \/ \E r \in Runs : TakeQueued(e, r) \/ LostPage(e, r) \/ TakeApproved(e, r)
    \/ OpenPage(e) \/ FillRound(e) \/ AskForInput(e) \/ PauseForReview(e)
    \/ ClickSubmit(e) \/ NoSubmitButton(e) \/ ReportClick(e)
    \/ NoEvidence(e) \/ RecordReceipt(e)
    \/ BrowserError(e) \/ ReportFailure(e)

UninterruptedNext ==
    \/ UserRequest /\ UNCHANGED <<executorVars, clicks, accepted>>
    \/ \E e \in Executors : ExecutorStep(e)
    \/ \E e \in Executors, r \in Runs : CloseWindow(e, r)

ProtocolNext == UninterruptedNext \/ \E e \in Executors : Restart(e)

ProtocolSpec == ProtocolInit /\ [][ProtocolNext]_protocolVars

(* The executor's loop never stops by itself, and every await in it has a  *)
(* timeout, so a started executor keeps taking steps.                      *)
ExecutorsRun == \A e \in Executors : WF_protocolVars(ExecutorStep(e))

FairProtocolSpec == ProtocolSpec /\ ExecutorsRun

(* No executor is restarted.                                               *)
UninterruptedSpec ==
    ProtocolInit /\ [][UninterruptedNext]_protocolVars /\ ExecutorsRun

-----------------------------------------------------------------------------
(* Safety, with any number of executors.                                   *)

(* Submit is clicked at most once per run, and a run that is still to be   *)
(* approved or still to be claimed was not clicked at all, however         *)
(* requests are lost and executors restarted.                              *)
ClickedAtMostOnce ==
    \A r \in Runs :
        /\ clicks[r] <= 1
        /\ clicks[r] = 1 => runStatus[r] \in {"submitting", "submitted", "failed",
                                            "needs_verification", "cancelled"}

(* Whatever status the snapshot of a run had when an executor polled, only *)
(* a run that the user approved reaches the steps around the click, and    *)
(* nothing the user may still do then takes the approval back.             *)
SubmitStepsAreApproved ==
    \A e \in Executors : pc[e] \in SubmitSteps =>
        /\ cur[e] \in approvedAt
        /\ runStatus[cur[e]] \in {"submitting", "failed"}

(* A run is moved from submitting to submitted only when the employer      *)
(* accepted the application.                                               *)
ReceiptOnlyAfterAcceptance ==
    [][\A r \in Runs : runStatus[r] = "submitting" /\ runStatus'[r] = "submitted"
            => r \in accepted]_protocolVars

(* Safety that needs the executor to be the only one of its profile.       *)

(* job_models.ApplyRun: "A run may click the employer's final Submit       *)
(* button only while it is submitting, which requires the approval_token"; *)
(* and the page clicked is the one whose review was approved.              *)
ClickIsApproved ==
    [][\A e \in Executors, r \in Runs :
            pc[e] = "click" /\ cur[e] = r /\ clicks'[r] # clicks[r]
            => /\ runStatus[r] = "submitting"
               /\ r \in approvalToken
               /\ window[e][r] = "filled"]_protocolVars

(* The consent of the user for a run, as SubmissionGate sees it: it lasts  *)
(* while the page that was shown is open and the run is on its way to the  *)
(* click.                                                                  *)
ShowsForm(e, r) == window[e][r] = "filled"

gateOf == [r \in Runs |->
    IF clicks[r] > 0 THEN [stage |-> "clicked"]
    ELSE IF runStatus[r] \in {"absent", "queued", "running", "awaiting_input"}
      THEN [stage |-> "closed"]
    ELSE IF /\ runStatus[r] \in {"paused_for_review", "approved", "submitting"}
            /\ \E e \in Executors : ShowsForm(e, r)
      THEN [stage |-> IF runStatus[r] = "paused_for_review" THEN "shown" ELSE "consented",
            page |-> CHOOSE e \in Executors : ShowsForm(e, r)]
    ELSE [stage |-> "withdrawn"]]

Gate == INSTANCE SubmissionGate WITH gate <- gateOf

(* The protocol keeps the promise of SubmissionGate: Submit is clicked     *)
(* only on the page that was shown and approved, at most once per run, and *)
(* never again once the page is lost or the run cancelled or failed.       *)
KeepsThePromise == Gate!GateSpec

-----------------------------------------------------------------------------
(* Liveness, under UninterruptedSpec.                                      *)

(* An executor that stays up and is answered never leaves a run claimed:   *)
(* it asks, pauses, hands over, records or fails.                          *)
ClaimedRunMovesOn ==
    \A r \in Runs : runStatus[r] \in {"running", "submitting"}
                        ~> runStatus[r] \notin {"running", "submitting"}

(* A queued run whose provider is enabled is taken, or the user cancels it.*)
QueuedRunIsTaken ==
    \A r \in Runs : runStatus[r] = "queued" /\ ProviderEnabled(r) ~> runStatus[r] # "queued"

(* The runs of which the main loop reports "failed" without claiming them: *)
(* queued with a provider that is not enabled, or approved with the filled *)
(* page gone.                                                              *)
GivenUp(r) ==
    \/ runStatus[r] = "queued" /\ ~ProviderEnabled(r)
    \/ runStatus[r] = "approved" /\ \A e \in Executors : PageLost(e, r)

(* The report takes effect: a run that is given up ends, so that its       *)
(* application can be enqueued again.                                      *)
GivenUpRunEnds == \A r \in Runs : GivenUp(r) ~> ~GivenUp(r)
=============================================================================
