------------------------------ MODULE ApplyRuns ------------------------------
(***************************************************************************)
(* The apply_runs table and the HTTP handlers that move it                 *)
(* (src/latex_resume/routers/apply_runs.py, apply_runs.py and              *)
(* ApplicationStore.transition_apply_run), with the two facts about an     *)
(* application that these handlers read or write: its workflow status and  *)
(* whether a submission receipt exists for it.                             *)
(*                                                                         *)
(* Every handler runs on the API's single event loop and awaits nothing    *)
(* between its first read and its last write, so each one is one step.     *)
(* Any client may send any request at any time: the user's browser and     *)
(* the executor process share the routes, and only the "actor" column of   *)
(* the transition table tells them apart.                                  *)
(*                                                                         *)
(* Abstractions.  "open" stands for the nine non-terminal application      *)
(* statuses, from each of which submission.py finds a path to submitted;   *)
(* "closed" stands for skipped and blocked, which no handler here tells    *)
(* apart; "merged" is an application whose row a merge of duplicates       *)
(* deleted.  Which applications are duplicates is left open: any may be    *)
(* for the same job.  Deleting a profile's data is not modelled here.      *)
(* approval_token is a set of runs: a run is approved at most once, so a   *)
(* run has at most one token and presenting it is a Boolean.               *)
(* allow_experimental_provider is the user's choice, so the provider check *)
(* of enqueue_apply_run never refuses a user who insists, and every        *)
(* application has an HTTPS apply URL and a job row.                       *)
(***************************************************************************)
EXTENDS Naturals, FiniteSets

CONSTANTS
    Runs,      \* run ids; the bound on how many runs are ever enqueued
    Apps,      \* application ids of one profile
    NoApp,     \* the application of a run that does not exist yet
    DailyCap   \* APPLYTEX_EXECUTOR_DAILY_CAP; 0 means no cap

ASSUME ApplyRunsAssumption ==
    /\ NoApp \notin Apps
    /\ DailyCap \in Nat
    /\ IsFiniteSet(Runs)

VARIABLES
    runStatus,      \* ApplyRun.status, "absent" before the row exists
    runApp,         \* ApplyRun.application_id
    approvalToken,  \* the runs whose approval_token is set
    approvedAt,     \* the runs whose approved_at is set; never cleared
    recent,         \* the runs created within the last 24 hours
    appStatus,      \* ApplicationRecord.status
    receipted       \* the applications with a submission_bundles row

runVars == <<runStatus, runApp, approvalToken, approvedAt, recent>>
serverVars == <<runStatus, runApp, approvalToken, approvedAt, recent,
                appStatus, receipted>>

RunStatus == {"queued", "running", "awaiting_input", "paused_for_review",
              "approved", "submitting", "submitted", "needs_verification",
              "failed", "cancelled"}

ActiveStatuses == {"queued", "running", "awaiting_input",
                   "paused_for_review", "approved", "submitting"}

AppStatus == {"open", "submitted", "failed", "closed", "merged"}

(* The application of a request is not found.                              *)
Gone(a) == appStatus[a] = "merged"

(* _APPLICATION_STATUS_RANK, by which a merge picks the status to keep;    *)
(* blocked ranks below failed, skipped above it.                           *)
StatusRank == [open |-> 0, submitted |-> 1, failed |-> 2, closed |-> 2]

(* APPLY_RUN_TRANSITIONS: from, to, and who may cause the hop.             *)
Moves ==
    {<<"queued", "running", "executor">>,
     <<"queued", "cancelled", "user">>,
     <<"running", "running", "executor">>,
     <<"running", "awaiting_input", "executor">>,
     <<"running", "paused_for_review", "executor">>,
     <<"running", "failed", "executor">>,
     <<"running", "cancelled", "user">>,
     <<"awaiting_input", "queued", "user">>,
     <<"awaiting_input", "cancelled", "user">>,
     <<"awaiting_input", "failed", "executor">>,
     <<"paused_for_review", "approved", "user">>,
     <<"paused_for_review", "cancelled", "user">>,
     <<"paused_for_review", "failed", "executor">>,
     <<"approved", "submitting", "executor">>,
     <<"approved", "cancelled", "user">>,
     <<"submitting", "submitting", "executor">>,
     <<"submitting", "submitted", "executor">>,
     <<"submitting", "needs_verification", "executor">>,
     <<"submitting", "failed", "executor">>,
     <<"needs_verification", "submitted", "user">>,
     <<"needs_verification", "cancelled", "user">>}

MayMove(r, target, actor) == <<runStatus[r], target, actor>> \in Moves

SetStatus(r, target) == runStatus' = [runStatus EXCEPT ![r] = target]

RunsOf(a) == {r \in Runs : runApp[r] = a}
ActiveRuns(a) == {r \in RunsOf(a) : runStatus[r] \in ActiveStatuses}

(* What count_apply_runs_since counts.                                     *)
CountedRuns == {r \in recent : runStatus[r] # "cancelled"}

ServerTypeOK ==
    /\ runStatus \in [Runs -> RunStatus \cup {"absent"}]
    /\ runApp \in [Runs -> Apps \cup {NoApp}]
    /\ \A r \in Runs : runStatus[r] = "absent" <=> runApp[r] = NoApp
    /\ approvalToken \subseteq Runs
    /\ approvedAt \subseteq Runs
    /\ recent \subseteq Runs
    /\ appStatus \in [Apps -> AppStatus]
    /\ receipted \subseteq Apps

ServerInit ==
    /\ runStatus = [r \in Runs |-> "absent"]
    /\ runApp = [r \in Runs |-> NoApp]
    /\ approvalToken = {}
    /\ approvedAt = {}
    /\ recent = {}
    /\ appStatus = [a \in Apps |-> "open"]
    /\ receipted = {}

-----------------------------------------------------------------------------
(* User requests.                                                          *)

EnqueueIgnoringActiveRuns(a, r) ==
    /\ runStatus[r] = "absent"
    /\ appStatus[a] \notin {"submitted", "closed", "merged"}
    /\ DailyCap = 0 \/ Cardinality(CountedRuns) < DailyCap
    /\ SetStatus(r, "queued")
    /\ runApp' = [runApp EXCEPT ![r] = a]
    /\ recent' = recent \cup {r}
    /\ UNCHANGED <<approvalToken, approvedAt, appStatus, receipted>>

EnqueueOneOverTheCap(a, r) ==
    /\ runStatus[r] = "absent"
    /\ appStatus[a] \notin {"submitted", "closed", "merged"}
    /\ ActiveRuns(a) = {}
    /\ DailyCap = 0 \/ Cardinality(CountedRuns) <= DailyCap
    /\ SetStatus(r, "queued")
    /\ runApp' = [runApp EXCEPT ![r] = a]
    /\ recent' = recent \cup {r}
    /\ UNCHANGED <<approvalToken, approvedAt, appStatus, receipted>>

(* enqueue_apply_run.  A failed application may be enqueued again; a       *)
(* submitted, skipped or blocked one may not.                              *)
Enqueue(a, r) ==
    /\ runStatus[r] = "absent"
    /\ appStatus[a] \notin {"submitted", "closed", "merged"}
    /\ ActiveRuns(a) = {}
    /\ DailyCap = 0 \/ Cardinality(CountedRuns) < DailyCap
    /\ SetStatus(r, "queued")
    /\ runApp' = [runApp EXCEPT ![r] = a]
    /\ recent' = recent \cup {r}
    /\ UNCHANGED <<approvalToken, approvedAt, appStatus, receipted>>

(* approve_run.  The handler looks at the run only, never at the           *)
(* application: a run of a skipped application can be approved.            *)
Approve(r) ==
    /\ MayMove(r, "approved", "user")
    /\ SetStatus(r, "approved")
    /\ approvalToken' = approvalToken \cup {r}
    /\ approvedAt' = approvedAt \cup {r}
    /\ UNCHANGED <<runApp, recent, appStatus, receipted>>

Resume(r) ==
    /\ MayMove(r, "queued", "user")
    /\ SetStatus(r, "queued")
    /\ UNCHANGED <<runApp, approvalToken, approvedAt, recent, appStatus, receipted>>

CancelKeepingToken(r) ==
    /\ MayMove(r, "cancelled", "user")
    /\ SetStatus(r, "cancelled")
    /\ UNCHANGED <<runApp, approvalToken, approvedAt, recent, appStatus, receipted>>

CancelWheneverActive(r) ==
    /\ runStatus[r] \in ActiveStatuses \cup {"needs_verification"}
    /\ SetStatus(r, "cancelled")
    /\ approvalToken' = approvalToken \ {r}
    /\ UNCHANGED <<runApp, approvedAt, recent, appStatus, receipted>>

Cancel(r) ==
    /\ MayMove(r, "cancelled", "user")
    /\ SetStatus(r, "cancelled")
    /\ approvalToken' = approvalToken \ {r}
    /\ UNCHANGED <<runApp, approvedAt, recent, appStatus, receipted>>

(* POST /applications/{id}/transition, on the coarse statuses.  It can     *)
(* reach submitted without confirm_submission, hence without a receipt.    *)
TransitionApplication(a, s) ==
    /\ appStatus[a] = "open"
    /\ s \notin {"open", "merged"}
    /\ appStatus' = [appStatus EXCEPT ![a] = s]
    /\ UNCHANGED <<runVars, receipted>>

(* dedupe_applications, which GET /applications/health and POST            *)
(* /applications run: of the rows for one job one is kept and takes the    *)
(* status of the highest rank, the others are deleted.  Runs and receipts  *)
(* are not among the children it moves and keep the old application's id.  *)
MergeDuplicates(group, canonical, top) ==
    /\ {canonical, top} \subseteq group /\ group # {canonical}
    /\ \A a \in group : ~Gone(a)
    /\ \A a \in group : StatusRank[appStatus[a]] <= StatusRank[appStatus[top]]
    /\ appStatus' = [a \in Apps |-> IF a = canonical THEN appStatus[top]
                                    ELSE IF a \in group THEN "merged" ELSE appStatus[a]]
    /\ UNCHANGED <<runVars, receipted>>

-----------------------------------------------------------------------------
(* confirm_submission: the receipt is saved first, then the application is *)
(* advanced.  From a terminal status there is no path to submitted: the    *)
(* call raises and the receipt stays behind.                               *)

Confirmable(a) == appStatus[a] \in {"open", "submitted"}

ConfirmSubmission(a) ==
    /\ receipted' = receipted \cup {a}
    /\ appStatus' = IF Confirmable(a)
                      THEN [appStatus EXCEPT ![a] = "submitted"]
                      ELSE appStatus

(* POST /applications/{id}/submission: "Mark as submitted".                *)
MarkSubmitted(a) ==
    /\ ~Gone(a)
    /\ ConfirmSubmission(a)
    /\ UNCHANGED runVars

-----------------------------------------------------------------------------
(* Executor requests.                                                      *)

Claimable(r) == runStatus[r] \in {"queued", "approved"}

(* claim_run: the branch is chosen by the status the server finds, not by  *)
(* the one the caller saw.  The application is looked up only after the    *)
(* run moved: without it the claim stands and is answered with a 404.      *)
Claim(r) ==
    /\ Claimable(r)
    /\ SetStatus(r, IF runStatus[r] = "queued" THEN "running" ELSE "submitting")
    /\ UNCHANGED <<runApp, approvalToken, approvedAt, recent, appStatus, receipted>>

(* report_progress: the statuses its body may carry, and "none" for a      *)
(* message without a status, whose target is the run's own status.         *)
ReportStatus == {"running", "awaiting_input", "paused_for_review",
                 "submitting", "needs_verification", "failed", "none"}

ReportTarget(r, s) == IF s = "none" THEN runStatus[r] ELSE s

ReportAccepted(r, s) == MayMove(r, ReportTarget(r, s), "executor")

Report(r, s) ==
    /\ ReportAccepted(r, s)
    /\ SetStatus(r, ReportTarget(r, s))
    /\ UNCHANGED <<runApp, approvalToken, approvedAt, recent, appStatus, receipted>>

(* record_run_submitted.  "token" says whether the request carries the     *)
(* run's approval token.  Without the application confirm_submission       *)
(* raises before anything is written.                                      *)
RecordAuthorised(r, token) ==
    \/ runStatus[r] = "submitting" /\ r \in approvalToken /\ token
    \/ runStatus[r] = "needs_verification" /\ appStatus[runApp[r]] = "submitted"

RecordAccepted(r, token) == RecordAuthorised(r, token) /\ Confirmable(runApp[r])

RecordBeforeConfirming(r, token) ==
    /\ RecordAuthorised(r, token) /\ ~Gone(runApp[r])
    /\ ConfirmSubmission(runApp[r])
    /\ SetStatus(r, "submitted")
    /\ approvalToken' = approvalToken \ {r}
    /\ UNCHANGED <<runApp, approvedAt, recent>>

RecordSubmitted(r, token) ==
    /\ RecordAuthorised(r, token) /\ ~Gone(runApp[r])
    /\ ConfirmSubmission(runApp[r])
    /\ IF Confirmable(runApp[r])
         THEN /\ SetStatus(r, "submitted")
              /\ approvalToken' = approvalToken \ {r}
         ELSE UNCHANGED <<runStatus, approvalToken>>
    /\ UNCHANGED <<runApp, approvedAt, recent>>

(* A run leaves the 24-hour window that the daily cap looks at.            *)
RunAges(r) ==
    /\ r \in recent
    /\ recent' = recent \ {r}
    /\ UNCHANGED <<runStatus, runApp, approvalToken, approvedAt, appStatus, receipted>>

UserRequest ==
    \/ \E a \in Apps, r \in Runs : Enqueue(a, r)
    \/ \E r \in Runs : Approve(r) \/ Resume(r) \/ Cancel(r)
    \/ \E a \in Apps, s \in AppStatus : TransitionApplication(a, s)
    \/ \E a \in Apps : MarkSubmitted(a)
    \/ \E group \in SUBSET Apps : \E a, b \in group : MergeDuplicates(group, a, b)

ExecutorRequest ==
    \/ \E r \in Runs : Claim(r)
    \/ \E r \in Runs, s \in ReportStatus : Report(r, s)
    \/ \E r \in Runs, token \in BOOLEAN : RecordSubmitted(r, token)

ServerNext == UserRequest \/ ExecutorRequest \/ \E r \in Runs : RunAges(r)

ServerSpec == ServerInit /\ [][ServerNext]_serverVars

-----------------------------------------------------------------------------
(* Properties.  They hold for any sequence of requests by any clients.     *)

(* The type of the tables.                                                 *)
TypeOK == ServerTypeOK

(* enqueue_apply_run refuses an application that has an active run, and    *)
(* no later request may bring a second run of it back to life: an          *)
(* application never has two active runs.                                  *)
OneActiveRun ==
    \A r, q \in Runs :
        /\ runStatus[r] \in ActiveStatuses
        /\ runStatus[q] \in ActiveStatuses
        /\ runApp[r] = runApp[q]
        => r = q

(* A run is recorded as submitted only after the user approved it, and     *)
(* from then on its application has a receipt and is not open again,       *)
(* whatever was asked of that application before, in between or since.     *)
(* Until duplicates are merged it says submitted: a merge may delete the   *)
(* row, or give it the status of a failed, blocked or skipped duplicate,   *)
(* and the receipt stays under the old id.                                 *)
SubmittedRunIsBacked ==
    \A r \in Runs : runStatus[r] = "submitted" =>
        /\ r \in approvedAt
        /\ runApp[r] \in receipted
        /\ appStatus[runApp[r]] # "open"
        /\ (\A a \in Apps : ~Gone(a)) => appStatus[runApp[r]] = "submitted"

(* The approval token exists exactly while it can still be spent: from the *)
(* user's approval until the submission is recorded or the run cancelled   *)
(* (a run that failed or needs verification keeps the row's old token).    *)
TokenFollowsApproval ==
    \A r \in Runs :
        /\ r \in approvalToken =>
              /\ r \in approvedAt
              /\ runStatus[r] \in {"approved", "submitting",
                                   "needs_verification", "failed"}
        /\ runStatus[r] \in {"approved", "submitting"} => r \in approvalToken

(* The daily cap counts the runs that were not cancelled; no order of      *)
(* enqueueing, cancelling and ageing makes that number exceed the cap.     *)
CountedRunsWithinCap ==
    DailyCap > 0 => Cardinality(CountedRuns) <= DailyCap
=============================================================================
