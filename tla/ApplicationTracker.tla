-------------------------- MODULE ApplicationTracker --------------------------
(***************************************************************************)
(* The workflow of the applications of one profile for one job             *)
(* (job_models.ALLOWED_APPLICATION_TRANSITIONS, submission.py and the      *)
(* application part of application_store.py).                              *)
(*                                                                         *)
(* A handler of the API runs alone on the event loop until it awaits, but  *)
(* every call of the store is its own SQLite transaction, so the process   *)
(* can die between two of them: "work" is the rest of the handler that is  *)
(* running, and nothing else runs before it is done or the process dies.   *)
(* Scoring is the one handler here that awaits (the analysis) between      *)
(* reading the status and writing it.                                      *)
(*                                                                         *)
(* Abstractions.  Scores, artifacts, notes, events, scans and the tracker  *)
(* stage are left out, and so is what a receipt says.  Which of several    *)
(* duplicates is the richest depends on them, so any of them may be.       *)
(***************************************************************************)
EXTENDS Naturals, FiniteSets

CONSTANTS
    AppIds,    \* application ids for the job; duplicates need two of them
    MayCrash   \* may the API process die?

ASSUME TrackerAssumption == MayCrash \in BOOLEAN

VARIABLES
    status,     \* ApplicationRecord.status; "absent" before, "merged" after the row
    approved,   \* the applications with approved_at
    submitted,  \* the applications with submitted_at
    bundled,    \* the application ids with a submission_bundles row
    linked,     \* the applications with submission_bundle_id
    followUp,   \* the automatic follow-up task: "none", "open" or "done"
    confirmed,  \* the applications for which confirm_submission returned
    scoring,    \* score handlers waiting for the analysis of a discovered one
    work        \* what the running handler still has to do

vars == <<status, approved, submitted, bundled, linked, followUp, confirmed,
          scoring, work>>

(* ALLOWED_APPLICATION_TRANSITIONS.                                        *)
Allowed ==
    [discovered       |-> {"scored", "selected", "skipped"},
     scored           |-> {"selected", "skipped"},
     selected         |-> {"resume_ready", "blocked", "skipped"},
     resume_ready     |-> {"form_scanned", "blocked", "failed"},
     form_scanned     |-> {"needs_input", "ready_for_review", "blocked", "failed"},
     needs_input      |-> {"ready_for_review", "blocked", "skipped"},
     ready_for_review |-> {"approved", "needs_input", "skipped"},
     approved         |-> {"submitting", "skipped"},
     submitting       |-> {"submitted", "blocked", "failed"},
     submitted        |-> {},
     blocked          |-> {},
     failed           |-> {},
     skipped          |-> {}]

Status == DOMAIN Allowed

(* _APPLICATION_STATUS_RANK, by which a merge picks the status to keep.    *)
Rank ==
    [discovered |-> 0, scored |-> 1, selected |-> 2, resume_ready |-> 3,
     form_scanned |-> 4, needs_input |-> 5, ready_for_review |-> 6, approved |-> 7,
     submitting |-> 8, submitted |-> 9, blocked |-> 10, failed |-> 11, skipped |-> 12]

FillAdvanceable ==
    {"discovered", "scored", "selected", "resume_ready", "form_scanned", "needs_input"}

Live == {a \in AppIds : status[a] \in Status}

-----------------------------------------------------------------------------
(* transition_path: a shortest path along the table.                       *)

(* Near[target][n]: the statuses from which target is at most n hops away. *)
Hops == 0..Cardinality(Status)

Near ==
    [target \in Status |->
        LET near[n \in Hops] ==
                IF n = 0 THEN {target}
                ELSE LET closer == near[n - 1]
                     IN  closer \cup {s \in Status : Allowed[s] \cap closer # {}}
        IN  [n \in Hops |-> near[n]]]

Reaches(s, target) == s \in Near[target][Cardinality(Status)]

Distance(s, target) ==
    CHOOSE n \in Hops : s \in Near[target][n] /\ \A m \in 0..(n - 1) : s \notin Near[target][m]

(* The next status on the path; advance_application takes one at a time.   *)
NextHop(s, target) ==
    CHOOSE h \in Allowed[s] :
        Reaches(h, target) /\ Distance(h, target) = Distance(s, target) - 1

-----------------------------------------------------------------------------
(* The running handler.                                                    *)

Idle == [kind |-> "none"]
Advance(kind, a, target) == [kind |-> kind, app |-> a, target |-> target]

AdvanceKinds == {"confirm", "fill", "tailor"}

Work ==
    {Idle}
        \cup [kind : AdvanceKinds, app : AppIds, target : Status]
        \cup [kind : {"link", "followUp"}, app : AppIds]

TrackerTypeOK ==
    /\ status \in [AppIds -> Status \cup {"absent", "merged"}]
    /\ approved \subseteq AppIds
    /\ submitted \subseteq AppIds
    /\ bundled \subseteq AppIds
    /\ linked \subseteq AppIds
    /\ followUp \in [AppIds -> {"none", "open", "done"}]
    /\ confirmed \subseteq AppIds
    /\ scoring \subseteq AppIds
    /\ work \in Work
    /\ work # Idle => work.app \in Live

Init ==
    /\ status = [a \in AppIds |-> "absent"]
    /\ approved = {}
    /\ submitted = {}
    /\ bundled = {}
    /\ linked = {}
    /\ followUp = [a \in AppIds |-> "none"]
    /\ confirmed = {}
    /\ scoring = {}
    /\ work = Idle

TransitionUnchecked(a, target) ==
    /\ status' = [status EXCEPT ![a] = target]
    /\ approved' = IF target = "approved" THEN approved \cup {a} ELSE approved
    /\ submitted' = IF target = "submitted" THEN submitted \cup {a} ELSE submitted

(* transition_application: refused unless the table allows the hop.        *)
Transition(a, target) ==
    /\ target \in Allowed[status[a]]
    /\ status' = [status EXCEPT ![a] = target]
    /\ approved' = IF target = "approved" THEN approved \cup {a} ELSE approved
    /\ submitted' = IF target = "submitted" THEN submitted \cup {a} ELSE submitted

-----------------------------------------------------------------------------
(* Requests.                                                               *)

(* get_or_create_application when there is none, or with force_new.        *)
Create(a) ==
    /\ work = Idle
    /\ status[a] = "absent"
    /\ status' = [status EXCEPT ![a] = "discovered"]
    /\ UNCHANGED <<approved, submitted, bundled, linked, followUp, confirmed, scoring, work>>

(* POST /applications/{id}/transition.                                     *)
UserTransition(a, target) ==
    /\ work = Idle /\ a \in Live
    /\ Transition(a, target)
    /\ UNCHANGED <<bundled, linked, followUp, confirmed, scoring, work>>

(* _score_application_for_profile up to its await, for an application it   *)
(* found discovered; it leaves the status of any other alone.              *)
ScoreStart(a) ==
    /\ work = Idle /\ a \in Live
    /\ status[a] = "discovered"
    /\ scoring' = scoring \cup {a}
    /\ UNCHANGED <<status, approved, submitted, bundled, linked, followUp, confirmed, work>>

ScoreFinishUnchecked(a) ==
    /\ work = Idle /\ a \in scoring
    /\ scoring' = scoring \ {a}
    /\ status' = IF a \in Live THEN [status EXCEPT ![a] = "scored"] ELSE status
    /\ UNCHANGED <<approved, submitted, bundled, linked, followUp, confirmed, work>>

(* ... and after it: the status it read may be stale by now, and the row   *)
(* gone; a refused transition is swallowed.                                *)
ScoreFinish(a) ==
    /\ work = Idle /\ a \in scoring
    /\ scoring' = scoring \ {a}
    /\ IF a \in Live /\ "scored" \in Allowed[status[a]]
         THEN Transition(a, "scored")
         ELSE UNCHANGED <<status, approved, submitted>>
    /\ UNCHANGED <<bundled, linked, followUp, confirmed, work>>

(* Approving a tailored resume walks an early application to resume_ready. *)
ApproveResume(a) ==
    /\ work = Idle /\ a \in Live
    /\ status[a] \in {"discovered", "scored", "selected"}
    /\ work' = Advance("tailor", a, "resume_ready")
    /\ UNCHANGED <<status, approved, submitted, bundled, linked, followUp, confirmed, scoring>>

(* record_fill_result: the target depends on whether the plan left a       *)
(* required question open.                                                 *)
ReportFill(a, target) ==
    /\ work = Idle /\ a \in Live
    /\ target \in {"ready_for_review", "needs_input"}
    /\ status[a] \in FillAdvanceable
    /\ status[a] # target
    /\ work' = Advance("fill", a, target)
    /\ UNCHANGED <<status, approved, submitted, bundled, linked, followUp, confirmed, scoring>>

(* confirm_submission on an application that is submitted and has its      *)
(* receipt: nothing is written, the call returns the receipt.              *)
ConfirmAgain(a) ==
    /\ work = Idle /\ a \in Live
    /\ status[a] = "submitted" /\ a \in bundled
    /\ confirmed' = confirmed \cup {a}
    /\ UNCHANGED <<status, approved, submitted, bundled, linked, followUp, scoring, work>>

(* confirm_submission otherwise: the receipt is saved first.               *)
Confirm(a) ==
    /\ work = Idle /\ a \in Live
    /\ ~(status[a] = "submitted" /\ a \in bundled)
    /\ bundled' = bundled \cup {a}
    /\ work' = Advance("confirm", a, "submitted")
    /\ UNCHANGED <<status, approved, submitted, linked, followUp, confirmed, scoring>>

CompleteFollowUp(a) ==
    /\ work = Idle
    /\ a \in Live /\ followUp[a] = "open"
    /\ followUp' = [followUp EXCEPT ![a] = "done"]
    /\ UNCHANGED <<status, approved, submitted, bundled, linked, confirmed, scoring, work>>

-----------------------------------------------------------------------------
(* The rest of a handler, one transaction at a time.                       *)

AfterAdvance == IF work.kind = "confirm" THEN [kind |-> "link", app |-> work.app] ELSE Idle

(* advance_application: the next transition of the path.                   *)
Hop ==
    /\ work.kind \in AdvanceKinds
    /\ Reaches(status[work.app], work.target)
    /\ status[work.app] # work.target
    /\ Transition(work.app, NextHop(status[work.app], work.target))
    /\ UNCHANGED <<bundled, linked, followUp, confirmed, scoring, work>>

(* The target is reached, or there is no path to it: advance_application   *)
(* raises, and what the handler wrote before stays.                        *)
EndOfPath ==
    /\ work.kind \in AdvanceKinds
    /\ \/ status[work.app] = work.target /\ work' = AfterAdvance
       \/ ~Reaches(status[work.app], work.target) /\ work' = Idle
    /\ UNCHANGED <<status, approved, submitted, bundled, linked, followUp, confirmed, scoring>>

SkipLink ==
    /\ work.kind = "link"
    /\ work' = [kind |-> "followUp", app |-> work.app]
    /\ UNCHANGED <<status, approved, submitted, bundled, linked, followUp, confirmed, scoring>>

(* confirm_submission stores the receipt's id with the application ...     *)
Link ==
    /\ work.kind = "link"
    /\ linked' = linked \cup {work.app}
    /\ work' = [kind |-> "followUp", app |-> work.app]
    /\ UNCHANGED <<status, approved, submitted, bundled, followUp, confirmed, scoring>>

(* ... and schedules the follow-up, unless one is open.                    *)
FollowUp ==
    /\ work.kind = "followUp"
    /\ followUp' = [followUp EXCEPT ![work.app] = "open"]
    /\ confirmed' = confirmed \cup {work.app}
    /\ work' = Idle
    /\ UNCHANGED <<status, approved, submitted, bundled, linked, scoring>>

(* The process dies and is started again: every handler is forgotten.      *)
Crash ==
    /\ MayCrash
    /\ work' = Idle
    /\ scoring' = {}
    /\ UNCHANGED <<status, approved, submitted, bundled, linked, followUp, confirmed>>

-----------------------------------------------------------------------------
(* dedupe_applications: one transaction.  The richest of the duplicates    *)
(* takes the status of the highest rank, the timestamps it lacks and the   *)
(* tasks of the others, whose rows are deleted; their receipts stay under  *)
(* the old ids, and submission_bundle_id is not among the merged fields.   *)

MergedFollowUp ==
    IF \E a \in Live : followUp[a] = "open" THEN "open"
    ELSE IF \E a \in Live : followUp[a] = "done" THEN "done" ELSE "none"

MergeWithoutTimestamps(canonical, top) ==
    /\ work = Idle
    /\ canonical \in Live /\ Live # {canonical}
    /\ top \in Live /\ \A a \in Live : Rank[status[a]] <= Rank[status[top]]
    /\ status' = [a \in AppIds |-> IF a = canonical THEN status[top]
                                   ELSE IF a \in Live THEN "merged" ELSE status[a]]
    /\ followUp' = [followUp EXCEPT ![canonical] = MergedFollowUp]
    /\ UNCHANGED <<approved, submitted, bundled, linked, confirmed, scoring, work>>

Merge(canonical, top) ==
    /\ work = Idle
    /\ canonical \in Live /\ Live # {canonical}
    /\ top \in Live /\ \A a \in Live : Rank[status[a]] <= Rank[status[top]]
    /\ status' = [a \in AppIds |-> IF a = canonical THEN status[top]
                                   ELSE IF a \in Live THEN "merged" ELSE status[a]]
    /\ approved' = IF Live \cap approved = {} THEN approved ELSE approved \cup {canonical}
    /\ submitted' = IF Live \cap submitted = {} THEN submitted ELSE submitted \cup {canonical}
    /\ followUp' = [followUp EXCEPT ![canonical] = MergedFollowUp]
    /\ UNCHANGED <<bundled, linked, confirmed, scoring, work>>

Next ==
    \/ \E a \in AppIds :
          \/ Create(a) \/ ScoreStart(a) \/ ScoreFinish(a) \/ ApproveResume(a)
          \/ ConfirmAgain(a) \/ Confirm(a) \/ CompleteFollowUp(a)
          \/ \E s \in Status : UserTransition(a, s) \/ ReportFill(a, s)
          \/ \E top \in AppIds : Merge(a, top)
    \/ Hop \/ EndOfPath \/ Link \/ FollowUp
    \/ Crash

Spec == Init /\ [][Next]_vars

-----------------------------------------------------------------------------
(* Properties.                                                             *)

(* However an application came to be submitted (hop by hop by the user, by *)
(* advance_application with crashes between its transactions and any       *)
(* requests in between, or by a merge of duplicates), it was approved      *)
(* first: approved_at and submitted_at are both set.                       *)
SubmittedWentThroughGate ==
    \A a \in Live : status[a] = "submitted" => a \in approved /\ a \in submitted

(* "Never regress a later state": of all that runs on its own (a scoring   *)
(* that ends late, a fill report, an approved resume, a merge) nothing     *)
(* moves an application back.  Only the user does, from ready_for_review   *)
(* to needs_input.                                                         *)
OnlyTheUserReopens ==
    [][\A a \in Live : a \in Live' =>
          \/ Rank[status'[a]] >= Rank[status[a]]
          \/ /\ work = Idle
             /\ status[a] = "ready_for_review"
             /\ status'[a] = "needs_input"]_vars

(* confirm_submission promises to "write the receipt, advance to           *)
(* ``submitted``, and schedule a follow-up": when it has returned, the     *)
(* receipt exists and is linked to the application, and a follow-up was    *)
(* scheduled.                                                              *)
ConfirmedIsComplete ==
    \A a \in Live \cap confirmed :
        a \in bundled /\ a \in linked /\ followUp[a] # "none"

(* "A submitted application cannot be re-queued": enqueue_apply_run goes   *)
(* by the status, so an application that was submitted must still say so.  *)
SubmittedStaysSubmitted ==
    \A a \in Live \cap submitted : status[a] = "submitted"

-----------------------------------------------------------------------------
(* The coarse view of an application that ApplyRuns takes.  A receipt      *)
(* counts there once its request has ended; ApplyRuns has confirm          *)
(* in one step, which is right unless the process dies inside it.          *)

Terminal == {s \in Status : Allowed[s] = {}}

Coarse ==
    INSTANCE ApplyRuns WITH
        Runs <- {}, Apps <- AppIds, NoApp <- "no application", DailyCap <- 0,
        runStatus <- <<>>, runApp <- <<>>,
        approvalToken <- {}, approvedAt <- {}, recent <- {},
        appStatus <- [a \in AppIds |->
            CASE status[a] \in {"submitted", "failed", "merged"} -> status[a]
              [] status[a] \in {"skipped", "blocked"} -> "closed"
              [] OTHER -> "open"],
        receipted <- {a \in bundled : status[a] \in Terminal \cup {"merged"}}

(* Seen coarsely, the workflow does what ApplyRuns lets an application do. *)
CoarseView == Coarse!ServerSpec
=============================================================================
