------------------------ MODULE ExecutorProtocolProofs ------------------------
(***************************************************************************)
(* Proofs about ApplyRuns and ExecutorProtocol, for any number of          *)
(* executors, runs and applications and any daily cap, with lost requests  *)
(* and restarts.  First the server by itself; the protocol drives it       *)
(* through its requests only, so what is proved of the server holds there. *)
(* Then the protocol: Submit is clicked at most once per run, and a run is *)
(* recorded as submitted only when the employer accepted it.  For one      *)
(* executor: the protocol implements SubmissionGate.                       *)
(***************************************************************************)
EXTENDS ExecutorProtocol, FiniteSetTheorems, TLAPS

-----------------------------------------------------------------------------
(* The server.                                                             *)

(* What SubmittedRunIsBacked needs in order to be inductive: every status  *)
(* from which a submission can be recorded lies behind an approval.        *)
ApprovalComesFirst ==
    \A r \in Runs :
        runStatus[r] \in {"approved", "submitting", "needs_verification", "submitted"}
            => r \in approvedAt

ServerIInv ==
    /\ TypeOK
    /\ OneActiveRun
    /\ SubmittedRunIsBacked
    /\ TokenFollowsApproval
    /\ ApprovalComesFirst

-----------------------------------------------------------------------------
(* What the transition table guarantees of any hop, whoever causes it: it  *)
(* stays within the statuses, starts from a run that exists, never brings  *)
(* a finished run back to life, and reaches an approved status only from   *)
(* one, except by the user's approval.                                     *)
LEMMA MoveFacts ==
    ASSUME NEW s, NEW t, NEW actor, <<s, t, actor>> \in Moves
    PROVE  /\ s \in RunStatus /\ t \in RunStatus
           /\ s # "absent" /\ t # "absent"
           /\ s # "submitted"
           /\ t \in ActiveStatuses => s \in ActiveStatuses
           /\ t = "approved" => actor = "user"
           /\ t = "submitting" => s \in {"approved", "submitting"} /\ actor = "executor"
           /\ t = "needs_verification" => s = "submitting"
           /\ actor = "executor" => s \notin {"needs_verification", "failed"}
BY DEF Moves, RunStatus, ActiveStatuses

(* The tables start empty.                                                 *)
LEMMA ServerInitIInv == ServerInit => ServerIInv
BY ApplyRunsAssumption
   DEF ServerInit, ServerIInv, TypeOK, ServerTypeOK, RunStatus, AppStatus, OneActiveRun,
       ActiveStatuses, SubmittedRunIsBacked, TokenFollowsApproval, ApprovalComesFirst

(* A step that changes the status of one run, along the table or from      *)
(* "submitting" or "needs_verification" to "submitted", and neither adds a *)
(* run nor moves one to another application keeps OneActiveRun.            *)
LEMMA OneActiveRunKept ==
    ASSUME TypeOK, OneActiveRun, NEW r \in Runs, NEW t,
           t \in ActiveStatuses => runStatus[r] \in ActiveStatuses,
           SetStatus(r, t), UNCHANGED runApp
    PROVE  OneActiveRun'
BY DEF TypeOK, ServerTypeOK, OneActiveRun, SetStatus

(* Enqueue is the one step that makes a run active: it looked for others.  *)
LEMMA EnqueueKeepsIInv ==
    ASSUME ServerIInv, NEW a \in Apps, NEW r \in Runs, Enqueue(a, r)
    PROVE  ServerIInv'
<1> USE DEF ServerIInv, Enqueue, SetStatus
<1>1. TypeOK'
  BY ApplyRunsAssumption DEF TypeOK, ServerTypeOK, RunStatus
<1>2. OneActiveRun'
  BY DEF OneActiveRun, TypeOK, ServerTypeOK, ActiveRuns, RunsOf
<1>3. SubmittedRunIsBacked'
  <2> SUFFICES ASSUME NEW q \in Runs, runStatus'[q] = "submitted"
               PROVE  /\ q \in approvedAt'
                      /\ runApp'[q] \in receipted'
                      /\ appStatus'[runApp'[q]] # "open"
                      /\ (\A b \in Apps : ~Gone(b)') => appStatus'[runApp'[q]] = "submitted"
    BY DEF SubmittedRunIsBacked
  <2>1. q # r /\ runStatus[q] = "submitted" /\ runApp'[q] = runApp[q]
    BY DEF TypeOK, ServerTypeOK
  <2> QED
    BY <2>1 DEF SubmittedRunIsBacked, Gone
<1>4. TokenFollowsApproval' /\ ApprovalComesFirst'
  BY DEF TokenFollowsApproval, ApprovalComesFirst, TypeOK, ServerTypeOK
<1> QED
  BY <1>1, <1>2, <1>3, <1>4

(* The user's three requests about an existing run.                        *)
LEMMA UserMoveKeepsIInv ==
    ASSUME ServerIInv, NEW r \in Runs, Approve(r) \/ Resume(r) \/ Cancel(r)
    PROVE  ServerIInv'
<1>1. PICK t \in {"approved", "queued", "cancelled"} :
        /\ <<runStatus[r], t, "user">> \in Moves
        /\ SetStatus(r, t)
        /\ UNCHANGED <<runApp, recent, appStatus, receipted>>
        /\ IF t = "approved"
             THEN approvalToken' = approvalToken \cup {r} /\ approvedAt' = approvedAt \cup {r}
             ELSE /\ UNCHANGED approvedAt
                  /\ IF t = "cancelled" THEN approvalToken' = approvalToken \ {r}
                                        ELSE UNCHANGED approvalToken
  BY DEF Approve, Resume, Cancel, MayMove
<1>2. runStatus[r] # "absent" /\ (t \in ActiveStatuses => runStatus[r] \in ActiveStatuses)
  BY <1>1, MoveFacts
<1>3. TypeOK'
  BY <1>1, <1>2 DEF ServerIInv, TypeOK, ServerTypeOK, SetStatus, RunStatus
<1>4. OneActiveRun'
  BY <1>1, <1>2, OneActiveRunKept DEF ServerIInv
<1>5. SubmittedRunIsBacked'
  BY <1>1 DEF ServerIInv, TypeOK, ServerTypeOK, SubmittedRunIsBacked, SetStatus, Gone
<1>6. t = "queued" => runStatus[r] = "awaiting_input"
  BY <1>1 DEF Moves
<1>7. TokenFollowsApproval' /\ ApprovalComesFirst'
  BY <1>1, <1>6 DEF ServerIInv, TypeOK, ServerTypeOK, TokenFollowsApproval,
                    ApprovalComesFirst, SetStatus
<1> QED
  BY <1>3, <1>4, <1>5, <1>7 DEF ServerIInv

(* A change of applications that reopens none and takes "submitted" away    *)
(* from one only while some application is merged away.                     *)
ApplicationsMoveOn ==
    /\ appStatus' \in [Apps -> AppStatus]
    /\ \A a \in Apps :
          /\ appStatus[a] # "open" => appStatus'[a] # "open"
          /\ Gone(a) => Gone(a)'
          /\ appStatus[a] = "submitted" =>
                appStatus'[a] = "submitted" \/ \E b \in Apps : Gone(b)'

LEMMA BackedApplications ==
    ASSUME ServerIInv, ApplicationsMoveOn, receipted \subseteq receipted',
           UNCHANGED <<runStatus, runApp, approvedAt>>
    PROVE  SubmittedRunIsBacked'
<1> SUFFICES ASSUME NEW r \in Runs, runStatus[r] = "submitted"
             PROVE  /\ r \in approvedAt
                    /\ runApp[r] \in receipted'
                    /\ appStatus'[runApp[r]] # "open"
                    /\ (\A b \in Apps : ~Gone(b)') => appStatus'[runApp[r]] = "submitted"
  BY DEF SubmittedRunIsBacked
<1>1. runApp[r] \in Apps
  BY DEF ServerIInv, TypeOK, ServerTypeOK
<1>2. r \in approvedAt /\ runApp[r] \in receipted /\ appStatus[runApp[r]] # "open"
  BY DEF ServerIInv, SubmittedRunIsBacked
<1>3. (\A b \in Apps : ~Gone(b)) => appStatus[runApp[r]] = "submitted"
  BY DEF ServerIInv, SubmittedRunIsBacked
<1> QED
  BY <1>1, <1>2, <1>3 DEF ApplicationsMoveOn

(* A merge deletes a row, and what it keeps is at least as far along.       *)
LEMMA MergeMovesOn ==
    ASSUME ServerIInv, NEW group \in SUBSET Apps, NEW a \in group, NEW b \in group,
           MergeDuplicates(group, a, b)
    PROVE  ApplicationsMoveOn
<1>1. appStatus \in [Apps -> AppStatus]
  BY DEF ServerIInv, TypeOK, ServerTypeOK
<1>2. PICK c \in group : c # a
  BY DEF MergeDuplicates
<1>3. Gone(c)'
  BY <1>2 DEF MergeDuplicates, Gone
<1>4. appStatus[a] # "open" => appStatus[b] # "open"
  BY <1>1 DEF MergeDuplicates, StatusRank, AppStatus, Gone
<1>5. appStatus' \in [Apps -> AppStatus]
  BY <1>1 DEF MergeDuplicates, AppStatus
<1>6. ASSUME NEW d \in Apps
      PROVE  /\ appStatus[d] # "open" => appStatus'[d] # "open"
             /\ Gone(d) => Gone(d)'
  BY <1>1, <1>4, <1>6 DEF MergeDuplicates, Gone
<1> QED
  BY <1>2, <1>3, <1>5, <1>6 DEF ApplicationsMoveOn

(* The requests about applications only: they reopen none, a receipt stays *)
(* written, and no run is touched.                                         *)
LEMMA ApplicationKeepsIInv ==
    ASSUME ServerIInv,
           \/ \E a \in Apps, s \in AppStatus : TransitionApplication(a, s)
           \/ \E a \in Apps : MarkSubmitted(a)
           \/ \E group \in SUBSET Apps : \E a, b \in group : MergeDuplicates(group, a, b)
    PROVE  ServerIInv'
<1> USE DEF ServerIInv, TypeOK, ServerTypeOK
<1>1. UNCHANGED runVars /\ receipted \subseteq receipted' /\ receipted' \subseteq Apps
  BY DEF TransitionApplication, MarkSubmitted, ConfirmSubmission, MergeDuplicates
<1>2. ApplicationsMoveOn
  <2>1. ASSUME NEW a \in Apps, NEW s \in AppStatus, TransitionApplication(a, s)
        PROVE  ApplicationsMoveOn
    BY <2>1 DEF TransitionApplication, ApplicationsMoveOn, Gone
  <2>2. ASSUME NEW a \in Apps, MarkSubmitted(a) PROVE ApplicationsMoveOn
    BY <2>2 DEF MarkSubmitted, ConfirmSubmission, ApplicationsMoveOn, Gone, AppStatus
  <2> QED
    BY <2>1, <2>2, MergeMovesOn
<1>3. TypeOK' /\ OneActiveRun' /\ TokenFollowsApproval' /\ ApprovalComesFirst'
  BY <1>1, <1>2 DEF OneActiveRun, TokenFollowsApproval, ApprovalComesFirst, runVars,
                    ApplicationsMoveOn
<1> QED
  BY <1>1, <1>2, <1>3, BackedApplications DEF runVars

(* The executor's requests that change nothing but the status.             *)
LEMMA ExecutorMoveKeepsIInv ==
    ASSUME ServerIInv, NEW r \in Runs,
           Claim(r) \/ \E s \in ReportStatus : Report(r, s)
    PROVE  ServerIInv'
<1>1. PICK t \in RunStatus :
        /\ <<runStatus[r], t, "executor">> \in Moves
        /\ t # "submitted"
        /\ SetStatus(r, t)
        /\ UNCHANGED <<runApp, approvalToken, approvedAt, recent, appStatus, receipted>>
  <2>1. CASE Claim(r)
    BY <2>1 DEF Claim, Claimable, Moves, RunStatus
  <2>2. CASE \E s \in ReportStatus : Report(r, s)
    <3>1. PICK s \in ReportStatus : Report(r, s)
      BY <2>2
    <3>2. <<runStatus[r], ReportTarget(r, s), "executor">> \in Moves
      BY <3>1 DEF Report, ReportAccepted, MayMove
    <3>3. ReportTarget(r, s) \in RunStatus /\ ReportTarget(r, s) # "submitted"
      BY <3>2, MoveFacts DEF ReportTarget, ReportStatus
    <3> QED
      BY <3>1, <3>2, <3>3 DEF Report
  <2> QED
    BY <2>1, <2>2
<1>2. /\ runStatus[r] # "absent"
      /\ runStatus[r] \notin {"submitted", "needs_verification", "failed"}
      /\ t # "approved"
      /\ t \in ActiveStatuses => runStatus[r] \in ActiveStatuses
      /\ t = "submitting" => runStatus[r] \in {"approved", "submitting"}
      /\ t = "needs_verification" => runStatus[r] = "submitting"
      /\ runStatus[r] = "approved" => t = "submitting"
      /\ runStatus[r] = "submitting" => t \in {"submitting", "needs_verification", "failed"}
  BY <1>1, MoveFacts DEF Moves
<1>3. TypeOK'
  BY <1>1, <1>2 DEF ServerIInv, TypeOK, ServerTypeOK, SetStatus, RunStatus
<1>4. OneActiveRun'
  BY <1>1, <1>2, OneActiveRunKept DEF ServerIInv
<1>5. SubmittedRunIsBacked'
  BY <1>1 DEF ServerIInv, TypeOK, ServerTypeOK, SubmittedRunIsBacked, SetStatus, Gone
<1>6. TokenFollowsApproval' /\ ApprovalComesFirst'
  BY <1>1, <1>2 DEF ServerIInv, TypeOK, ServerTypeOK, TokenFollowsApproval,
                    ApprovalComesFirst, SetStatus
<1> QED
  BY <1>3, <1>4, <1>5, <1>6 DEF ServerIInv

(* Recording a submission: refused by confirm_submission it changes the    *)
(* receipts only; accepted, the run's application is submitted before the  *)
(* run is.                                                                 *)
LEMMA RecordKeepsIInv ==
    ASSUME ServerIInv, NEW r \in Runs, NEW token \in BOOLEAN, RecordSubmitted(r, token)
    PROVE  ServerIInv'
<1> DEFINE a == runApp[r]
<1>1. runStatus[r] \in {"submitting", "needs_verification"} /\ a \in Apps /\ r \in approvedAt
  BY DEF RecordSubmitted, RecordAuthorised, ServerIInv, TypeOK, ServerTypeOK, ApprovalComesFirst
<1>2. /\ UNCHANGED <<runApp, approvedAt, recent>>
      /\ receipted' = receipted \cup {a}
      /\ ApplicationsMoveOn
  BY <1>1 DEF RecordSubmitted, ConfirmSubmission, Confirmable, ServerIInv, TypeOK,
              ServerTypeOK, AppStatus, ApplicationsMoveOn, Gone
<1>3. CASE ~Confirmable(a)
  <2>1. UNCHANGED <<runStatus, approvalToken>>
    BY <1>3 DEF RecordSubmitted
  <2>2. TypeOK' /\ OneActiveRun' /\ TokenFollowsApproval' /\ ApprovalComesFirst'
    BY <1>1, <1>2, <2>1 DEF ServerIInv, TypeOK, ServerTypeOK, OneActiveRun,
                            TokenFollowsApproval, ApprovalComesFirst, ApplicationsMoveOn
  <2>3. SubmittedRunIsBacked'
    BY <1>2, <2>1, BackedApplications
  <2> QED
    BY <2>2, <2>3 DEF ServerIInv
<1>4. CASE Confirmable(a)
  <2>1. /\ SetStatus(r, "submitted")
        /\ approvalToken' = approvalToken \ {r}
        /\ appStatus'[a] = "submitted"
    BY <1>1, <1>4 DEF RecordSubmitted, ConfirmSubmission, ServerIInv, TypeOK, ServerTypeOK
  <2>2. TypeOK'
    BY <1>1, <1>2, <2>1 DEF ServerIInv, TypeOK, ServerTypeOK, SetStatus, RunStatus,
                            ApplicationsMoveOn
  <2>3. OneActiveRun'
    BY <1>2, <2>1, OneActiveRunKept DEF ServerIInv, ActiveStatuses
  <2>4. SubmittedRunIsBacked'
    <3> SUFFICES ASSUME NEW q \in Runs, runStatus'[q] = "submitted"
                 PROVE  /\ q \in approvedAt
                        /\ runApp[q] \in receipted'
                        /\ appStatus'[runApp[q]] # "open"
                        /\ (\A b \in Apps : ~Gone(b)') => appStatus'[runApp[q]] = "submitted"
      BY <1>2 DEF SubmittedRunIsBacked
    <3>1. CASE q = r
      BY <1>1, <1>2, <2>1, <3>1
    <3>2. CASE q # r
      <4>1. runStatus[q] = "submitted" /\ runApp[q] \in Apps
        BY <2>1, <3>2 DEF SetStatus, ServerIInv, TypeOK, ServerTypeOK
      <4>2. /\ q \in approvedAt /\ runApp[q] \in receipted /\ appStatus[runApp[q]] # "open"
            /\ (\A b \in Apps : ~Gone(b)) => appStatus[runApp[q]] = "submitted"
        BY <4>1 DEF ServerIInv, SubmittedRunIsBacked
      <4> QED
        BY <1>2, <4>1, <4>2 DEF ApplicationsMoveOn
    <3> QED
      BY <3>1, <3>2
  <2>5. TokenFollowsApproval' /\ ApprovalComesFirst'
    BY <1>1, <1>2, <2>1 DEF ServerIInv, TypeOK, ServerTypeOK, TokenFollowsApproval,
                            ApprovalComesFirst, SetStatus
  <2> QED
    BY <2>2, <2>3, <2>4, <2>5 DEF ServerIInv
<1> QED
  BY <1>3, <1>4

-----------------------------------------------------------------------------
(* Every request of every client keeps the invariant; the protocol proofs  *)
(* use this too, for the executor's steps are such requests.               *)
LEMMA ServerStepKeepsIInv == ServerIInv /\ [ServerNext]_serverVars => ServerIInv'
<1> SUFFICES ASSUME ServerIInv, [ServerNext]_serverVars
             PROVE  ServerIInv'
  OBVIOUS
<1>1. ASSUME UserRequest PROVE ServerIInv'
  BY <1>1, EnqueueKeepsIInv, UserMoveKeepsIInv, ApplicationKeepsIInv DEF UserRequest
<1>2. ASSUME ExecutorRequest PROVE ServerIInv'
  BY <1>2, ExecutorMoveKeepsIInv, RecordKeepsIInv DEF ExecutorRequest
<1>3. ASSUME NEW r \in Runs, RunAges(r) PROVE ServerIInv'
  BY <1>3 DEF RunAges, ServerIInv, TypeOK, ServerTypeOK, OneActiveRun, SubmittedRunIsBacked,
              TokenFollowsApproval, ApprovalComesFirst, Gone
<1>4. ASSUME UNCHANGED serverVars PROVE ServerIInv'
  BY <1>4 DEF serverVars, ServerIInv, TypeOK, ServerTypeOK, OneActiveRun,
              SubmittedRunIsBacked, TokenFollowsApproval, ApprovalComesFirst, Gone
<1> QED
  BY <1>1, <1>2, <1>3, <1>4 DEF ServerNext

(* The inductive invariant holds in every reachable state of the server.    *)
THEOREM ServerInvariant == ServerSpec => []ServerIInv
BY ServerInitIInv, ServerStepKeepsIInv, PTL DEF ServerSpec

(* The tables keep their type.                                             *)
THEOREM TypeCorrect == ServerSpec => []TypeOK
BY ServerInvariant, PTL DEF ServerIInv

(* enqueue_apply_run's "one active run per application", for any number of *)
(* runs and any order of requests.                                         *)
THEOREM OneActiveRunAlways == ServerSpec => []OneActiveRun
BY ServerInvariant, PTL DEF ServerIInv

(* A submitted run was approved, and its application has a receipt, is not *)
(* open again, and says submitted unless duplicates were merged            *)
(* (record_run_submitted, confirm_submission, dedupe_applications).        *)
THEOREM SubmittedRunIsBackedAlways == ServerSpec => []SubmittedRunIsBacked
BY ServerInvariant, PTL DEF ServerIInv

(* The approval token follows the approval (approve_run, cancel_run,       *)
(* record_run_submitted).                                                  *)
THEOREM TokenFollowsApprovalAlways == ServerSpec => []TokenFollowsApproval
BY ServerInvariant, PTL DEF ServerIInv

-----------------------------------------------------------------------------
(* The daily cap: besides the count itself, that runs of a day are finitely *)
(* many, so that one more counts for one.                                   *)
CapIInv == IsFiniteSet(recent) /\ CountedRunsWithinCap

(* A cancelled run is not brought back into the count.                      *)
LEMMA CancelledForGood ==
    ASSUME ServerIInv, ServerNext, NEW q \in Runs, runStatus[q] = "cancelled"
    PROVE  runStatus'[q] = "cancelled"
<1>1. ASSUME NEW r \in Runs, NEW t, SetStatus(r, t), runStatus[r] # "cancelled"
      PROVE  runStatus'[q] = "cancelled"
  BY <1>1 DEF SetStatus, ServerIInv, TypeOK, ServerTypeOK
<1>2. ASSUME NEW s, NEW t, NEW actor, <<s, t, actor>> \in Moves PROVE s # "cancelled"
  BY <1>2 DEF Moves
<1>3. ASSUME UserRequest PROVE runStatus'[q] = "cancelled"
  BY <1>1, <1>2, <1>3
  DEF UserRequest, Enqueue, Approve, Resume, Cancel, MayMove, TransitionApplication,
      MarkSubmitted, MergeDuplicates, runVars
<1>4. ASSUME ExecutorRequest PROVE runStatus'[q] = "cancelled"
  <2>1. ASSUME NEW r \in Runs, Claim(r) PROVE runStatus'[q] = "cancelled"
    BY <1>1, <2>1 DEF Claim, Claimable
  <2>2. ASSUME NEW r \in Runs, NEW s \in ReportStatus, Report(r, s)
        PROVE  runStatus'[q] = "cancelled"
    BY <1>1, <1>2, <2>2 DEF Report, ReportAccepted, MayMove
  <2>3. ASSUME NEW r \in Runs, NEW token \in BOOLEAN, RecordSubmitted(r, token)
        PROVE  runStatus'[q] = "cancelled"
    BY <1>1, <2>3 DEF RecordSubmitted, RecordAuthorised
  <2> QED
    BY <1>4, <2>1, <2>2, <2>3 DEF ExecutorRequest
<1> QED
  BY <1>3, <1>4 DEF ServerNext, RunAges

(* Only enqueue_apply_run adds to the count, and it looks at it first.      *)
LEMMA CountGrowsByEnqueue ==
    ASSUME ServerIInv, [ServerNext]_serverVars
    PROVE  \/ recent' \subseteq recent
           \/ \E r \in Runs : /\ recent' = recent \cup {r}
                              /\ DailyCap = 0 \/ Cardinality(CountedRuns) < DailyCap
  BY DEF ServerNext, UserRequest, ExecutorRequest, RunAges, serverVars, Enqueue, Approve, Resume,
         Cancel, Claim, Report, RecordSubmitted, MarkSubmitted, TransitionApplication,
         MergeDuplicates, runVars

LEMMA CapStep == ServerIInv /\ CapIInv /\ [ServerNext]_serverVars => CapIInv'
<1> SUFFICES ASSUME ServerIInv, CapIInv, [ServerNext]_serverVars PROVE CapIInv'
  OBVIOUS
<1>1. \A q \in recent : runStatus[q] = "cancelled" => runStatus'[q] = "cancelled"
  <2>1. CASE UNCHANGED serverVars
    BY <2>1 DEF serverVars
  <2>2. CASE ServerNext
    BY <2>2, CancelledForGood DEF ServerIInv, TypeOK, ServerTypeOK
  <2> QED
    BY <2>1, <2>2
<1>2. IsFiniteSet(CountedRuns) /\ Cardinality(CountedRuns) \in Nat
  BY FS_Subset, FS_CardinalityType DEF CapIInv, CountedRuns
<1>3. CASE recent' \subseteq recent
  <2>1. IsFiniteSet(recent')
    BY <1>3, FS_Subset DEF CapIInv
  <2>2. CountedRuns' \subseteq CountedRuns
    BY <1>1, <1>3 DEF CountedRuns
  <2>3. Cardinality(CountedRuns') \in Nat /\ Cardinality(CountedRuns') <= Cardinality(CountedRuns)
    BY <1>2, <2>2, FS_Subset, FS_CardinalityType
  <2> QED
    BY <1>2, <2>1, <2>3, ApplyRunsAssumption DEF CapIInv, CountedRunsWithinCap
<1>4. ASSUME NEW r \in Runs, recent' = recent \cup {r},
             DailyCap = 0 \/ Cardinality(CountedRuns) < DailyCap
      PROVE  CapIInv'
  <2>1. IsFiniteSet(recent')
    BY <1>4, FS_AddElement DEF CapIInv
  <2>2. CountedRuns' \subseteq CountedRuns \cup {r}
    BY <1>1, <1>4 DEF CountedRuns
  <2>3. /\ IsFiniteSet(CountedRuns \cup {r})
        /\ Cardinality(CountedRuns \cup {r}) <= Cardinality(CountedRuns) + 1
        /\ Cardinality(CountedRuns \cup {r}) \in Nat
    <3>1. /\ IsFiniteSet(CountedRuns \cup {r})
          /\ \/ Cardinality(CountedRuns \cup {r}) = Cardinality(CountedRuns)
             \/ Cardinality(CountedRuns \cup {r}) = Cardinality(CountedRuns) + 1
      BY <1>2, FS_AddElement
    <3> QED
      BY <1>2, <3>1
  <2>4. /\ Cardinality(CountedRuns') \in Nat
        /\ Cardinality(CountedRuns') <= Cardinality(CountedRuns \cup {r})
    BY <2>2, <2>3, FS_Subset, FS_CardinalityType
  <2> QED
    BY <1>2, <1>4, <2>1, <2>3, <2>4, ApplyRunsAssumption DEF CapIInv, CountedRunsWithinCap
<1> QED
  BY <1>3, <1>4, CountGrowsByEnqueue

(* The runs of a day that were not cancelled never exceed the cap, with any *)
(* number of runs enqueued, cancelled and ageing.                           *)
THEOREM CountedRunsWithinCapAlways == ServerSpec => []CountedRunsWithinCap
<1>1. ServerInit => CapIInv
  <2> SUFFICES ASSUME ServerInit PROVE CapIInv
    OBVIOUS
  <2>1. recent = {} /\ CountedRuns = {}
    BY DEF ServerInit, CountedRuns
  <2> QED
    BY <2>1, FS_EmptySet, ApplyRunsAssumption DEF CapIInv, CountedRunsWithinCap
<1>2. CapIInv => CountedRunsWithinCap
  BY DEF CapIInv
<1> QED
  BY <1>1, <1>2, CapStep, ServerInvariant, PTL DEF ServerSpec

-----------------------------------------------------------------------------
(* The protocol.                                                           *)

(* The types of what an executor is at.                                    *)
TaskOK ==
    /\ pc \in [Executors -> ExecutorSteps]
    /\ cur \in [Executors -> Runs \cup {NoRun}]
    /\ \A e \in Executors : pc[e] = "idle" <=> cur[e] = NoRun

(* The statuses a run can have once Submit was clicked; the requests never *)
(* lead out of them.                                                       *)
PastApproval == {"submitting", "submitted", "failed", "needs_verification", "cancelled"}

(* A click is still to come only on a run that was not clicked, and no two *)
(* executors are around the click of one run.                              *)
OneSubmitter ==
    /\ \A e \in Executors : pc[e] = "click" => clicks[cur[e]] = 0
    /\ \A e, f \in Executors :
          pc[e] \in SubmitSteps /\ pc[f] \in SubmitSteps /\ cur[e] = cur[f] => e = f

ProtocolIInv ==
    /\ ProtocolTypeOK
    /\ ServerIInv
    /\ ClickedAtMostOnce
    /\ SubmitStepsAreApproved
    /\ OneSubmitter

-----------------------------------------------------------------------------
(* What one step of executor e does to the others, to the clicks, to the   *)
(* steps around the click and to the server.                               *)

OthersKeepTheirTask(e) ==
    \A f \in Executors \ {e} : pc'[f] = pc[f] /\ cur'[f] = cur[f]

ClicksOnlyAtClick(e) ==
    \/ UNCHANGED clicks
    \/ /\ pc[e] = "click" /\ pc'[e] # "click"
       /\ clicks' = [clicks EXCEPT ![cur[e]] = @ + 1]
       /\ UNCHANGED <<cur, serverVars>>

EntersSubmitByClaim(e) ==
    pc'[e] \in SubmitSteps =>
        \/ /\ pc[e] \in SubmitSteps /\ cur'[e] = cur[e]
           /\ pc'[e] = "click" => pc[e] = "click"
        \/ /\ cur'[e] \in Runs
           /\ runStatus[cur'[e]] = "approved" /\ Claim(cur'[e])

(* A request that hands a run over or records it comes from the executor   *)
(* that leaves the steps around the click.                                 *)
HandsOver(e, r) ==
    /\ pc[e] \in SubmitSteps /\ pc'[e] \notin SubmitSteps /\ cur[e] = r
    /\ Report(r, "needs_verification") \/ RecordSubmitted(r, TRUE)

RequestsOf(e) ==
    \/ UNCHANGED serverVars
    \/ \E r \in Runs :
          \/ Claim(r)
          \/ \E s \in ReportStatus \ {"needs_verification"} : Report(r, s)
          \/ HandsOver(e, r)

StepShape(e) ==
    /\ OthersKeepTheirTask(e)
    /\ TaskOK'
    /\ ClicksOnlyAtClick(e)
    /\ EntersSubmitByClaim(e)
    /\ RequestsOf(e)

-----------------------------------------------------------------------------
(* GoTo from a step that has a run keeps the task well formed and touches  *)
(* no other executor.                                                      *)
LEMMA GoToShape ==
    ASSUME TaskOK, NEW e \in Executors, NEW step \in ExecutorSteps,
           pc[e] # "idle" \/ step = "idle", GoTo(e, step)
    PROVE  /\ TaskOK'
           /\ OthersKeepTheirTask(e)
           /\ pc'[e] = step
           /\ step # "idle" => cur' = cur
BY ExecutorAssumption DEF TaskOK, GoTo, OthersKeepTheirTask

(* So does taking a run of the snapshot.                                   *)
LEMMA StartShape ==
    ASSUME TaskOK, NEW e \in Executors, NEW step \in ExecutorSteps \ {"idle"},
           NEW r \in Runs, StartOn(e, r, step)
    PROVE  /\ TaskOK'
           /\ OthersKeepTheirTask(e)
           /\ pc'[e] = step /\ cur'[e] = r
BY ExecutorAssumption DEF TaskOK, StartOn, OthersKeepTheirTask

(* progress(): the executor goes on or fails, the run moves or does not.   *)
LEMMA ProgressShape ==
    ASSUME TaskOK, NEW e \in Executors, pc[e] # "idle",
           NEW step \in ExecutorSteps, NEW s \in ReportStatus, Progress(e, s, step)
    PROVE  /\ TaskOK'
           /\ OthersKeepTheirTask(e)
           /\ pc'[e] \in {step, "failing"}
           /\ pc'[e] # "idle" => cur' = cur
           /\ cur[e] \in Runs
           /\ Report(cur[e], s) \/ UNCHANGED serverVars
<1>1. cur[e] \in Runs
  BY DEF TaskOK
<1>2. PICK next \in {step, "failing"} : GoTo(e, next)
  BY DEF Progress, Answered, Refused, LostRequest, LostAnswer
<1>3. next \in ExecutorSteps
  BY <1>2 DEF ExecutorSteps
<1>4. Report(cur[e], s) \/ UNCHANGED serverVars
  BY DEF Progress, Refused, LostRequest
<1> QED
  BY <1>1, <1>2, <1>3, <1>4, GoToShape

(* A claim, and where it leads.                                            *)
LEMMA ClaimShape ==
    ASSUME TaskOK, NEW e \in Executors, NEW r \in Runs,
           NEW step \in ExecutorSteps \ {"idle"}, ClaimOrFail(e, r, step)
    PROVE  /\ TaskOK'
           /\ OthersKeepTheirTask(e)
           /\ pc'[e] \in {step, "failing"} /\ cur'[e] = r
           /\ pc'[e] # "failing" => Claim(r)
           /\ Claim(r) \/ UNCHANGED serverVars
<1>1. "failing" \in ExecutorSteps \ {"idle"}
  BY DEF ExecutorSteps
<1>2. CASE Claim(r) /\ StartOn(e, r, step)
  BY <1>2, StartShape
<1>3. CASE StartOn(e, r, "failing") /\ (Claim(r) \/ UNCHANGED serverVars)
  BY <1>1, <1>3, StartShape
<1> QED
  BY <1>2, <1>3 DEF ClaimOrFail

-----------------------------------------------------------------------------
(* Each step of the executor has that shape.                               *)

(* Polling and the refused report about a disallowed run start nothing.    *)
LEMMA LoopStepShape ==
    ASSUME TaskOK, NEW e \in Executors,
           \/ Poll(e)
           \/ \E r \in Runs, status \in {"queued", "approved"} : SkipDisallowed(e, r, status)
    PROVE  StepShape(e)
<1>1. UNCHANGED <<pc, cur, clicks>>
  BY DEF Poll, SkipDisallowed
<1>2. RequestsOf(e)
  BY DEF Poll, SkipDisallowed, TryReport, RequestsOf, ReportStatus
<1>3. TaskOK' /\ OthersKeepTheirTask(e) /\ EntersSubmitByClaim(e)
  BY <1>1 DEF TaskOK, OthersKeepTheirTask, EntersSubmitByClaim
<1> QED
  BY <1>1, <1>2, <1>3 DEF StepShape, ClicksOnlyAtClick

(* A queued run is taken with a claim, or nothing is asked of the server.  *)
LEMMA TakeQueuedShape ==
    ASSUME TaskOK, NEW e \in Executors, NEW r \in Runs, TakeQueued(e, r)
    PROVE  StepShape(e)
<1>1. PICK step \in {"opening", "filling"} : ClaimOrFail(e, r, step)
  BY DEF TakeQueued
<1>2. /\ TaskOK' /\ OthersKeepTheirTask(e)
      /\ pc'[e] \in {"opening", "filling", "failing"}
      /\ Claim(r) \/ UNCHANGED serverVars
      /\ UNCHANGED clicks
  BY <1>1, ClaimShape DEF TakeQueued, ExecutorSteps
<1> QED
  BY <1>2 DEF StepShape, ClicksOnlyAtClick, EntersSubmitByClaim, SubmitSteps, RequestsOf

(* A lost page leads to a report of failure, never to a click.             *)
LEMMA LostPageShape ==
    ASSUME TaskOK, NEW e \in Executors, NEW r \in Runs, LostPage(e, r)
    PROVE  StepShape(e)
<1>1. UNCHANGED clicks /\ RequestsOf(e)
  BY DEF LostPage, RequestsOf, ReportStatus
<1>2. CASE UNCHANGED <<pc, cur>>
  BY <1>1, <1>2 DEF StepShape, TaskOK, OthersKeepTheirTask, ClicksOnlyAtClick,
                    EntersSubmitByClaim
<1>3. CASE StartOn(e, r, "failing")
  <2>1. TaskOK' /\ OthersKeepTheirTask(e) /\ pc'[e] = "failing"
    BY <1>3, StartShape DEF ExecutorSteps
  <2> QED
    BY <1>1, <2>1 DEF StepShape, ClicksOnlyAtClick, EntersSubmitByClaim, SubmitSteps
<1> QED
  BY <1>2, <1>3 DEF LostPage

(* The claim of handleApproved is the one way into the steps around the    *)
(* click: only an approved run gets there.                                 *)
LEMMA TakeApprovedShape ==
    ASSUME TaskOK, NEW e \in Executors, NEW r \in Runs, TakeApproved(e, r)
    PROVE  StepShape(e)
<1>1. PICK step \in {"click", "failing"} :
        /\ step = "click" => runStatus[r] = "approved"
        /\ ClaimOrFail(e, r, step)
  BY DEF TakeApproved
<1>2. /\ TaskOK' /\ OthersKeepTheirTask(e)
      /\ pc'[e] \in {step, "failing"} /\ cur'[e] = r
      /\ pc'[e] # "failing" => Claim(r)
      /\ Claim(r) \/ UNCHANGED serverVars
      /\ UNCHANGED clicks
  BY <1>1, ClaimShape DEF TakeApproved, ExecutorSteps
<1>3. EntersSubmitByClaim(e)
  BY <1>1, <1>2 DEF EntersSubmitByClaim, SubmitSteps
<1> QED
  BY <1>2, <1>3 DEF StepShape, ClicksOnlyAtClick, RequestsOf

(* Opening and filling the page report progress only.                      *)
LEMMA FillStepShape ==
    ASSUME TaskOK, NEW e \in Executors,
           OpenPage(e) \/ FillRound(e) \/ AskForInput(e) \/ PauseForReview(e)
    PROVE  StepShape(e)
<1>1. PICK s \in ReportStatus \ {"needs_verification"}, step \in {"idle", "filling", "failing"} :
        Progress(e, s, step)
  BY DEF OpenPage, FillRound, AskForInput, PauseForReview, ReportStatus
<1>2. pc[e] \in {"opening", "filling"} /\ UNCHANGED clicks
  BY DEF OpenPage, FillRound, AskForInput, PauseForReview
<1>3. /\ TaskOK' /\ OthersKeepTheirTask(e)
      /\ pc'[e] \in {"idle", "filling", "failing"}
      /\ cur[e] \in Runs
      /\ Report(cur[e], s) \/ UNCHANGED serverVars
  BY <1>1, <1>2, ProgressShape DEF ExecutorSteps
<1> QED
  BY <1>2, <1>3 DEF StepShape, ClicksOnlyAtClick, EntersSubmitByClaim, SubmitSteps, RequestsOf

(* The click asks nothing of the server and is never taken twice.          *)
LEMMA ClickShape ==
    ASSUME TaskOK, NEW e \in Executors, ClickSubmit(e)
    PROVE  StepShape(e)
<1>1. PICK step \in {"clicked", "failing"} : GoTo(e, step)
  BY DEF ClickSubmit
<1>2. /\ TaskOK' /\ OthersKeepTheirTask(e)
      /\ pc'[e] \in {"clicked", "failing"} /\ cur' = cur
  BY <1>1, GoToShape DEF ClickSubmit, ExecutorSteps
<1> QED
  BY <1>2 DEF ClickSubmit, StepShape, ClicksOnlyAtClick, EntersSubmitByClaim, SubmitSteps,
              RequestsOf

(* The report after the click carries no status of its own.                *)
LEMMA ReportClickShape ==
    ASSUME TaskOK, NEW e \in Executors, ReportClick(e)
    PROVE  StepShape(e)
<1>1. /\ TaskOK' /\ OthersKeepTheirTask(e)
      /\ pc'[e] \in {"confirming", "failing"} /\ cur' = cur
      /\ cur[e] \in Runs
      /\ Report(cur[e], "none") \/ UNCHANGED serverVars
  BY ProgressShape DEF ReportClick, ExecutorSteps, ReportStatus
<1> QED
  BY <1>1 DEF ReportClick, StepShape, ClicksOnlyAtClick, EntersSubmitByClaim, SubmitSteps,
              RequestsOf, ReportStatus

(* The two ways to hand a run over, and the receipt.                       *)
LEMMA HandOverShape ==
    ASSUME TaskOK, NEW e \in Executors, NoSubmitButton(e) \/ NoEvidence(e)
    PROVE  StepShape(e)
<1>1. pc[e] \in {"click", "confirming"} /\ UNCHANGED clicks
      /\ Progress(e, "needs_verification", "idle")
  BY DEF NoSubmitButton, NoEvidence, ProgressAndForget
<1>2. /\ TaskOK' /\ OthersKeepTheirTask(e)
      /\ pc'[e] \in {"idle", "failing"}
      /\ cur[e] \in Runs
      /\ Report(cur[e], "needs_verification") \/ UNCHANGED serverVars
  BY <1>1, ProgressShape DEF ExecutorSteps, ReportStatus
<1> QED
  BY <1>1, <1>2 DEF StepShape, ClicksOnlyAtClick, EntersSubmitByClaim, SubmitSteps, RequestsOf,
                    HandsOver

(* Recording the receipt ends the steps around the click, either way.      *)
LEMMA RecordShape ==
    ASSUME TaskOK, NEW e \in Executors, RecordReceipt(e)
    PROVE  StepShape(e)
<1>1. PICK step \in {"idle", "failing"} : GoTo(e, step)
  BY DEF RecordReceipt, Refused, LostRequest, LostAnswer
<1>2. pc[e] = "confirming" /\ UNCHANGED clicks /\ cur[e] \in Runs
  BY DEF RecordReceipt, TaskOK
<1>3. TaskOK' /\ OthersKeepTheirTask(e) /\ pc'[e] \in {"idle", "failing"}
  BY <1>1, <1>2, GoToShape DEF ExecutorSteps
<1>4. RecordSubmitted(cur[e], TRUE) \/ UNCHANGED serverVars
  BY DEF RecordReceipt, Refused, LostRequest
<1> QED
  BY <1>2, <1>3, <1>4 DEF StepShape, ClicksOnlyAtClick, EntersSubmitByClaim, SubmitSteps,
                          RequestsOf, HandsOver

(* An error, its report and a restart leave those steps too.               *)
LEMMA FailureShape ==
    ASSUME TaskOK, NEW e \in Executors, BrowserError(e) \/ ReportFailure(e) \/ Restart(e)
    PROVE  StepShape(e)
<1>1. PICK step \in {"idle", "failing"} : GoTo(e, step) /\ (pc[e] # "idle" \/ step = "idle")
  BY DEF BrowserError, ReportFailure, Restart
<1>2. TaskOK' /\ OthersKeepTheirTask(e) /\ pc'[e] \in {"idle", "failing"}
  BY <1>1, GoToShape DEF ExecutorSteps
<1>3. UNCHANGED clicks /\ RequestsOf(e)
  <2>1. CASE ReportFailure(e)
    BY <2>1 DEF ReportFailure, TaskOK, TryReport, RequestsOf, ReportStatus
  <2>2. CASE BrowserError(e) \/ Restart(e)
    BY <2>2 DEF BrowserError, Restart, RequestsOf
  <2> QED
    BY <2>1, <2>2
<1> QED
  BY <1>2, <1>3 DEF StepShape, ClicksOnlyAtClick, EntersSubmitByClaim, SubmitSteps

(* Every step of an executor has that shape.                               *)
LEMMA ExecutorStepShape ==
    ASSUME TaskOK, NEW e \in Executors, ExecutorStep(e) \/ Restart(e)
    PROVE  StepShape(e)
BY LoopStepShape, TakeQueuedShape, LostPageShape, TakeApprovedShape, FillStepShape, ClickShape,
   ReportClickShape, HandOverShape, RecordShape, FailureShape DEF ExecutorStep

-----------------------------------------------------------------------------
(* What an executor asks of the server is one of the server's own steps.   *)
LEMMA RequestsAreServerSteps ==
    ASSUME NEW e \in Executors, RequestsOf(e)
    PROVE  [ServerNext]_serverVars
BY DEF RequestsOf, HandsOver, ServerNext, ExecutorRequest, ReportStatus

(* Hence so is every step of the protocol, or it leaves the server alone.  *)
LEMMA ProtocolStepIsServerStep ==
    ProtocolTypeOK /\ [ProtocolNext]_protocolVars => [ServerNext]_serverVars
<1> SUFFICES ASSUME ProtocolTypeOK, [ProtocolNext]_protocolVars
             PROVE  [ServerNext]_serverVars
  OBVIOUS
<1>1. CASE UserRequest
  BY <1>1 DEF ServerNext
<1>2. ASSUME NEW e \in Executors, ExecutorStep(e) \/ Restart(e) PROVE [ServerNext]_serverVars
  BY <1>2, ExecutorStepShape, RequestsAreServerSteps DEF StepShape, ProtocolTypeOK, TaskOK
<1>3. ASSUME NEW e \in Executors, NEW r \in Runs, CloseWindow(e, r)
      PROVE  [ServerNext]_serverVars
  BY <1>3 DEF CloseWindow
<1>4. CASE UNCHANGED protocolVars
  BY <1>4 DEF protocolVars, serverVars
<1> QED
  BY <1>1, <1>2, <1>3, <1>4 DEF ProtocolNext, UninterruptedNext

-----------------------------------------------------------------------------
(* Types.                                                                  *)

(* The browser pages keep their type.                                      *)
LEMMA WindowTypeKept ==
    ASSUME ProtocolTypeOK, NEW e \in Executors, ExecutorStep(e) \/ Restart(e)
    PROVE  window' \in [Executors -> [Runs -> Pages]]
<1>1. ASSUME NEW r \in Runs, NEW page \in Pages, SetPage(e, r, page)
      PROVE  window' \in [Executors -> [Runs -> Pages]]
  BY <1>1 DEF SetPage, ProtocolTypeOK
<1>2. ASSUME UNCHANGED window PROVE window' \in [Executors -> [Runs -> Pages]]
  BY <1>2 DEF ProtocolTypeOK
<1>3. ASSUME NEW r \in Runs, TakeQueued(e, r)
      PROVE  window' \in [Executors -> [Runs -> Pages]]
  BY <1>1, <1>2, <1>3 DEF TakeQueued, Pages
<1>4. ASSUME OpenPage(e) \/ PauseForReview(e) \/ ClickSubmit(e) \/ NoSubmitButton(e)
               \/ NoEvidence(e) \/ RecordReceipt(e)
      PROVE  window' \in [Executors -> [Runs -> Pages]]
  <2>1. cur[e] \in Runs
    BY <1>4 DEF OpenPage, PauseForReview, ClickSubmit, NoSubmitButton, NoEvidence,
                RecordReceipt, ProtocolTypeOK
  <2>2. UNCHANGED window \/ \E page \in Pages : SetPage(e, cur[e], page)
    BY <1>4 DEF OpenPage, PauseForReview, ClickSubmit, NoSubmitButton, NoEvidence,
                RecordReceipt, ProgressAndForget, Pages
  <2> QED
    BY <1>1, <1>2, <2>1, <2>2
<1>5. ASSUME Restart(e) PROVE window' \in [Executors -> [Runs -> Pages]]
  BY <1>5 DEF Restart, ProtocolTypeOK, Pages
<1> QED
  BY <1>2, <1>3, <1>4, <1>5
     DEF ExecutorStep, Poll, SkipDisallowed, LostPage, TakeApproved, FillRound, AskForInput,
         ReportClick, BrowserError, ReportFailure

(* The rest of a poll's snapshot keeps its type.                           *)
LEMMA TodoTypeKept ==
    ASSUME ProtocolTypeOK, NEW e \in Executors, ExecutorStep(e) \/ Restart(e)
    PROVE  todo' \in [Executors -> SUBSET (Runs \X {"queued", "approved"})]
<1>1. ASSUME NEW r \in Runs, NEW status \in {"queued", "approved"}, TakeNext(e, r, status)
      PROVE  todo' \in [Executors -> SUBSET (Runs \X {"queued", "approved"})]
  BY <1>1 DEF TakeNext, ProtocolTypeOK
<1>2. CASE Poll(e)
  <2>1. Snapshot \subseteq Runs \X {"queued", "approved"}
    BY DEF Snapshot
  <2> QED
    BY <1>2, <2>1 DEF Poll, ProtocolTypeOK
<1>3. CASE Restart(e)
  BY <1>3 DEF Restart, ProtocolTypeOK
<1>4. ASSUME UNCHANGED todo
      PROVE  todo' \in [Executors -> SUBSET (Runs \X {"queued", "approved"})]
  BY <1>4 DEF ProtocolTypeOK
<1> QED
  BY <1>1, <1>2, <1>3, <1>4
     DEF ExecutorStep, SkipDisallowed, TakeQueued, LostPage, TakeApproved, OpenPage, FillRound,
         AskForInput, PauseForReview, ClickSubmit, NoSubmitButton, ReportClick, NoEvidence,
         RecordReceipt, BrowserError, ReportFailure

(* So do the clicks and the employer's acceptances.                        *)
LEMMA ClicksTypeKept ==
    ASSUME ProtocolTypeOK, NEW e \in Executors, ExecutorStep(e) \/ Restart(e)
    PROVE  clicks' \in [Runs -> Nat] /\ accepted' \subseteq Runs
<1>1. CASE ClickSubmit(e)
  <2>1. cur[e] \in Runs
    BY <1>1 DEF ClickSubmit, ProtocolTypeOK
  <2> QED
    BY <1>1, <2>1 DEF ClickSubmit, ProtocolTypeOK
<1>2. CASE UNCHANGED <<clicks, accepted>>
  BY <1>2 DEF ProtocolTypeOK
<1> QED
  BY <1>1, <1>2
     DEF ExecutorStep, Poll, SkipDisallowed, TakeQueued, LostPage, TakeApproved, OpenPage,
         FillRound, AskForInput, PauseForReview, NoSubmitButton, ReportClick, NoEvidence,
         RecordReceipt, BrowserError, ReportFailure, Restart

-----------------------------------------------------------------------------
(* Once past approval a run stays there, whatever is requested of it.      *)
LEMMA PastApprovalKept ==
    ASSUME ServerIInv, [ServerNext]_serverVars, NEW r \in Runs, runStatus[r] \in PastApproval
    PROVE  runStatus'[r] \in PastApproval
<1>1. ASSUME NEW q \in Runs, NEW t, NEW actor, <<runStatus[q], t, actor>> \in Moves,
             SetStatus(q, t)
      PROVE  runStatus'[r] \in PastApproval
  BY <1>1 DEF Moves, SetStatus, PastApproval, ServerIInv, TypeOK, ServerTypeOK
<1>2. ASSUME NEW a \in Apps, NEW q \in Runs, Enqueue(a, q) PROVE runStatus'[r] \in PastApproval
  BY <1>2 DEF Enqueue, SetStatus, PastApproval, ServerIInv, TypeOK, ServerTypeOK
<1>3. ASSUME NEW q \in Runs, NEW token \in BOOLEAN, RecordSubmitted(q, token)
      PROVE  runStatus'[r] \in PastApproval
  BY <1>3 DEF RecordSubmitted, SetStatus, PastApproval, ServerIInv, TypeOK, ServerTypeOK
<1>4. ASSUME NEW q \in Runs, Approve(q) \/ Resume(q) \/ Cancel(q)
      PROVE  runStatus'[r] \in PastApproval
  BY <1>1, <1>4 DEF Approve, Resume, Cancel, MayMove
<1>5. ASSUME NEW q \in Runs, Claim(q) \/ \E s \in ReportStatus : Report(q, s)
      PROVE  runStatus'[r] \in PastApproval
  <2>1. CASE Claim(q)
    BY <2>1 DEF Claim, Claimable, SetStatus, PastApproval, ServerIInv, TypeOK, ServerTypeOK
  <2>2. CASE \E s \in ReportStatus : Report(q, s)
    BY <1>1, <2>2 DEF Report, ReportAccepted, MayMove
  <2> QED
    BY <1>5, <2>1, <2>2
<1>6. ASSUME UNCHANGED runStatus PROVE runStatus'[r] \in PastApproval
  BY <1>6
<1> QED
  BY <1>2, <1>3, <1>4, <1>5, <1>6
     DEF ServerNext, UserRequest, ExecutorRequest, TransitionApplication, MarkSubmitted,
         MergeDuplicates, runVars, RunAges, serverVars

(* A run around whose click an executor is leaves submitting and failed    *)
(* only by that executor's own hand-over: the user can take nothing back,  *)
(* and another executor can at most report a failure.                      *)
LEMMA SubmittingKept ==
    ASSUME ServerIInv, NEW r \in Runs, runStatus[r] \in {"submitting", "failed"},
           \/ UserRequest
           \/ \E q \in Runs :
                 \/ Claim(q)
                 \/ \E s \in ReportStatus \ {"needs_verification"} : Report(q, s)
                 \/ q # r /\ (Report(q, "needs_verification") \/ RecordSubmitted(q, TRUE))
           \/ UNCHANGED serverVars
    PROVE  runStatus'[r] \in {"submitting", "failed"}
<1>1. ASSUME NEW q \in Runs \ {r}, NEW t, SetStatus(q, t)
      PROVE  runStatus'[r] \in {"submitting", "failed"}
  BY <1>1 DEF SetStatus, ServerIInv, TypeOK, ServerTypeOK
<1>2. CASE UserRequest
  <2>1. ASSUME NEW a \in Apps, NEW q \in Runs, Enqueue(a, q)
        PROVE  runStatus'[r] \in {"submitting", "failed"}
    BY <1>1, <2>1 DEF Enqueue
  <2>2. ASSUME NEW q \in Runs, Approve(q) \/ Resume(q) \/ Cancel(q)
        PROVE  runStatus'[r] \in {"submitting", "failed"}
    <3>1. q # r
      BY <2>2 DEF Approve, Resume, Cancel, MayMove, Moves
    <3> QED
      BY <1>1, <2>2, <3>1 DEF Approve, Resume, Cancel
  <2>3. ASSUME UNCHANGED runStatus PROVE runStatus'[r] \in {"submitting", "failed"}
    BY <2>3
  <2> QED
    BY <1>2, <2>1, <2>2, <2>3
       DEF UserRequest, TransitionApplication, MarkSubmitted, MergeDuplicates, runVars
<1>3. ASSUME NEW q \in Runs, Claim(q) PROVE runStatus'[r] \in {"submitting", "failed"}
  BY <1>1, <1>3 DEF Claim, Claimable
<1>4. ASSUME NEW q \in Runs, NEW s \in ReportStatus \ {"needs_verification"}, Report(q, s)
      PROVE  runStatus'[r] \in {"submitting", "failed"}
  <2>1. q = r => ReportTarget(q, s) \in {"submitting", "failed"}
    BY <1>4 DEF Report, ReportAccepted, MayMove, Moves, ReportTarget, ReportStatus
  <2> QED
    BY <1>1, <1>4, <2>1 DEF Report, SetStatus, ServerIInv, TypeOK, ServerTypeOK
<1>5. ASSUME NEW q \in Runs, q # r, Report(q, "needs_verification") \/ RecordSubmitted(q, TRUE)
      PROVE  runStatus'[r] \in {"submitting", "failed"}
  BY <1>1, <1>5 DEF Report, RecordSubmitted
<1>6. CASE UNCHANGED serverVars
  BY <1>6 DEF serverVars
<1> QED
  BY <1>2, <1>3, <1>4, <1>5, <1>6

-----------------------------------------------------------------------------
(* The invariant of the protocol.                                          *)

(* The executors start idle, on empty tables.                              *)
LEMMA ProtocolInitIInv == ProtocolInit => ProtocolIInv
<1> SUFFICES ASSUME ProtocolInit PROVE ProtocolIInv
  OBVIOUS
<1>1. ServerIInv
  BY ServerInitIInv DEF ProtocolInit
<1>2. ProtocolTypeOK
  BY <1>1 DEF ProtocolInit, ProtocolTypeOK, ServerIInv, TypeOK, ExecutorSteps, Pages
<1>3. ClickedAtMostOnce /\ SubmitStepsAreApproved /\ OneSubmitter
  BY DEF ProtocolInit, ClickedAtMostOnce, SubmitStepsAreApproved, OneSubmitter, SubmitSteps
<1> QED
  BY <1>1, <1>2, <1>3 DEF ProtocolIInv

(* A step of executor e.  The three conjuncts about the click rest on what *)
(* StepShape says of e and on the statuses the run can still take.         *)
LEMMA ExecutorStepKeepsIInv ==
    ASSUME ProtocolIInv, NEW e \in Executors, ExecutorStep(e) \/ Restart(e)
    PROVE  ProtocolIInv'
<1> USE DEF ProtocolIInv
<1>1. StepShape(e)
  BY ExecutorStepShape DEF ProtocolTypeOK, TaskOK
<1>2. [ServerNext]_serverVars
  BY <1>1, RequestsAreServerSteps DEF StepShape
<1>3. ServerIInv'
  BY <1>2, ServerStepKeepsIInv
<1>4. ProtocolTypeOK'
  BY <1>1, <1>3, WindowTypeKept, TodoTypeKept, ClicksTypeKept
     DEF ProtocolTypeOK, StepShape, TaskOK, ServerIInv, TypeOK
<1>5. \A f \in Executors : pc[f] # "idle" => cur[f] \in Runs
  BY DEF ProtocolTypeOK
<1>6. approvedAt \subseteq approvedAt'
  BY <1>2 DEF ServerNext, UserRequest, ExecutorRequest, Enqueue, Approve, Resume, Cancel,
              TransitionApplication, MarkSubmitted, MergeDuplicates, runVars, Claim, Report,
              RecordSubmitted, RunAges, serverVars
<1>7. ClickedAtMostOnce'
  <2>1. CASE UNCHANGED clicks
    <3> SUFFICES ASSUME NEW r \in Runs, clicks[r] = 1
                 PROVE  runStatus'[r] \in PastApproval
      BY <2>1 DEF ClickedAtMostOnce, PastApproval
    <3>1. runStatus[r] \in PastApproval
      BY DEF ClickedAtMostOnce, PastApproval
    <3> QED
      BY <1>2, <3>1, PastApprovalKept
  <2>2. CASE /\ pc[e] = "click"
             /\ clicks' = [clicks EXCEPT ![cur[e]] = @ + 1]
             /\ UNCHANGED serverVars
    <3>1. cur[e] \in Runs /\ clicks[cur[e]] = 0
      BY <1>5, <2>2 DEF OneSubmitter
    <3>2. runStatus[cur[e]] \in {"submitting", "failed"}
      BY <2>2 DEF SubmitStepsAreApproved, SubmitSteps
    <3>3. UNCHANGED runStatus
      BY <2>2 DEF serverVars
    <3> QED
      BY <2>2, <3>1, <3>2, <3>3 DEF ClickedAtMostOnce, ProtocolTypeOK
  <2> QED
    BY <1>1, <2>1, <2>2 DEF StepShape, ClicksOnlyAtClick
<1>8. ASSUME NEW f \in Executors, pc'[f] \in SubmitSteps
      PROVE  \/ pc[f] \in SubmitSteps /\ cur'[f] = cur[f] /\ (pc'[f] = "click" => pc[f] = "click")
             \/ f = e /\ cur'[e] \in Runs /\ runStatus[cur'[e]] = "approved" /\ Claim(cur'[e])
  BY <1>1, <1>8 DEF StepShape, OthersKeepTheirTask, EntersSubmitByClaim
<1>9. SubmitStepsAreApproved'
  <2> SUFFICES ASSUME NEW f \in Executors, pc'[f] \in SubmitSteps
               PROVE  /\ cur'[f] \in approvedAt'
                      /\ runStatus'[cur'[f]] \in {"submitting", "failed"}
    BY DEF SubmitStepsAreApproved
  <2>1. CASE pc[f] \in SubmitSteps /\ cur'[f] = cur[f]
    <3> DEFINE r == cur[f]
    <3>1. r \in Runs /\ r \in approvedAt /\ runStatus[r] \in {"submitting", "failed"}
      BY <1>5, <2>1 DEF SubmitStepsAreApproved, SubmitSteps
    <3>2. ASSUME NEW q \in Runs, HandsOver(e, q) PROVE q # r
      <4>1. pc[e] \in SubmitSteps /\ pc'[e] \notin SubmitSteps /\ cur[e] = q
        BY <3>2 DEF HandsOver
      <4>2. e # f
        BY <4>1
      <4> QED
        BY <2>1, <4>1, <4>2 DEF OneSubmitter
    <3>3. runStatus'[r] \in {"submitting", "failed"}
      BY <1>1, <3>1, <3>2, SubmittingKept DEF StepShape, RequestsOf, HandsOver
    <3> QED
      BY <1>6, <2>1, <3>1, <3>3
  <2>2. CASE f = e /\ cur'[e] \in Runs /\ runStatus[cur'[e]] = "approved" /\ Claim(cur'[e])
    BY <1>6, <2>2 DEF Claim, SetStatus, ServerIInv, TypeOK, ServerTypeOK, ApprovalComesFirst
  <2> QED
    BY <1>8, <2>1, <2>2
<1>10. OneSubmitter'
  <2>1. ASSUME NEW f \in Executors, pc'[f] = "click" PROVE clicks'[cur'[f]] = 0
    <3>1. CASE pc[f] = "click" /\ cur'[f] = cur[f]
      <4>1. clicks[cur[f]] = 0 /\ cur[f] \in Runs
        BY <1>5, <3>1 DEF OneSubmitter
      <4>2. ASSUME pc[e] = "click", pc'[e] # "click" PROVE cur[e] # cur[f]
        BY <2>1, <3>1, <4>2 DEF OneSubmitter, SubmitSteps
      <4> QED
        BY <1>1, <3>1, <4>1, <4>2 DEF StepShape, ClicksOnlyAtClick, ProtocolTypeOK
    <3>2. CASE f = e /\ cur'[e] \in Runs /\ runStatus[cur'[e]] = "approved" /\ Claim(cur'[e])
      <4>1. \A q \in Runs : runStatus[q] = "approved" => clicks[q] = 0
        <5> TAKE q \in Runs
        <5> HAVE runStatus[q] = "approved"
        <5>1. clicks[q] \in Nat /\ clicks[q] <= 1 /\ clicks[q] # 1
          BY DEF ClickedAtMostOnce, ProtocolTypeOK
        <5> QED
          BY <5>1
      <4>2. pc[e] # "click" \/ UNCHANGED clicks
        BY <2>1, <3>2, <1>1 DEF StepShape, ClicksOnlyAtClick
      <4> QED
        BY <1>1, <2>1, <3>2, <4>1, <4>2 DEF StepShape, ClicksOnlyAtClick
    <3> QED
      BY <1>8, <2>1, <3>1, <3>2 DEF SubmitSteps
  <2>2. ASSUME NEW f \in Executors, NEW g \in Executors,
               pc'[f] \in SubmitSteps, pc'[g] \in SubmitSteps, cur'[f] = cur'[g]
        PROVE  f = g
    <3>1. ASSUME NEW h \in Executors, pc[h] \in SubmitSteps
          PROVE  runStatus[cur[h]] # "approved"
      BY <3>1 DEF SubmitStepsAreApproved
    <3> QED
      BY <1>8, <2>2, <3>1 DEF OneSubmitter
  <2> QED
    BY <2>1, <2>2 DEF OneSubmitter
<1> QED
  BY <1>3, <1>4, <1>7, <1>9, <1>10

(* The user's requests, and closing a window, leave every executor where   *)
(* it is.                                                                  *)
LEMMA OtherStepKeepsIInv ==
    ASSUME ProtocolIInv,
           \/ UserRequest /\ UNCHANGED <<executorVars, clicks, accepted>>
           \/ \E e \in Executors, r \in Runs : CloseWindow(e, r)
           \/ UNCHANGED protocolVars
    PROVE  ProtocolIInv'
<1> USE DEF ProtocolIInv
<1>1. UNCHANGED <<pc, cur, todo, clicks, accepted>> /\ (UserRequest \/ UNCHANGED serverVars)
  BY DEF CloseWindow, executorVars, protocolVars, serverVars
<1>2. [ServerNext]_serverVars
  BY <1>1 DEF ServerNext
<1>3. ServerIInv'
  BY <1>2, ServerStepKeepsIInv
<1>4. window' \in [Executors -> [Runs -> Pages]]
  BY DEF CloseWindow, SetPage, executorVars, protocolVars, ProtocolTypeOK, Pages
<1>5. ProtocolTypeOK'
  BY <1>1, <1>3, <1>4 DEF ProtocolTypeOK, ServerIInv, TypeOK
<1>6. approvedAt \subseteq approvedAt'
  BY <1>1 DEF UserRequest, Enqueue, Approve, Resume, Cancel, TransitionApplication,
              MarkSubmitted, MergeDuplicates, runVars, serverVars
<1>7. ClickedAtMostOnce'
  BY <1>1, <1>2, PastApprovalKept DEF ClickedAtMostOnce, PastApproval
<1>8. SubmitStepsAreApproved'
  <2> SUFFICES ASSUME NEW f \in Executors, pc[f] \in SubmitSteps
               PROVE  /\ cur[f] \in approvedAt'
                      /\ runStatus'[cur[f]] \in {"submitting", "failed"}
    BY <1>1 DEF SubmitStepsAreApproved
  <2>1. cur[f] \in Runs /\ cur[f] \in approvedAt /\ runStatus[cur[f]] \in {"submitting", "failed"}
    BY DEF SubmitStepsAreApproved, SubmitSteps, ProtocolTypeOK
  <2> QED
    BY <1>1, <1>6, <2>1, SubmittingKept
<1>9. OneSubmitter'
  BY <1>1 DEF OneSubmitter
<1> QED
  BY <1>3, <1>5, <1>7, <1>8, <1>9

(* The invariant holds in every reachable state of the protocol.           *)
THEOREM ProtocolInvariant == ProtocolSpec => []ProtocolIInv
<1>1. ProtocolIInv /\ [ProtocolNext]_protocolVars => ProtocolIInv'
  BY ExecutorStepKeepsIInv, OtherStepKeepsIInv DEF ProtocolNext, UninterruptedNext
<1> QED
  BY <1>1, ProtocolInitIInv, PTL DEF ProtocolSpec

(* The protocol keeps its types.                                           *)
THEOREM ProtocolTypeCorrect == ProtocolSpec => []ProtocolTypeOK
BY ProtocolInvariant, PTL DEF ProtocolIInv

(* handleApproved clicks Submit at most once per run, with any number of   *)
(* executors, lost requests and restarts, and never on a run that is not   *)
(* past its approval.                                                      *)
THEOREM ClickedAtMostOnceAlways == ProtocolSpec => []ClickedAtMostOnce
BY ProtocolInvariant, PTL DEF ProtocolIInv

(* Only an approved run reaches the steps around the click.                *)
THEOREM SubmitStepsAreApprovedAlways == ProtocolSpec => []SubmitStepsAreApproved
BY ProtocolInvariant, PTL DEF ProtocolIInv

(* The executors, the user and lost requests do nothing to the server that *)
(* ApplyRuns does not allow: the protocol implements ServerSpec, and every *)
(* property proved of the server holds in the protocol.                    *)
THEOREM ProtocolImplementsServer == ProtocolSpec => ServerSpec
<1>1. ProtocolInit => ServerInit
  BY DEF ProtocolInit
<1> QED
  BY <1>1, ProtocolStepIsServerStep, ProtocolTypeCorrect, PTL DEF ProtocolSpec, ServerSpec

-----------------------------------------------------------------------------
(* A receipt needs the employer's acceptance.                              *)

(* The script takes for a confirmation only what the employer showed after *)
(* it accepted.                                                            *)
SentIsAccepted ==
    \A e \in Executors, r \in Runs : window[e][r] = "sent" => r \in accepted

(* Only the click that the employer accepts makes a page a sent one.       *)
LEMMA SentIsAcceptedKept ==
    ASSUME ProtocolTypeOK, SentIsAccepted, [ProtocolNext]_protocolVars
    PROVE  SentIsAccepted'
<1>1. ASSUME UNCHANGED <<window, accepted>> PROVE SentIsAccepted'
  BY <1>1 DEF SentIsAccepted
<1>2. ASSUME NEW e \in Executors, NEW r \in Runs, NEW page \in Pages \ {"sent"},
             SetPage(e, r, page), UNCHANGED accepted
      PROVE  SentIsAccepted'
  BY <1>2 DEF SetPage, SentIsAccepted, ProtocolTypeOK
<1>3. ASSUME NEW e \in Executors, ExecutorStep(e) PROVE SentIsAccepted'
  <2>1. CASE \E r \in Runs : TakeQueued(e, r)
    BY <1>1, <1>2, <2>1 DEF TakeQueued, Pages
  <2>2. CASE ClickSubmit(e)
    <3>1. cur[e] \in Runs
      BY <2>2 DEF ClickSubmit, ProtocolTypeOK
    <3>2. CASE SetPage(e, cur[e], "sent") /\ accepted' = accepted \cup {cur[e]}
      BY <3>1, <3>2 DEF SetPage, SentIsAccepted, ProtocolTypeOK
    <3> QED
      BY <1>1, <2>2, <3>2 DEF ClickSubmit
  <2>3. CASE OpenPage(e) \/ PauseForReview(e) \/ NoSubmitButton(e) \/ NoEvidence(e)
               \/ RecordReceipt(e)
    <3>1. cur[e] \in Runs /\ UNCHANGED accepted
      BY <2>3 DEF OpenPage, PauseForReview, NoSubmitButton, NoEvidence, RecordReceipt,
                  ProtocolTypeOK
    <3>2. UNCHANGED window \/ \E page \in Pages \ {"sent"} : SetPage(e, cur[e], page)
      BY <2>3 DEF OpenPage, PauseForReview, NoSubmitButton, NoEvidence, RecordReceipt,
                  ProgressAndForget, Pages
    <3> QED
      BY <1>1, <1>2, <3>1, <3>2
  <2> QED
    BY <1>1, <1>3, <2>1, <2>2, <2>3
       DEF ExecutorStep, Poll, SkipDisallowed, LostPage, TakeApproved, FillRound, AskForInput,
           ReportClick, BrowserError, ReportFailure
<1>4. ASSUME NEW e \in Executors, NEW r \in Runs, CloseWindow(e, r) PROVE SentIsAccepted'
  BY <1>2, <1>4 DEF CloseWindow, Pages
<1>5. ASSUME NEW e \in Executors, Restart(e) PROVE SentIsAccepted'
  BY <1>5 DEF Restart, SentIsAccepted, ProtocolTypeOK
<1> QED
  BY <1>1, <1>3, <1>4, <1>5 DEF ProtocolNext, UninterruptedNext, protocolVars, executorVars

(* Every other step of an executor claims or reports, or asks nothing.     *)
LEMMA OnlyReceiptsRecord ==
    ASSUME TaskOK, NEW e \in Executors, ExecutorStep(e), ~RecordReceipt(e)
    PROVE  \/ UNCHANGED serverVars
           \/ \E r \in Runs : Claim(r) \/ \E s \in ReportStatus : Report(r, s)
<1>1. CASE \E r \in Runs : TakeQueued(e, r) \/ TakeApproved(e, r)
  BY <1>1 DEF TakeQueued, TakeApproved, ClaimOrFail
<1>2. CASE \/ \E r \in Runs, status \in {"queued", "approved"} : SkipDisallowed(e, r, status)
           \/ \E r \in Runs : LostPage(e, r)
  BY <1>2 DEF SkipDisallowed, TryReport, LostPage, ReportStatus
<1>3. CASE OpenPage(e) \/ FillRound(e) \/ AskForInput(e) \/ PauseForReview(e)
             \/ NoSubmitButton(e) \/ ReportClick(e) \/ NoEvidence(e)
  <2>1. cur[e] \in Runs
    BY <1>3 DEF OpenPage, FillRound, AskForInput, PauseForReview, NoSubmitButton,
                ReportClick, NoEvidence, TaskOK
  <2>2. \E s \in ReportStatus, step \in ExecutorSteps : Progress(e, s, step)
    BY <1>3 DEF OpenPage, FillRound, AskForInput, PauseForReview, NoSubmitButton,
                ReportClick, NoEvidence, ProgressAndForget, ReportStatus, ExecutorSteps
  <2> QED
    BY <2>1, <2>2 DEF Progress, Refused, LostRequest
<1>4. CASE ReportFailure(e)
  BY <1>4 DEF ReportFailure, TryReport, TaskOK, ReportStatus
<1>5. CASE Poll(e) \/ ClickSubmit(e) \/ BrowserError(e)
  BY <1>5 DEF Poll, ClickSubmit, BrowserError
<1> QED
  BY <1>1, <1>2, <1>3, <1>4, <1>5 DEF ExecutorStep

(* A run that is submitting becomes submitted by RecordReceipt only, and   *)
(* that looks at the page first.                                           *)
LEMMA ReceiptStep ==
    ASSUME ProtocolTypeOK, SentIsAccepted, [ProtocolNext]_protocolVars,
           NEW r \in Runs, runStatus[r] = "submitting", runStatus'[r] = "submitted"
    PROVE  r \in accepted
<1>1. ASSUME NEW e \in Executors, RecordReceipt(e) PROVE r \in accepted
  <2>1. cur[e] \in Runs /\ cur[e] \in accepted
    BY <1>1 DEF RecordReceipt, Page, SentIsAccepted, ProtocolTypeOK
  <2>2. r = cur[e]
    BY <1>1 DEF RecordReceipt, RecordSubmitted, SetStatus, Refused, LostRequest, serverVars,
                ProtocolTypeOK, ServerTypeOK
  <2> QED
    BY <2>1, <2>2
<1>2. ASSUME UNCHANGED serverVars PROVE FALSE
  BY <1>2 DEF serverVars
<1>3. ASSUME NEW q \in Runs, Claim(q) \/ \E s \in ReportStatus : Report(q, s) PROVE FALSE
  BY <1>3 DEF Claim, Report, ReportAccepted, MayMove, Moves, ReportTarget, ReportStatus,
              SetStatus, ProtocolTypeOK, ServerTypeOK
<1>4. ASSUME UserRequest PROVE FALSE
  BY <1>4 DEF UserRequest, Enqueue, Approve, Resume, Cancel, SetStatus, TransitionApplication,
              MarkSubmitted, MergeDuplicates, runVars, ProtocolTypeOK, ServerTypeOK
<1> QED
  BY <1>1, <1>2, <1>3, <1>4, OnlyReceiptsRecord
     DEF ProtocolNext, UninterruptedNext, Restart, CloseWindow, protocolVars, serverVars,
         ProtocolTypeOK, TaskOK

(* With any number of executors, a run is recorded as submitted only when  *)
(* the employer accepted it, unless the user vouches for it.               *)
THEOREM ReceiptOnlyAfterAcceptanceAlways == ProtocolSpec => ReceiptOnlyAfterAcceptance
<1> DEFINE Backed == \A r \in Runs : runStatus[r] = "submitting" /\ runStatus'[r] = "submitted"
                                        => r \in accepted
<1>1. ProtocolInit => SentIsAccepted
  BY DEF ProtocolInit, SentIsAccepted
<1>2. ProtocolTypeOK /\ SentIsAccepted /\ [ProtocolNext]_protocolVars => SentIsAccepted'
  BY SentIsAcceptedKept
<1>3. ProtocolTypeOK /\ SentIsAccepted /\ [ProtocolNext]_protocolVars => Backed
  BY ReceiptStep
<1> HIDE DEF Backed
<1>4. ProtocolSpec => [][Backed]_protocolVars
  BY <1>1, <1>2, <1>3, ProtocolTypeCorrect, PTL DEF ProtocolSpec
<1> QED
  BY <1>4 DEF ReceiptOnlyAfterAcceptance, Backed

-----------------------------------------------------------------------------
(* One executor alone keeps the promise of SubmissionGate.                 *)

(* What is true of the only executor.  It works on the run it claimed      *)
(* itself, so nobody but the user moves that run; a run it polled as       *)
(* queued is still queued unless cancelled, so that claiming it starts it  *)
(* and never spends its approval; and the page of a run that waits for     *)
(* review, approval or submission was shown or is gone.                    *)
PolledOnce(e) == \A r \in Runs : ~(<<r, "queued">> \in todo[e] /\ <<r, "approved">> \in todo[e])
PolledQueuedIsQueued(e) ==
    \A r \in Runs : <<r, "queued">> \in todo[e] => runStatus[r] \in {"queued", "cancelled"}
WorksOnItsRun(e) ==
    /\ pc[e] \in {"opening", "filling"} => runStatus[cur[e]] \in {"running", "cancelled"}
    /\ pc[e] = "click" => runStatus[cur[e]] = "submitting"

Reviewed == {"paused_for_review", "approved", "submitting"}

ReviewedPageWasShown(e) == \A r \in Runs : runStatus[r] \in Reviewed => window[e][r] # "open"

SoleIInv(e) ==
    /\ PolledOnce(e)
    /\ PolledQueuedIsQueued(e)
    /\ WorksOnItsRun(e)
    /\ ReviewedPageWasShown(e)

(* The hops of a run's status: by the user, by a report or a receipt of    *)
(* the executor, and by its claim.                                         *)
UserHops == {<<"absent", "queued">>, <<"awaiting_input", "queued">>,
             <<"paused_for_review", "approved">>}
            \cup {"queued", "running", "awaiting_input", "paused_for_review", "approved",
                  "needs_verification"} \X {"cancelled"}
ReportHops == {<<"running", "awaiting_input">>, <<"running", "paused_for_review">>,
               <<"submitting", "needs_verification">>, <<"submitting", "submitted">>,
               <<"needs_verification", "submitted">>}
              \cup {"running", "awaiting_input", "paused_for_review", "submitting"} \X {"failed"}
ClaimHops == {<<"queued", "running">>, <<"approved", "submitting">>}

(* At most one run changes, by one of these hops or not at all, and with   *)
(* it its page; a page becomes a shown one only when a running run pauses. *)
Hop(r, hops) ==
    \E t \in RunStatus \cup {"absent"} :
        /\ t = runStatus[r] \/ <<runStatus[r], t>> \in hops
        /\ SetStatus(r, t)
PageOnlyOf(e, r) ==
    /\ \A q \in Runs \ {r} : window'[e][q] = window[e][q]
    /\ window'[e][r] = "filled" => window[e][r] = "filled" \/ runStatus[r] = "running"
HopStep(e, r) ==
    /\ UNCHANGED clicks
    /\ Hop(r, UserHops \cup ReportHops \cup ClaimHops)
    /\ PageOnlyOf(e, r)

(* What a request does to the status of a run.                             *)
LEMMA UserHop ==
    ASSUME ServerTypeOK, UserRequest
    PROVE  UNCHANGED runStatus \/ \E r \in Runs : Hop(r, UserHops)
<1>1. ASSUME NEW r \in Runs, NEW t \in {"queued", "approved", "cancelled"},
             <<runStatus[r], t>> \in UserHops, SetStatus(r, t)
      PROVE  Hop(r, UserHops)
  BY <1>1 DEF Hop, RunStatus
<1>2. ASSUME NEW a \in Apps, NEW r \in Runs, Enqueue(a, r) PROVE Hop(r, UserHops)
  BY <1>1, <1>2 DEF Enqueue, UserHops
<1>3. ASSUME NEW r \in Runs, Approve(r) PROVE Hop(r, UserHops)
  <2>1. runStatus[r] = "paused_for_review"
    BY <1>3 DEF Approve, MayMove, Moves
  <2> QED
    BY <1>1, <1>3, <2>1 DEF Approve, UserHops
<1>4. ASSUME NEW r \in Runs, Resume(r) PROVE Hop(r, UserHops)
  <2>1. runStatus[r] = "awaiting_input"
    BY <1>4 DEF Resume, MayMove, Moves
  <2> QED
    BY <1>1, <1>4, <2>1 DEF Resume, UserHops
<1>5. ASSUME NEW r \in Runs, Cancel(r) PROVE Hop(r, UserHops)
  <2>1. runStatus[r] \in {"queued", "running", "awaiting_input", "paused_for_review",
                          "approved", "needs_verification"}
    BY <1>5 DEF Cancel, MayMove, Moves
  <2> QED
    BY <1>1, <1>5, <2>1 DEF Cancel, UserHops
<1> QED
  BY <1>2, <1>3, <1>4, <1>5
     DEF UserRequest, TransitionApplication, MarkSubmitted, MergeDuplicates, runVars

(* A report of the script either moves the run to the reported status or   *)
(* carries none.                                                           *)
LEMMA ReportHop ==
    ASSUME ServerTypeOK, NEW r \in Runs,
           NEW s \in ReportStatus \ {"running", "submitting"}, Report(r, s)
    PROVE  /\ Hop(r, ReportHops)
           /\ s = "none" => UNCHANGED runStatus
           /\ s # "none" => runStatus'[r] = s
<1> DEFINE t == ReportTarget(r, s)
<1>1. <<runStatus[r], t>> \in {<<m[1], m[2]>> : m \in {n \in Moves : n[3] = "executor"}}
  BY DEF Report, ReportAccepted, MayMove
<1>2. t = runStatus[r] \/ <<runStatus[r], t>> \in ReportHops
  BY DEF Report, ReportAccepted, MayMove, Moves, ReportHops, ReportTarget, ReportStatus
<1>3. t \in RunStatus \cup {"absent"}
  BY DEF ServerTypeOK, ReportTarget, ReportStatus, RunStatus
<1>4. SetStatus(r, t)
  BY DEF Report
<1>5. Hop(r, ReportHops)
  BY <1>2, <1>3, <1>4 DEF Hop
<1>6. runStatus' = [runStatus EXCEPT ![r] = t] /\ runStatus \in [Runs -> RunStatus \cup {"absent"}]
  BY <1>4 DEF SetStatus, ServerTypeOK
<1> QED
  BY <1>5, <1>6 DEF ReportTarget

(* Recording the receipt ends the run as submitted, or leaves it.          *)
LEMMA RecordHop ==
    ASSUME ServerTypeOK, NEW r \in Runs, RecordSubmitted(r, TRUE)
    PROVE  Hop(r, ReportHops) /\ runStatus'[r] \in {runStatus[r], "submitted"}
<1>1. runStatus[r] \in {"submitting", "needs_verification"}
  BY DEF RecordSubmitted, RecordAuthorised
<1>2. SetStatus(r, "submitted") \/ UNCHANGED runStatus
  BY DEF RecordSubmitted
<1> QED
  BY <1>1, <1>2 DEF Hop, ReportHops, RunStatus, SetStatus, ServerTypeOK

(* A claim starts a queued run and submits an approved one.                *)
LEMMA ClaimHop ==
    ASSUME ServerTypeOK, NEW r \in Runs, Claim(r)
    PROVE  /\ Hop(r, ClaimHops)
           /\ runStatus[r] = "queued" => runStatus'[r] = "running"
           /\ runStatus[r] = "approved" => runStatus'[r] = "submitting"
           /\ runStatus[r] \in {"queued", "approved"}
           /\ \A q \in Runs \ {r} : runStatus'[q] = runStatus[q]
<1> DEFINE t == IF runStatus[r] = "queued" THEN "running" ELSE "submitting"
<1>1. runStatus[r] \in {"queued", "approved"} /\ SetStatus(r, t)
  BY DEF Claim, Claimable
<1>2. <<runStatus[r], t>> \in ClaimHops /\ t \in RunStatus
  BY <1>1 DEF ClaimHops, RunStatus
<1>3. Hop(r, ClaimHops)
  BY <1>1, <1>2 DEF Hop
<1> QED
  BY <1>1, <1>3 DEF SetStatus, ServerTypeOK

(* A run may also stay as it is.                                           *)
LEMMA NoHop ==
    ASSUME ServerTypeOK, UNCHANGED runStatus, NEW r \in Runs, NEW hops
    PROVE  Hop(r, hops)
BY DEF Hop, SetStatus, ServerTypeOK

(* Hops into a larger set, and what they leave alone.                      *)
LEMMA HopWidens ==
    ASSUME NEW r \in Runs, NEW few, NEW many, few \subseteq many, Hop(r, few)
    PROVE  Hop(r, many)
BY DEF Hop

(* What a hop says of every run.                                           *)
LEMMA HopFacts ==
    ASSUME ServerTypeOK, NEW r \in Runs, NEW hops, Hop(r, hops)
    PROVE  /\ \A q \in Runs \ {r} : runStatus'[q] = runStatus[q]
           /\ runStatus'[r] = runStatus[r] \/ <<runStatus[r], runStatus'[r]>> \in hops
BY DEF Hop, SetStatus, ServerTypeOK

(* A step that claims nothing keeps the invariant of the sole executor, if *)
(* it enters none of the steps that need a claim and opens no page of a    *)
(* reviewed run.                                                           *)
LEMMA UnclaimedStep ==
    ASSUME ProtocolTypeOK, NEW e \in Executors, SoleIInv(e),
           NEW r \in Runs, Hop(r, UserHops \cup ReportHops), PageOnlyOf(e, r),
           UNCHANGED clicks,
           runStatus'[r] \in Reviewed => window'[e][r] # "open",
           todo'[e] \subseteq todo[e],
           pc'[e] \in {"opening", "filling", "click"} =>
              /\ cur'[e] = cur[e]
              /\ Hop(r, UserHops)
              /\ pc[e] \in {"opening", "filling", "click"}
              /\ pc'[e] = "click" <=> pc[e] = "click"
    PROVE  SoleIInv(e)' /\ HopStep(e, r)
<1> USE DEF SoleIInv
<1>1. ServerTypeOK
  BY DEF ProtocolTypeOK
<1>2. \A q \in Runs \ {r} : runStatus'[q] = runStatus[q]
  BY <1>1, HopFacts
<1>3. runStatus'[r] = runStatus[r] \/ <<runStatus[r], runStatus'[r]>> \in UserHops \cup ReportHops
  BY <1>1, HopFacts
<1>4. PolledOnce(e)'
  <2>1. PolledOnce(e) /\ todo'[e] \subseteq todo[e]
    OBVIOUS
  <2> QED
    BY ONLY <2>1, Zenon DEF PolledOnce
<1>5. PolledQueuedIsQueued(e)'
  <2>1. runStatus[r] \in {"queued", "cancelled"} => runStatus'[r] \in {"queued", "cancelled"}
    BY <1>3 DEF UserHops, ReportHops
  <2> QED
    BY <1>2, <2>1 DEF PolledQueuedIsQueued
<1>6. WorksOnItsRun(e)'
  <2> SUFFICES ASSUME pc'[e] \in {"opening", "filling", "click"} PROVE WorksOnItsRun(e)'
    BY DEF WorksOnItsRun
  <2>1. cur[e] \in Runs /\ cur'[e] = cur[e]
    BY DEF ProtocolTypeOK
  <2>2. runStatus'[r] = runStatus[r] \/ <<runStatus[r], runStatus'[r]>> \in UserHops
    BY <1>1, HopFacts
  <2>3. /\ runStatus[r] \in {"running", "cancelled"} => runStatus'[r] \in {"running", "cancelled"}
        /\ runStatus[r] = "submitting" => runStatus'[r] = "submitting"
    BY <2>2 DEF UserHops
  <2>4. /\ runStatus[cur[e]] \in {"running", "cancelled"}
              => runStatus'[cur[e]] \in {"running", "cancelled"}
        /\ runStatus[cur[e]] = "submitting" => runStatus'[cur[e]] = "submitting"
    BY <1>2, <2>1, <2>3
  <2>5. /\ pc[e] = "click" => runStatus[cur[e]] = "submitting"
        /\ pc[e] # "click" => runStatus[cur[e]] \in {"running", "cancelled"}
    BY DEF WorksOnItsRun
  <2> QED
    BY <2>1, <2>4, <2>5 DEF WorksOnItsRun
<1>7. ReviewedPageWasShown(e)'
  BY <1>2 DEF ReviewedPageWasShown, PageOnlyOf
<1>8. HopStep(e, r)
  BY HopWidens DEF HopStep
<1> QED
  BY <1>4, <1>5, <1>6, <1>7, <1>8

(* When no page changes, it is enough that no run starts its review.       *)
LEMMA SamePagesStep ==
    ASSUME ProtocolTypeOK, NEW e \in Executors, SoleIInv(e),
           NEW r \in Runs, Hop(r, UserHops \cup ReportHops), UNCHANGED <<window, clicks>>,
           runStatus'[r] = "paused_for_review" => runStatus[r] = "paused_for_review",
           todo'[e] \subseteq todo[e],
           pc'[e] \in {"opening", "filling", "click"} =>
              /\ cur'[e] = cur[e]
              /\ Hop(r, UserHops)
              /\ pc[e] \in {"opening", "filling", "click"}
              /\ pc'[e] = "click" <=> pc[e] = "click"
    PROVE  SoleIInv(e)' /\ HopStep(e, r)
<1>1. runStatus'[r] = runStatus[r] \/ <<runStatus[r], runStatus'[r]>> \in UserHops \cup ReportHops
  BY HopFacts DEF ProtocolTypeOK
<1>2. runStatus'[r] \in Reviewed => runStatus[r] \in Reviewed
  BY <1>1 DEF UserHops, ReportHops, Reviewed
<1>3. runStatus'[r] \in Reviewed => window'[e][r] # "open"
  BY <1>2 DEF SoleIInv, ReviewedPageWasShown
<1>4. PageOnlyOf(e, r)
  BY DEF PageOnlyOf
<1> QED
  BY <1>3, <1>4, UnclaimedStep

(* A message of the executor about a run, and what it may have done.       *)
LEMMA MessageHop ==
    ASSUME ProtocolTypeOK, NEW r \in Runs, NEW s \in ReportStatus \ {"running", "submitting"},
           Report(r, s) \/ UNCHANGED serverVars
    PROVE  /\ Hop(r, UserHops \cup ReportHops)
           /\ s = "none" => UNCHANGED runStatus
           /\ s # "none" => runStatus'[r] \in {runStatus[r], s}
<1>1. ServerTypeOK
  BY DEF ProtocolTypeOK
<1>2. CASE Report(r, s)
  BY <1>1, <1>2, ReportHop, HopWidens
<1>3. CASE UNCHANGED serverVars
  BY <1>1, <1>3, NoHop DEF serverVars
<1> QED
  BY <1>2, <1>3

(* Messages that leave the pages alone and after which the executor is     *)
(* idle, failing or past the click.                                        *)
LEMMA MessageStep ==
    ASSUME ProtocolTypeOK, NEW e \in Executors, SoleIInv(e),
           NEW r \in Runs, NEW s \in {"awaiting_input", "failed", "none"},
           Report(r, s) \/ UNCHANGED serverVars,
           UNCHANGED <<window, clicks>>, todo'[e] \subseteq todo[e],
           pc'[e] \notin {"opening", "filling", "click"}
    PROVE  SoleIInv(e)' /\ HopStep(e, r)
<1>1. s \in ReportStatus \ {"running", "submitting"}
  BY DEF ReportStatus
<1>2. /\ Hop(r, UserHops \cup ReportHops)
      /\ runStatus'[r] = "paused_for_review" => runStatus[r] = "paused_for_review"
  BY <1>1, MessageHop
<1> QED
  BY <1>2, SamePagesStep

(* What becomes of the gates in one step of the only executor.             *)
Unmoved(e) == UNCHANGED <<runStatus, clicks>> /\ window'[e] = window[e]
SoleStep(e) == SoleIInv(e)' /\ (Unmoved(e) \/ \E r \in Runs : HopStep(e, r))

(* A poll fills the snapshot with what is queued and approved now.         *)
LEMMA PollSole ==
    ASSUME ProtocolTypeOK, NEW e \in Executors, SoleIInv(e), Poll(e)
    PROVE  SoleStep(e)
<1>1. /\ UNCHANGED <<runStatus, pc, cur, window, clicks>>
      /\ pc[e] = "idle"
      /\ todo'[e] = Snapshot
  BY DEF Poll, serverVars, ProtocolTypeOK
<1>2. \A r \in Runs, status \in {"queued", "approved"} :
        <<r, status>> \in Snapshot => runStatus[r] = status
  BY DEF Snapshot
<1>3. PolledOnce(e)'
  <2>1. ASSUME NEW r \in Runs, <<r, "queued">> \in Snapshot, <<r, "approved">> \in Snapshot
        PROVE  FALSE
    <3>1. runStatus[r] = "queued" /\ runStatus[r] = "approved"
      BY <1>2, <2>1, Zenon
    <3> QED
      BY <3>1
  <2> QED
    BY <1>1, <2>1, Zenon DEF PolledOnce
<1>4. PolledQueuedIsQueued(e)'
  BY <1>1, <1>2 DEF PolledQueuedIsQueued
<1> QED
  BY <1>1, <1>3, <1>4 DEF SoleStep, SoleIInv, WorksOnItsRun, ReviewedPageWasShown, Unmoved

(* Runs that are given up without a claim.                                 *)
LEMMA GivenUpSole ==
    ASSUME ProtocolTypeOK, NEW e \in Executors, SoleIInv(e),
           \/ \E r \in Runs, status \in {"queued", "approved"} : SkipDisallowed(e, r, status)
           \/ \E r \in Runs : LostPage(e, r)
    PROVE  SoleStep(e)
<1>1. PICK r \in Runs, status \in {"queued", "approved"} :
        SkipDisallowed(e, r, status) \/ LostPage(e, r)
  OBVIOUS
<1>2. todo'[e] \subseteq todo[e] /\ UNCHANGED <<window, clicks>>
  BY <1>1 DEF SkipDisallowed, LostPage, TakeNext, ProtocolTypeOK
<1>3. Report(r, "failed") \/ UNCHANGED serverVars
  BY <1>1 DEF SkipDisallowed, LostPage, TryReport
<1>4. pc'[e] \in {"idle", "failing"}
  BY <1>1 DEF SkipDisallowed, LostPage, TakeNext, StartOn, ProtocolTypeOK
<1> QED
  BY <1>2, <1>3, <1>4, MessageStep DEF SoleStep

(* Messages after which nothing is claimed any more.                       *)
LEMMA MessageSole ==
    ASSUME ProtocolTypeOK, NEW e \in Executors, SoleIInv(e),
           AskForInput(e) \/ ReportClick(e) \/ BrowserError(e) \/ ReportFailure(e)
    PROVE  SoleStep(e)
<1>1. UNCHANGED <<window, clicks, todo>>
  BY DEF AskForInput, ReportClick, BrowserError, ReportFailure
<1>2. cur[e] \in Runs /\ pc[e] # "idle" /\ TaskOK
  BY DEF AskForInput, ReportClick, BrowserError, ReportFailure, ProtocolTypeOK, TaskOK
<1>3. \E s \in {"awaiting_input", "failed", "none"} : Report(cur[e], s) \/ UNCHANGED serverVars
  BY DEF AskForInput, ReportClick, BrowserError, ReportFailure, TryReport, Progress, Refused,
         LostRequest
<1>4. \E step \in {"idle", "confirming", "failing"} : GoTo(e, step)
  BY DEF AskForInput, ReportClick, BrowserError, ReportFailure, Progress, Answered, Refused,
         LostRequest, LostAnswer
<1>5. pc'[e] \in {"idle", "confirming", "failing"}
  BY <1>2, <1>4 DEF GoTo, TaskOK
<1> QED
  BY <1>1, <1>2, <1>3, <1>5, MessageStep DEF SoleStep

(* A round of the fill loop carries no status.                             *)
LEMMA FillRoundSole ==
    ASSUME ProtocolTypeOK, NEW e \in Executors, SoleIInv(e), FillRound(e)
    PROVE  SoleStep(e)
<1>1. UNCHANGED <<window, clicks, todo>> /\ pc[e] = "filling" /\ cur[e] \in Runs
  BY DEF FillRound, ProtocolTypeOK
<1>2. /\ pc'[e] \in {"filling", "failing"}
      /\ pc'[e] # "idle" => cur' = cur
      /\ Report(cur[e], "none") \/ UNCHANGED serverVars
  BY <1>1, ProgressShape DEF FillRound, ProtocolTypeOK, TaskOK, ExecutorSteps, ReportStatus
<1>3. UNCHANGED runStatus
  BY <1>1, <1>2, MessageHop DEF ReportStatus
<1>4. Hop(cur[e], UserHops) /\ Hop(cur[e], UserHops \cup ReportHops)
  BY <1>1, <1>3, NoHop DEF ProtocolTypeOK
<1> QED
  BY <1>1, <1>2, <1>3, <1>4, SamePagesStep DEF SoleStep

(* Navigating to the form opens the page of a run that is not yet under    *)
(* review.                                                                 *)
LEMMA OpenPageSole ==
    ASSUME ProtocolTypeOK, NEW e \in Executors, SoleIInv(e), OpenPage(e)
    PROVE  SoleStep(e)
<1> DEFINE r == cur[e]
<1>1. pc[e] = "opening" /\ r \in Runs /\ UNCHANGED <<clicks, todo>>
  BY DEF OpenPage, ProtocolTypeOK
<1>2. PICK step \in {"filling", "failing"} : Progress(e, "none", step)
  BY DEF OpenPage
<1>3. /\ pc'[e] \in {"filling", "failing"}
      /\ pc'[e] # "idle" => cur' = cur
      /\ Report(r, "none") \/ UNCHANGED serverVars
  BY <1>1, <1>2, ProgressShape DEF ProtocolTypeOK, TaskOK, ExecutorSteps, ReportStatus
<1>4. UNCHANGED runStatus
  BY <1>1, <1>3, MessageHop DEF ReportStatus
<1>5. Hop(r, UserHops) /\ Hop(r, UserHops \cup ReportHops)
  BY <1>1, <1>4, NoHop DEF ProtocolTypeOK
<1>6. runStatus'[r] \notin Reviewed
  BY <1>1, <1>4 DEF SoleIInv, WorksOnItsRun, Reviewed
<1>7. PageOnlyOf(e, r)
  BY <1>1 DEF OpenPage, SetPage, PageOnlyOf, ProtocolTypeOK
<1> QED
  BY <1>1, <1>3, <1>5, <1>6, <1>7, UnclaimedStep DEF SoleStep

(* Pausing shows the page of a run that was running.                       *)
LEMMA PauseSole ==
    ASSUME ProtocolTypeOK, NEW e \in Executors, SoleIInv(e), PauseForReview(e)
    PROVE  SoleStep(e)
<1> DEFINE r == cur[e]
<1>1. /\ pc[e] = "filling" /\ r \in Runs /\ UNCHANGED <<clicks, todo>>
      /\ Progress(e, "paused_for_review", "idle")
  BY DEF PauseForReview, ProtocolTypeOK
<1>2. /\ pc'[e] \in {"idle", "failing"}
      /\ Report(r, "paused_for_review") \/ UNCHANGED serverVars
  BY <1>1, ProgressShape DEF ProtocolTypeOK, TaskOK, ExecutorSteps, ReportStatus
<1>3. /\ Hop(r, UserHops \cup ReportHops)
      /\ runStatus'[r] \in {runStatus[r], "paused_for_review"}
  BY <1>1, <1>2, MessageHop DEF ReportStatus
<1>4. runStatus[r] \in {"running", "cancelled"}
  BY <1>1 DEF SoleIInv, WorksOnItsRun
<1>5. runStatus'[r] # runStatus[r] => runStatus[r] = "running"
  <2>1. ServerTypeOK
    BY DEF ProtocolTypeOK
  <2>2. runStatus'[r] = runStatus[r] \/ <<runStatus[r], runStatus'[r]>> \in UserHops \cup ReportHops
    BY <1>1, <1>3, <2>1, HopFacts
  <2> QED
    BY <1>4, <2>2 DEF UserHops, ReportHops
<1>6. runStatus'[r] \in Reviewed =>
        runStatus[r] = "running" /\ runStatus'[r] = "paused_for_review"
  BY <1>3, <1>4, <1>5 DEF Reviewed
<1>7. CASE runStatus'[r] = "paused_for_review" /\ Page(e) = "open"
  <2>1. window' = [window EXCEPT ![e][r] = "filled"]
    BY <1>7 DEF PauseForReview, SetPage
  <2>2. window'[e][r] = "filled" /\ \A q \in Runs \ {r} : window'[e][q] = window[e][q]
    BY <1>1, <2>1 DEF ProtocolTypeOK
  <2>3. PageOnlyOf(e, r)
    BY <1>6, <1>7, <2>2 DEF PageOnlyOf, Reviewed
  <2> QED
    BY <1>1, <1>2, <1>3, <2>2, <2>3, UnclaimedStep DEF SoleStep
<1>8. CASE ~(runStatus'[r] = "paused_for_review" /\ Page(e) = "open")
  <2>1. UNCHANGED window
    BY <1>8 DEF PauseForReview
  <2>2. runStatus'[r] \in Reviewed => window'[e][r] # "open"
    BY <1>6, <1>8, <2>1 DEF Page
  <2>3. PageOnlyOf(e, r)
    BY <2>1 DEF PageOnlyOf
  <2> QED
    BY <1>1, <1>2, <1>3, <2>2, <2>3, UnclaimedStep DEF SoleStep
<1> QED
  BY <1>7, <1>8

(* Handing over and recording forget the page, or leave it.                *)
LEMMA HandOverSole ==
    ASSUME ProtocolTypeOK, NEW e \in Executors, SoleIInv(e),
           NoSubmitButton(e) \/ NoEvidence(e) \/ RecordReceipt(e)
    PROVE  SoleStep(e)
<1> DEFINE r == cur[e]
<1>1. /\ pc[e] \in {"click", "confirming"} /\ r \in Runs /\ TaskOK
      /\ UNCHANGED <<clicks, todo>>
  BY DEF NoSubmitButton, NoEvidence, RecordReceipt, ProtocolTypeOK, TaskOK
<1>2. SetPage(e, r, "none") \/ UNCHANGED window
  BY DEF NoSubmitButton, NoEvidence, RecordReceipt, ProgressAndForget
<1>3. PageOnlyOf(e, r) /\ (window'[e][r] = "open" => window[e][r] = "open")
  BY <1>1, <1>2 DEF SetPage, PageOnlyOf, ProtocolTypeOK
<1>4. \E step \in {"idle", "failing"} : GoTo(e, step)
  BY DEF NoSubmitButton, NoEvidence, RecordReceipt, ProgressAndForget, Progress, Answered,
         Refused, LostRequest, LostAnswer
<1>5. pc'[e] \in {"idle", "failing"}
  BY <1>1, <1>4 DEF GoTo, TaskOK
<1>6. \/ Report(r, "needs_verification") \/ UNCHANGED serverVars
      \/ RecordSubmitted(r, TRUE)
  BY DEF NoSubmitButton, NoEvidence, RecordReceipt, ProgressAndForget, Progress, Refused,
         LostRequest
<1>7. Hop(r, ReportHops)
  BY <1>1, <1>6, ReportHop, RecordHop, NoHop DEF ProtocolTypeOK, ReportStatus, serverVars
<1>8. Hop(r, UserHops \cup ReportHops)
  BY <1>1, <1>7, HopWidens
<1>9. runStatus'[r] \in {runStatus[r], "needs_verification", "submitted"}
  BY <1>1, <1>6, ReportHop, RecordHop DEF ProtocolTypeOK, ReportStatus, serverVars
<1>10. runStatus'[r] \in Reviewed => window'[e][r] # "open"
  BY <1>1, <1>3, <1>9 DEF SoleIInv, ReviewedPageWasShown, Reviewed
<1> QED
  BY <1>1, <1>3, <1>5, <1>8, <1>10, UnclaimedStep DEF SoleStep

(* The claims.  A run polled as queued is queued when it is claimed, so    *)
(* the claim starts it; a run that was approved is claimed for the click.  *)
LEMMA TakeQueuedSole ==
    ASSUME ProtocolTypeOK, NEW e \in Executors, SoleIInv(e), NEW r \in Runs, TakeQueued(e, r)
    PROVE  SoleStep(e)
<1>1. /\ UNCHANGED clicks
      /\ todo'[e] = todo[e] \ {<<r, "queued">>}
      /\ <<r, "queued">> \in todo[e]
  BY DEF TakeQueued, TakeNext, ProtocolTypeOK
<1>2. PICK step \in {"opening", "filling"} : ClaimOrFail(e, r, step)
  BY DEF TakeQueued
<1>3. /\ pc'[e] \in {step, "failing"} /\ cur'[e] = r
      /\ pc'[e] # "failing" => Claim(r)
      /\ Claim(r) \/ UNCHANGED serverVars
  BY <1>2, ClaimShape DEF ProtocolTypeOK, TaskOK, ExecutorSteps
<1>4. runStatus[r] \in {"queued", "cancelled"}
  BY <1>1 DEF SoleIInv, PolledQueuedIsQueued
<1>5. /\ Hop(r, ClaimHops)
      /\ runStatus'[r] \in {runStatus[r], "running"}
      /\ Claim(r) => runStatus'[r] = "running"
      /\ \A q \in Runs \ {r} : runStatus'[q] = runStatus[q]
  BY <1>3, <1>4, ClaimHop, NoHop DEF ProtocolTypeOK, serverVars
<1>6. /\ \A q \in Runs \ {r} : window'[e][q] = window[e][q]
      /\ window'[e][r] = window[e][r] \/ window'[e][r] = "blank"
  BY DEF TakeQueued, SetPage, ProtocolTypeOK
<1>7. HopStep(e, r)
  <2>1. Hop(r, UserHops \cup ReportHops \cup ClaimHops)
    BY <1>5, HopWidens
  <2> QED
    BY <1>1, <1>6, <2>1 DEF HopStep, PageOnlyOf
<1>8. PolledOnce(e)'
  <2>1. PolledOnce(e) /\ todo'[e] \subseteq todo[e]
    BY <1>1 DEF SoleIInv
  <2> QED
    BY <2>1, Zenon DEF PolledOnce
<1>9. PolledQueuedIsQueued(e)'
  <2> SUFFICES ASSUME NEW q \in Runs, <<q, "queued">> \in todo'[e]
               PROVE  runStatus'[q] \in {"queued", "cancelled"}
    BY DEF PolledQueuedIsQueued
  <2>1. <<q, "queued">> \in todo[e] /\ q # r
    BY <1>1
  <2> QED
    BY <1>5, <2>1 DEF SoleIInv, PolledQueuedIsQueued
<1>10. WorksOnItsRun(e)'
  BY <1>3, <1>5 DEF WorksOnItsRun
<1>11. ReviewedPageWasShown(e)'
  <2>1. runStatus'[r] \notin Reviewed
    BY <1>4, <1>5 DEF Reviewed
  <2> QED
    BY <1>5, <1>6, <2>1 DEF SoleIInv, ReviewedPageWasShown
<1> QED
  BY <1>7, <1>8, <1>9, <1>10, <1>11 DEF SoleStep, SoleIInv

(* The claim for the click: the run was polled as approved, so it was not  *)
(* polled as queued too.                                                   *)
LEMMA TakeApprovedSole ==
    ASSUME ProtocolTypeOK, NEW e \in Executors, SoleIInv(e), NEW r \in Runs, TakeApproved(e, r)
    PROVE  SoleStep(e)
<1>1. /\ UNCHANGED <<window, clicks>>
      /\ todo'[e] = todo[e] \ {<<r, "approved">>}
      /\ <<r, "approved">> \in todo[e]
  BY DEF TakeApproved, TakeNext, ProtocolTypeOK
<1>2. PICK step \in {"click", "failing"} :
        /\ step = "click" => runStatus[r] = "approved"
        /\ ClaimOrFail(e, r, step)
  BY DEF TakeApproved
<1>3. /\ pc'[e] \in {step, "failing"} /\ cur'[e] = r
      /\ pc'[e] # "failing" => Claim(r)
      /\ Claim(r) \/ UNCHANGED serverVars
  BY <1>2, ClaimShape DEF ProtocolTypeOK, TaskOK, ExecutorSteps
<1>4. <<r, "queued">> \notin todo[e]
  BY <1>1, Zenon DEF SoleIInv, PolledOnce
<1>5. /\ Hop(r, ClaimHops)
      /\ Claim(r) /\ runStatus[r] = "approved" => runStatus'[r] = "submitting"
      /\ \A q \in Runs \ {r} : runStatus'[q] = runStatus[q]
      /\ runStatus'[r] \in Reviewed => runStatus[r] \in Reviewed
  BY <1>3, ClaimHop, NoHop DEF ProtocolTypeOK, serverVars, Reviewed
<1>6. HopStep(e, r)
  <2>1. Hop(r, UserHops \cup ReportHops \cup ClaimHops)
    BY <1>5, HopWidens
  <2> QED
    BY <1>1, <2>1 DEF HopStep, PageOnlyOf
<1>7. PolledOnce(e)'
  <2>1. PolledOnce(e) /\ todo'[e] \subseteq todo[e]
    BY <1>1 DEF SoleIInv
  <2> QED
    BY <2>1, Zenon DEF PolledOnce
<1>8. PolledQueuedIsQueued(e)'
  <2> SUFFICES ASSUME NEW q \in Runs, <<q, "queued">> \in todo'[e]
               PROVE  runStatus'[q] \in {"queued", "cancelled"}
    BY DEF PolledQueuedIsQueued
  <2>1. <<q, "queued">> \in todo[e] /\ q # r
    BY <1>1, <1>4
  <2> QED
    BY <1>5, <2>1 DEF SoleIInv, PolledQueuedIsQueued
<1>9. WorksOnItsRun(e)'
  BY <1>2, <1>3, <1>5 DEF WorksOnItsRun
<1>10. ReviewedPageWasShown(e)'
  BY <1>1, <1>5 DEF SoleIInv, ReviewedPageWasShown
<1> QED
  BY <1>6, <1>7, <1>8, <1>9, <1>10 DEF SoleStep, SoleIInv

(* Around the executor: the user, and the windows the user closes.         *)
LEMMA UserSole ==
    ASSUME ProtocolTypeOK, NEW e \in Executors, SoleIInv(e),
           UserRequest, UNCHANGED <<executorVars, clicks>>
    PROVE  SoleStep(e)
<1>1. UNCHANGED <<pc, cur, todo, window, clicks>>
  BY DEF executorVars
<1>2. CASE UNCHANGED runStatus
  BY <1>1, <1>2 DEF SoleStep, Unmoved, SoleIInv, PolledOnce, PolledQueuedIsQueued,
                    WorksOnItsRun, ReviewedPageWasShown
<1>3. ASSUME NEW r \in Runs, Hop(r, UserHops) PROVE SoleStep(e)
  <2>1. Hop(r, UserHops \cup ReportHops)
    BY <1>3, HopWidens
  <2>2. runStatus'[r] = "paused_for_review" => runStatus[r] = "paused_for_review"
    <3>1. runStatus'[r] = runStatus[r] \/ <<runStatus[r], runStatus'[r]>> \in UserHops
      BY <1>3, HopFacts DEF ProtocolTypeOK
    <3> QED
      BY <3>1 DEF UserHops
  <2> QED
    BY <1>1, <1>3, <2>1, <2>2, SamePagesStep DEF SoleStep
<1> QED
  BY <1>2, <1>3, UserHop DEF ProtocolTypeOK

(* A closed window shows nothing.                                          *)
LEMMA CloseWindowSole ==
    ASSUME ProtocolTypeOK, NEW e \in Executors, SoleIInv(e), NEW r \in Runs, CloseWindow(e, r)
    PROVE  SoleStep(e)
<1>1. UNCHANGED <<pc, cur, todo, clicks, runStatus>>
  BY DEF CloseWindow, serverVars
<1>2. /\ window'[e][r] = "closed"
      /\ \A q \in Runs \ {r} : window'[e][q] = window[e][q]
  BY DEF CloseWindow, SetPage, ProtocolTypeOK
<1>3. Hop(r, UserHops) /\ Hop(r, UserHops \cup ReportHops)
  BY <1>1, NoHop DEF ProtocolTypeOK
<1>4. PageOnlyOf(e, r)
  BY <1>2 DEF PageOnlyOf
<1> QED
  BY <1>1, <1>2, <1>3, <1>4, UnclaimedStep DEF SoleStep

(* The click moves no run.                                                 *)
LEMMA ClickSole ==
    ASSUME ProtocolTypeOK, NEW e \in Executors, SoleIInv(e), ClickSubmit(e)
    PROVE  SoleIInv(e)'
<1>1. UNCHANGED <<runStatus, todo, cur>> /\ cur[e] \in Runs /\ TaskOK
  BY DEF ClickSubmit, GoTo, serverVars, ProtocolTypeOK, TaskOK
<1>2. pc'[e] \in {"clicked", "failing"}
  BY <1>1 DEF ClickSubmit, GoTo, TaskOK
<1>3. \A r \in Runs : window'[e][r] \in {window[e][r], "sent"}
  BY <1>1 DEF ClickSubmit, SetPage, ProtocolTypeOK
<1> QED
  BY <1>1, <1>2, <1>3 DEF SoleIInv, PolledOnce, PolledQueuedIsQueued, WorksOnItsRun,
                          ReviewedPageWasShown

(* A restart forgets the snapshot and every page.                          *)
LEMMA RestartSole ==
    ASSUME ProtocolTypeOK, NEW e \in Executors, SoleIInv(e), Restart(e)
    PROVE  SoleIInv(e)'
<1>1. /\ pc'[e] = "idle" /\ todo'[e] = {}
      /\ \A r \in Runs : window'[e][r] = "none"
  BY DEF Restart, GoTo, ProtocolTypeOK
<1> QED
  BY <1>1 DEF SoleIInv, PolledOnce, PolledQueuedIsQueued, WorksOnItsRun, ReviewedPageWasShown

(* Every step of the protocol, when e is the only executor.                *)
LEMMA SoleExecutorStep ==
    ASSUME NEW e, Executors = {e}, ProtocolTypeOK, SoleIInv(e), [ProtocolNext]_protocolVars
    PROVE  \/ SoleStep(e)
           \/ SoleIInv(e)' /\ (ClickSubmit(e) \/ Restart(e))
<1>1. e \in Executors
  OBVIOUS
<1>2. CASE ExecutorStep(e)
  BY <1>1, <1>2, PollSole, GivenUpSole, MessageSole, FillRoundSole, OpenPageSole, PauseSole,
     HandOverSole, TakeQueuedSole, TakeApprovedSole, ClickSole DEF ExecutorStep
<1>3. CASE UserRequest /\ UNCHANGED <<executorVars, clicks, accepted>>
  BY <1>1, <1>3, UserSole
<1>4. CASE \E r \in Runs : CloseWindow(e, r)
  BY <1>1, <1>4, CloseWindowSole
<1>5. CASE Restart(e)
  BY <1>1, <1>5, RestartSole
<1>6. CASE UNCHANGED protocolVars
  BY <1>6 DEF protocolVars, SoleStep, Unmoved, SoleIInv, PolledOnce, PolledQueuedIsQueued,
              WorksOnItsRun, ReviewedPageWasShown
<1> QED
  BY <1>2, <1>3, <1>4, <1>5, <1>6 DEF ProtocolNext, UninterruptedNext

(* The gate of a run, when e is the only executor.                         *)
GateOf(e, r) ==
    IF clicks[r] > 0 THEN Gate!Clicked
    ELSE IF runStatus[r] \in {"absent", "queued", "running", "awaiting_input"} THEN Gate!Closed
    ELSE IF runStatus[r] \in Reviewed /\ window[e][r] = "filled"
      THEN IF runStatus[r] = "paused_for_review" THEN Gate!Shown(e) ELSE Gate!Consented(e)
    ELSE Gate!Withdrawn

(* With one executor there is one page that can show a run.                *)
LEMMA GateOfSole ==
    ASSUME NEW CONSTANT e, Executors = {e}
    PROVE  gateOf = [r \in Runs |-> GateOf(e, r)] /\ gateOf' = [r \in Runs |-> GateOf(e, r)']
<1>1. gateOf = [r \in Runs |-> GateOf(e, r)]
  <2> SUFFICES ASSUME NEW r \in Runs PROVE gateOf[r] = GateOf(e, r)
    BY DEF gateOf
  <2> DEFINE shower == CHOOSE x \in Executors : ShowsForm(x, r)
  <2>1. (\E x \in Executors : ShowsForm(x, r)) <=> window[e][r] = "filled"
    BY DEF ShowsForm
  <2>2. (\E x \in Executors : ShowsForm(x, r)) => shower \in Executors
    BY Zenon
  <2>3. window[e][r] = "filled" => shower = e
    BY <2>1, <2>2
  <2> QED
    BY <2>1, <2>3 DEF gateOf, GateOf, Reviewed, Gate!Clicked, Gate!Closed, Gate!Shown,
                      Gate!Consented, Gate!Withdrawn
<1>2. (gateOf = [r \in Runs |-> GateOf(e, r)])'
  BY <1>1, PTL
<1> QED
  BY <1>1, <1>2

(* A hop of one run is a step of the gates, or none.                       *)
LEMMA HopMovesGate ==
    ASSUME NEW e, Executors = {e}, ProtocolTypeOK, NEW r \in Runs, HopStep(e, r)
    PROVE  [Gate!GateNext]_gateOf
<1> DEFINE g == GateOf(e, r)
           h == GateOf(e, r)'
<1>1. ServerTypeOK
  BY DEF ProtocolTypeOK
<1>2. \A q \in Runs \ {r} : runStatus'[q] = runStatus[q] /\ window'[e][q] = window[e][q]
  BY <1>1, HopFacts DEF HopStep, PageOnlyOf
<1>3. clicks' = clicks
  BY DEF HopStep
<1>4. gateOf' = [gateOf EXCEPT ![r] = h] /\ gateOf[r] = g
  <2>1. \A q \in Runs \ {r} : GateOf(e, q)' = GateOf(e, q)
    BY <1>2, <1>3 DEF GateOf
  <2> QED
    BY <2>1, GateOfSole
<1>5. \/ h = g
      \/ g = Gate!Closed /\ h = Gate!Shown(e)
      \/ g = Gate!Shown(e) /\ h = Gate!Consented(e)
      \/ g # Gate!Clicked /\ h = Gate!Withdrawn
  <2>1. CASE clicks[r] > 0
    BY <1>3, <2>1 DEF GateOf
  <2> SUFFICES ASSUME ~(clicks[r] > 0)
               PROVE  \/ h = g
                      \/ g = Gate!Closed /\ h = Gate!Shown(e)
                      \/ g = Gate!Shown(e) /\ h = Gate!Consented(e)
                      \/ g # Gate!Clicked /\ h = Gate!Withdrawn
    BY <2>1
  <2> DEFINE s == runStatus[r]
             t == runStatus'[r]
             early == {"absent", "queued", "running", "awaiting_input"}
  <2>2. g # Gate!Clicked
    BY DEF GateOf, Gate!Clicked, Gate!Closed, Gate!Shown, Gate!Consented, Gate!Withdrawn
  <2>3. t = s \/ <<s, t>> \in UserHops \cup ReportHops \cup ClaimHops
    BY <1>1, HopFacts DEF HopStep
  <2>4. /\ t \in early => s \in early
        /\ t \in {"approved", "submitting"} => s \in Reviewed
        /\ t = "paused_for_review" => s \in early \cup {"paused_for_review"}
        /\ s \in {"approved", "submitting"} /\ t \in Reviewed => t # "paused_for_review"
    BY <2>3 DEF UserHops, ReportHops, ClaimHops, Reviewed
  <2>5. window'[e][r] = "filled" => window[e][r] = "filled" \/ s = "running"
    BY DEF HopStep, PageOnlyOf
  <2>6. CASE t \in early
    BY <1>3, <2>4, <2>6 DEF GateOf
  <2>7. CASE t \notin early /\ ~(t \in Reviewed /\ window'[e][r] = "filled")
    BY <1>3, <2>2, <2>7 DEF GateOf
  <2>8. CASE t = "paused_for_review" /\ window'[e][r] = "filled"
    BY <1>3, <2>4, <2>5, <2>8 DEF GateOf, Reviewed
  <2>9. CASE t \in {"approved", "submitting"} /\ window'[e][r] = "filled"
    BY <1>3, <2>4, <2>5, <2>9 DEF GateOf, Reviewed
  <2> QED
    BY <2>6, <2>7, <2>8, <2>9 DEF Reviewed
<1>6. CASE h = g
  BY <1>4, <1>6, GateOfSole
<1>7. CASE g = Gate!Closed /\ h = Gate!Shown(e)
  BY <1>4, <1>7 DEF Gate!GateNext, Gate!Show
<1>8. CASE g = Gate!Shown(e) /\ h = Gate!Consented(e)
  BY <1>4, <1>8 DEF Gate!GateNext, Gate!Consent
<1>9. CASE g # Gate!Clicked /\ h = Gate!Withdrawn
  <2>1. gateOf' = [q \in Runs |-> IF q \in {r} THEN Gate!Withdrawn ELSE gateOf[q]]
    BY <1>4, <1>9, GateOfSole
  <2>2. Gate!Withdraw({r})
    BY <1>4, <1>9, <2>1 DEF Gate!Withdraw
  <2> QED
    BY <2>2 DEF Gate!GateNext
<1> QED
  BY <1>5, <1>6, <1>7, <1>8, <1>9

(* The only executor clicks an approved run on the page that was shown.    *)
LEMMA SoleClick ==
    ASSUME NEW e \in Executors, ProtocolIInv, SoleIInv(e), pc[e] = "click",
           Page(e) \in {"open", "filled"}
    PROVE  /\ cur[e] \in Runs
           /\ clicks[cur[e]] = 0
           /\ runStatus[cur[e]] = "submitting"
           /\ cur[e] \in approvalToken
           /\ window[e][cur[e]] = "filled"
<1>1. cur[e] \in Runs /\ clicks[cur[e]] = 0
  BY DEF ProtocolIInv, ProtocolTypeOK, OneSubmitter
<1>2. runStatus[cur[e]] = "submitting"
  BY DEF SoleIInv, WorksOnItsRun
<1>3. cur[e] \in approvalToken
  BY <1>1, <1>2 DEF ProtocolIInv, ServerIInv, TokenFollowsApproval
<1>4. window[e][cur[e]] = "filled"
  BY <1>1, <1>2 DEF SoleIInv, ReviewedPageWasShown, Reviewed, Page
<1> QED
  BY <1>1, <1>2, <1>3, <1>4

(* So its click uses the consent up.                                       *)
LEMMA ClickMovesGate ==
    ASSUME NEW e, Executors = {e}, ProtocolIInv, SoleIInv(e), ClickSubmit(e)
    PROVE  Gate!GateNext
<1>1. PICK r \in Runs : /\ r = cur[e] /\ clicks[r] = 0 /\ runStatus[r] = "submitting"
                      /\ window[e][r] = "filled"
  BY SoleClick DEF ClickSubmit
<1>2. /\ clicks' = [clicks EXCEPT ![r] = @ + 1] /\ UNCHANGED runStatus
      /\ SetPage(e, r, "sent") \/ UNCHANGED window
  BY <1>1 DEF ClickSubmit, serverVars
<1>3. \A q \in Runs \ {r} : window'[e][q] = window[e][q] /\ clicks'[q] = clicks[q]
  BY <1>1, <1>2 DEF SetPage, ProtocolIInv, ProtocolTypeOK
<1>4. clicks'[r] > 0
  BY <1>1, <1>2 DEF ProtocolIInv, ProtocolTypeOK
<1>5. \A q \in Runs \ {r} : GateOf(e, q)' = GateOf(e, q)
  BY <1>2, <1>3 DEF GateOf
<1>6. GateOf(e, r) = Gate!Consented(e) /\ GateOf(e, r)' = Gate!Clicked
  <2>1. ~(clicks[r] > 0)
    BY <1>1
  <2> QED
    BY <1>1, <1>4, <2>1 DEF GateOf, Reviewed
<1>7. gateOf[r] = Gate!Consented(e) /\ gateOf' = [gateOf EXCEPT ![r] = Gate!Clicked]
  BY <1>1, <1>5, <1>6, GateOfSole
<1> QED
  BY <1>1, <1>7 DEF Gate!GateNext, Gate!Click

(* A restart withdraws every run that was shown and not clicked.           *)
LEMMA RestartMovesGate ==
    ASSUME NEW e, Executors = {e}, ProtocolTypeOK, Restart(e)
    PROVE  Gate!GateNext
<1> DEFINE ended == {r \in Runs : /\ ~(clicks[r] > 0)
                                  /\ runStatus[r] \in Reviewed
                                  /\ window[e][r] = "filled"}
<1>1. UNCHANGED <<runStatus, clicks>> /\ \A r \in Runs : window'[e][r] = "none"
  BY DEF Restart, serverVars, ProtocolTypeOK
<1>2. \A r \in Runs \ ended : GateOf(e, r)' = GateOf(e, r)
  BY <1>1 DEF GateOf, Reviewed
<1>3. \A r \in ended : GateOf(e, r)' = Gate!Withdrawn
  BY <1>1 DEF GateOf, Reviewed
<1>4. \A r \in ended : GateOf(e, r) # Gate!Clicked
  BY DEF GateOf, Reviewed, Gate!Clicked, Gate!Shown, Gate!Consented
<1>5. Gate!Withdraw(ended)
  BY <1>2, <1>3, <1>4, GateOfSole DEF Gate!Withdraw
<1> QED
  BY <1>5 DEF Gate!GateNext

(* The executor starts with nothing polled and nothing open.               *)
LEMMA SoleInit == \A e \in Executors : ProtocolInit => SoleIInv(e)
BY DEF ProtocolInit, ServerInit, SoleIInv, PolledOnce, PolledQueuedIsQueued, WorksOnItsRun,
       ReviewedPageWasShown, Reviewed

(* The invariant of the only executor.                                     *)
LEMMA SoleInvariant ==
    ASSUME NEW CONSTANT e, Executors = {e}
    PROVE  ProtocolSpec => []SoleIInv(e)
<1>1. ProtocolInit => SoleIInv(e)
  BY SoleInit
<1>2. ProtocolTypeOK /\ SoleIInv(e) /\ [ProtocolNext]_protocolVars => SoleIInv(e)'
  BY SoleExecutorStep DEF SoleStep
<1> QED
  BY <1>1, <1>2, ProtocolTypeCorrect, PTL DEF ProtocolSpec

(* A profile with one executor: the protocol implements SubmissionGate.    *)
(* Submit is clicked only on the page that the user was shown and          *)
(* approved, at most once per run, and never again once that page is lost  *)
(* or the run cancelled or failed.                                         *)
THEOREM SoleExecutorKeepsThePromise ==
    ASSUME NEW CONSTANT e, Executors = {e}
    PROVE  ProtocolSpec => KeepsThePromise
<1>1. ProtocolInit => Gate!GateInit
  <2> SUFFICES ASSUME ProtocolInit PROVE Gate!GateInit
    OBVIOUS
  <2>1. \A r \in Runs : GateOf(e, r) = Gate!Closed
    BY DEF ProtocolInit, ServerInit, GateOf
  <2> QED
    BY <2>1, GateOfSole DEF Gate!GateInit
<1>2. ProtocolIInv /\ SoleIInv(e) /\ [ProtocolNext]_protocolVars => [Gate!GateNext]_gateOf
  <2> SUFFICES ASSUME ProtocolIInv, SoleIInv(e), [ProtocolNext]_protocolVars
               PROVE  [Gate!GateNext]_gateOf
    OBVIOUS
  <2>1. ProtocolTypeOK
    BY DEF ProtocolIInv
  <2>2. CASE Unmoved(e)
    <3>1. \A r \in Runs : GateOf(e, r)' = GateOf(e, r)
      BY <2>2 DEF Unmoved, GateOf
    <3> QED
      BY <3>1, GateOfSole
  <2>3. CASE \E r \in Runs : HopStep(e, r)
    BY <2>1, <2>3, HopMovesGate
  <2>4. CASE ClickSubmit(e) \/ Restart(e)
    BY <2>1, <2>4, ClickMovesGate, RestartMovesGate
  <2> QED
    BY <2>1, <2>2, <2>3, <2>4, SoleExecutorStep DEF SoleStep
<1>3. ProtocolSpec => []SoleIInv(e)
  BY SoleInvariant
<1>4. ProtocolSpec => Gate!GateInit /\ [][Gate!GateNext]_gateOf
  BY <1>1, <1>2, <1>3, ProtocolInvariant, PTL DEF ProtocolSpec
<1> QED
  BY <1>4 DEF KeepsThePromise, Gate!GateSpec

(* Each of its clicks is of a run that is submitting and has its token, on *)
(* the page whose review was approved.                                     *)
THEOREM SoleExecutorClickIsApproved ==
    ASSUME NEW CONSTANT sole, Executors = {sole}
    PROVE  ProtocolSpec => ClickIsApproved
<1> DEFINE Approved ==
        \A e \in Executors, r \in Runs :
            pc[e] = "click" /\ cur[e] = r /\ clicks'[r] # clicks[r]
            => /\ runStatus[r] = "submitting"
               /\ r \in approvalToken
               /\ window[e][r] = "filled"
<1>1. ProtocolIInv /\ SoleIInv(sole) /\ [ProtocolNext]_protocolVars => Approved
  <2> SUFFICES ASSUME ProtocolIInv, SoleIInv(sole), [ProtocolNext]_protocolVars,
                      NEW r \in Runs, pc[sole] = "click", cur[sole] = r, clicks'[r] # clicks[r]
               PROVE  /\ runStatus[r] = "submitting"
                      /\ r \in approvalToken
                      /\ window[sole][r] = "filled"
    OBVIOUS
  <2>1. ~Unmoved(sole) /\ ~(\E q \in Runs : HopStep(sole, q)) /\ ~Restart(sole)
    BY DEF Unmoved, HopStep, Restart
  <2>2. ClickSubmit(sole)
    BY <2>1, SoleExecutorStep DEF SoleStep, ProtocolIInv
  <2> QED
    BY <2>2, SoleClick DEF ClickSubmit
<1> HIDE DEF Approved
<1>2. ProtocolSpec => []SoleIInv(sole)
  BY SoleInvariant
<1>3. ProtocolSpec => [][Approved]_protocolVars
  BY <1>1, <1>2, ProtocolInvariant, PTL DEF ProtocolSpec
<1> QED
  BY <1>3, PTL DEF ClickIsApproved, Approved
=============================================================================
