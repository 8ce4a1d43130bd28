----------------------- MODULE ApplicationTrackerProofs -----------------------
(***************************************************************************)
(* Proofs about ApplicationTracker, for any set of applications.  Whether  *)
(* or not the API process may die: no application is submitted without     *)
(* having been approved, and nothing but the user moves one back.  While   *)
(* the process lives: a confirmation that returned is complete, and, while *)
(* nothing is merged either, the workflow refines the coarse view of       *)
(* ApplyRuns.  All but the first need facts about transition_path.         *)
(***************************************************************************)
EXTENDS ApplicationTracker, FiniteSetTheorems, TLAPS

(* SubmittedWentThroughGate strengthened so that it is inductive: the      *)
(* statuses behind the gate carry the approval's timestamp.                *)
GateIsStamped ==
    \A a \in Live :
        /\ status[a] \in {"approved", "submitting", "submitted"} => a \in approved
        /\ status[a] = "submitted" => a \in submitted

TrackerIInv == TrackerTypeOK /\ GateIsStamped

(* The set of statuses, spelled out.                                       *)
LEMMA StatusNames ==
    Status = {"discovered", "scored", "selected", "resume_ready", "form_scanned",
              "needs_input", "ready_for_review", "approved", "submitting", "submitted",
              "blocked", "failed", "skipped"}
BY DEF Status, Allowed

(* What ALLOWED_APPLICATION_TRANSITIONS says of the gate: submitting is    *)
(* entered from approved only, and submitted from submitting only.         *)
LEMMA GateHops ==
    ASSUME NEW s \in Status, NEW t \in Allowed[s]
    PROVE  /\ t \in Status
           /\ t = "submitting" => s = "approved"
           /\ t = "submitted" => s = "submitting"
BY StatusNames DEF Allowed

(* A hop of a live application along the table.                            *)
LEMMA TransitionKeeps ==
    ASSUME TrackerIInv, NEW a \in Live, NEW t, Transition(a, t)
    PROVE  /\ status' \in [AppIds -> Status \cup {"absent", "merged"}]
           /\ approved' \subseteq AppIds
           /\ submitted' \subseteq AppIds
           /\ Live' = Live
           /\ GateIsStamped'
<1>1. a \in AppIds /\ status[a] \in Status /\ t \in Allowed[status[a]]
  BY DEF Live, Transition
<1>2. /\ t \in Status
      /\ t = "submitting" => status[a] = "approved"
      /\ t = "submitted" => status[a] = "submitting"
  BY <1>1, GateHops
<1>3. /\ status' \in [AppIds -> Status \cup {"absent", "merged"}]
      /\ \A b \in AppIds : status'[b] = IF b = a THEN t ELSE status[b]
      /\ approved' \subseteq AppIds
      /\ submitted' \subseteq AppIds
  BY <1>1, <1>2 DEF Transition, TrackerIInv, TrackerTypeOK
<1>4. Live' = Live
  BY <1>1, <1>2, <1>3 DEF Live
<1>5. ASSUME NEW b \in Live
      PROVE  /\ status'[b] \in {"approved", "submitting", "submitted"} => b \in approved'
             /\ status'[b] = "submitted" => b \in submitted'
  <2>1. b \in AppIds
    BY DEF Live
  <2>2. CASE b = a
    BY <1>2, <1>3, <2>1, <2>2 DEF TrackerIInv, GateIsStamped, Transition
  <2>3. CASE b # a
    BY <1>3, <2>1, <2>3 DEF TrackerIInv, GateIsStamped, Transition
  <2> QED
    BY <2>2, <2>3
<1> QED
  BY <1>3, <1>4, <1>5 DEF GateIsStamped

(* The tables start empty.                                                 *)
LEMMA TrackerInitIInv == Init => TrackerIInv
<1> SUFFICES ASSUME Init PROVE TrackerIInv
  OBVIOUS
<1>1. Live = {}
  BY StatusNames DEF Init, Live
<1> QED
  BY <1>1 DEF Init, TrackerIInv, TrackerTypeOK, GateIsStamped, Work

(* A step that touches no status and no timestamp.                         *)
LEMMA BookkeepingKeepsIInv ==
    ASSUME TrackerIInv, UNCHANGED <<status, approved, submitted>>,
           bundled' \subseteq AppIds, linked' \subseteq AppIds,
           followUp' \in [AppIds -> {"none", "open", "done"}],
           confirmed' \subseteq AppIds, scoring' \subseteq AppIds,
           work' \in Work, work' # Idle => work'.app \in Live
    PROVE  TrackerIInv'
BY DEF TrackerIInv, TrackerTypeOK, GateIsStamped, Live

(* The requests that only write beside the status, or start a handler.     *)
LEMMA RequestKeepsIInv ==
    ASSUME TrackerIInv, NEW a \in AppIds,
           \/ ScoreStart(a) \/ ApproveResume(a) \/ ConfirmAgain(a) \/ Confirm(a)
           \/ CompleteFollowUp(a) \/ \E s \in Status : ReportFill(a, s)
    PROVE  TrackerIInv'
<1>1. UNCHANGED <<status, approved, submitted, linked>>
  BY DEF ScoreStart, ApproveResume, ConfirmAgain, Confirm, CompleteFollowUp, ReportFill
<1>2. /\ bundled' \subseteq AppIds
      /\ followUp' \in [AppIds -> {"none", "open", "done"}]
      /\ confirmed' \subseteq AppIds
      /\ scoring' \subseteq AppIds
  BY DEF ScoreStart, ApproveResume, ConfirmAgain, Confirm, CompleteFollowUp, ReportFill,
         TrackerIInv, TrackerTypeOK
<1>3. \/ work' = work
      \/ /\ a \in Live
         /\ \E kind \in AdvanceKinds, s \in Status : work' = Advance(kind, a, s)
  BY StatusNames DEF ScoreStart, ApproveResume, ConfirmAgain, Confirm, CompleteFollowUp,
         ReportFill, AdvanceKinds
<1>4. work' \in Work /\ (work' # Idle => work'.app \in Live)
  BY <1>3 DEF TrackerIInv, TrackerTypeOK, Work, Advance
<1> QED
  BY <1>1, <1>2, <1>4, BookkeepingKeepsIInv DEF TrackerIInv, TrackerTypeOK

(* What a handler does after its transitions, and its death.               *)
LEMMA HandlerKeepsIInv ==
    ASSUME TrackerIInv, EndOfPath \/ Link \/ FollowUp \/ Crash
    PROVE  TrackerIInv'
<1>1. UNCHANGED <<status, approved, submitted, bundled>>
  BY DEF EndOfPath, Link, FollowUp, Crash
<1>2. work = Idle \/ work.app \in Live
  BY DEF TrackerIInv, TrackerTypeOK
<1>3. ~Crash => work.app \in Live
  BY <1>2 DEF EndOfPath, Link, FollowUp, Idle, AdvanceKinds
<1>4. /\ linked' \subseteq AppIds
      /\ followUp' \in [AppIds -> {"none", "open", "done"}]
      /\ confirmed' \subseteq AppIds
      /\ scoring' \subseteq AppIds
  BY <1>3 DEF EndOfPath, Link, FollowUp, Crash, TrackerIInv, TrackerTypeOK, Live
<1>5. \/ work' = Idle
      \/ /\ work.app \in Live
         /\ \E kind \in {"link", "followUp"} : work' = [kind |-> kind, app |-> work.app]
  BY <1>3 DEF EndOfPath, AfterAdvance, Link, FollowUp, Crash
<1>6. work' \in Work /\ (work' # Idle => work'.app \in Live)
  BY <1>5 DEF Work, Live
<1> QED
  BY <1>1, <1>4, <1>6, BookkeepingKeepsIInv DEF TrackerIInv, TrackerTypeOK

(* The steps that make one transition.                                     *)
LEMMA MoveKeepsIInv ==
    ASSUME TrackerIInv,
           \/ \E a \in AppIds, s \in Status : UserTransition(a, s)
           \/ \E a \in AppIds : ScoreFinish(a)
           \/ Hop
    PROVE  TrackerIInv'
<1>1. /\ UNCHANGED <<bundled, linked, followUp, confirmed, work>>
      /\ scoring' \subseteq AppIds
  BY DEF UserTransition, ScoreFinish, Hop, TrackerIInv, TrackerTypeOK
<1>2. CASE UNCHANGED <<status, approved, submitted>>
  BY <1>1, <1>2, BookkeepingKeepsIInv DEF TrackerIInv, TrackerTypeOK
<1>3. CASE ~UNCHANGED <<status, approved, submitted>>
  <2>1. work # Idle => work.app \in Live
    BY DEF TrackerIInv, TrackerTypeOK
  <2>2. ASSUME NEW a \in Live, NEW t, Transition(a, t)
        PROVE  t \in Status
    BY <2>2, GateHops DEF Live, Transition
  <2>3. PICK a \in Live, t \in Status : Transition(a, t)
    <3>1. CASE Hop
      <4>1. work # Idle
        BY <3>1 DEF Hop, Idle, AdvanceKinds
      <4> QED
        BY <2>1, <2>2, <3>1, <4>1 DEF Hop
    <3>2. CASE ~Hop
      BY <1>3, <2>2, <3>2 DEF UserTransition, ScoreFinish
    <3> QED
      BY <3>1, <3>2
  <2> QED
    BY <1>1, <2>1, <2>3, TransitionKeeps DEF TrackerIInv, TrackerTypeOK
<1> QED
  BY <1>2, <1>3

(* A new application.                                                      *)
LEMMA CreateKeepsIInv ==
    ASSUME TrackerIInv, NEW a \in AppIds, Create(a)
    PROVE  TrackerIInv'
<1>1. /\ status' \in [AppIds -> Status \cup {"absent", "merged"}]
      /\ \A b \in AppIds : status'[b] = IF b = a THEN "discovered" ELSE status[b]
      /\ UNCHANGED <<approved, submitted, bundled, linked, followUp, confirmed, scoring>>
      /\ work = Idle /\ work' = Idle
  BY StatusNames DEF Create, TrackerIInv, TrackerTypeOK
<1>2. TrackerTypeOK'
  BY <1>1 DEF TrackerIInv, TrackerTypeOK, Work
<1>3. GateIsStamped'
  BY <1>1 DEF TrackerIInv, GateIsStamped, Live
<1> QED
  BY <1>2, <1>3 DEF TrackerIInv

(* The one row that a merge leaves has the status of one of the others and *)
(* their timestamps.                                                       *)
LEMMA MergeKeepsIInv ==
    ASSUME TrackerIInv, NEW a \in AppIds, NEW top \in AppIds, Merge(a, top)
    PROVE  TrackerIInv'
<1>1. /\ a \in Live /\ top \in Live
      /\ status[top] \in Status
      /\ UNCHANGED <<bundled, linked, confirmed, scoring>>
      /\ work = Idle /\ work' = Idle
      /\ \A b \in AppIds : status'[b] = IF b = a THEN status[top]
                                        ELSE IF b \in Live THEN "merged" ELSE status[b]
  BY DEF Merge, Live
<1>2. /\ status' \in [AppIds -> Status \cup {"absent", "merged"}]
      /\ approved' \subseteq AppIds
      /\ submitted' \subseteq AppIds
  BY <1>1 DEF Merge, TrackerIInv, TrackerTypeOK
<1>3. followUp' \in [AppIds -> {"none", "open", "done"}]
  BY DEF Merge, MergedFollowUp, TrackerIInv, TrackerTypeOK
<1>4. TrackerTypeOK'
  BY <1>1, <1>2, <1>3 DEF TrackerIInv, TrackerTypeOK, Work
<1>5. Live' \subseteq {a}
  BY <1>1, StatusNames DEF Live
<1>6. /\ top \in approved => a \in approved'
      /\ top \in submitted => a \in submitted'
  BY <1>1 DEF Merge
<1>7. status'[a] = status[top]
  BY <1>1
<1>8. GateIsStamped'
  BY <1>1, <1>5, <1>6, <1>7 DEF TrackerIInv, GateIsStamped
<1> QED
  BY <1>4, <1>8 DEF TrackerIInv

(* Every step keeps the invariant.                                         *)
LEMMA TrackerStepKeepsIInv == TrackerIInv /\ [Next]_vars => TrackerIInv'
<1> SUFFICES ASSUME TrackerIInv, [Next]_vars PROVE TrackerIInv'
  OBVIOUS
<1>1. CASE UNCHANGED vars
  BY <1>1, BookkeepingKeepsIInv DEF vars, TrackerIInv, TrackerTypeOK
<1>2. CASE \E a \in AppIds : Create(a)
  BY <1>2, CreateKeepsIInv
<1>3. CASE \E a \in AppIds :
              \/ ScoreStart(a) \/ ApproveResume(a) \/ ConfirmAgain(a) \/ Confirm(a)
              \/ CompleteFollowUp(a) \/ \E s \in Status : ReportFill(a, s)
  BY <1>3, RequestKeepsIInv
<1>4. CASE \/ \E a \in AppIds, s \in Status : UserTransition(a, s)
           \/ \E a \in AppIds : ScoreFinish(a)
           \/ Hop
  BY <1>4, MoveKeepsIInv
<1>5. CASE \E a \in AppIds, top \in AppIds : Merge(a, top)
  BY <1>5, MergeKeepsIInv
<1>6. CASE EndOfPath \/ Link \/ FollowUp \/ Crash
  BY <1>6, HandlerKeepsIInv
<1> QED
  BY <1>1, <1>2, <1>3, <1>4, <1>5, <1>6 DEF Next

-----------------------------------------------------------------------------
(* The inductive invariant holds in every behaviour.                       *)
THEOREM TrackerInvariant == Spec => []TrackerIInv
BY TrackerInitIInv, TrackerStepKeepsIInv, PTL DEF Spec

(* The tables keep their types, and a handler never outlives its           *)
(* application.                                                            *)
THEOREM TrackerTypeCorrect == Spec => []TrackerTypeOK
<1>1. TrackerIInv => TrackerTypeOK
  BY DEF TrackerIInv
<1> QED
  BY <1>1, TrackerInvariant, PTL

(* No application becomes submitted without an approval, whatever crashes, *)
(* merges and requests come in between.                                    *)
THEOREM SubmittedWentThroughGateAlways == Spec => []SubmittedWentThroughGate
<1>1. TrackerIInv => SubmittedWentThroughGate
  BY DEF TrackerIInv, GateIsStamped, SubmittedWentThroughGate
<1> QED
  BY <1>1, TrackerInvariant, PTL

(* Whoever was submitted still says so: the table has no way out of it.     *)
SubmittedIsFinal == \A a \in submitted : status[a] = "submitted"

LEMMA SubmittedStaysFinal ==
    TrackerIInv /\ SubmittedIsFinal /\ [Next]_vars /\ [~\E a, top \in AppIds : Merge(a, top)]_vars
        => SubmittedIsFinal'
<1> SUFFICES ASSUME TrackerIInv, SubmittedIsFinal, [Next]_vars,
                    [~\E a, top \in AppIds : Merge(a, top)]_vars
             PROVE  SubmittedIsFinal'
  OBVIOUS
<1>1. CASE UNCHANGED <<status, submitted>>
  BY <1>1 DEF SubmittedIsFinal
<1>2. ASSUME NEW a \in AppIds, NEW t, Transition(a, t) PROVE SubmittedIsFinal'
  <2>1. a \notin submitted
    BY <1>2 DEF SubmittedIsFinal, Transition, Allowed
  <2>2. DOMAIN status = AppIds /\ submitted \subseteq AppIds
    BY DEF TrackerIInv, TrackerTypeOK
  <2> QED
    BY <1>2, <2>1, <2>2 DEF SubmittedIsFinal, Transition
<1>3. ASSUME NEW a \in AppIds, Create(a) PROVE SubmittedIsFinal'
  BY <1>3 DEF SubmittedIsFinal, Create, TrackerIInv, TrackerTypeOK
<1>4. ASSUME NEW a \in AppIds,
             \/ ScoreFinish(a) \/ \E s \in Status : UserTransition(a, s)
      PROVE  SubmittedIsFinal'
  BY <1>1, <1>2, <1>4 DEF ScoreFinish, UserTransition
<1>5. CASE Hop
  <2>1. work.app \in AppIds
    BY <1>5 DEF Hop, TrackerIInv, TrackerTypeOK, Idle, AdvanceKinds, Live
  <2> QED
    BY <1>2, <1>5, <2>1 DEF Hop
<1>6. ASSUME NEW a \in AppIds,
             \/ ScoreStart(a) \/ ApproveResume(a) \/ ConfirmAgain(a) \/ Confirm(a)
             \/ CompleteFollowUp(a) \/ \E s \in Status : ReportFill(a, s)
      PROVE  UNCHANGED <<status, submitted>>
  BY <1>6 DEF ScoreStart, ApproveResume, ConfirmAgain, Confirm, CompleteFollowUp, ReportFill
<1>7. CASE EndOfPath \/ Link \/ FollowUp \/ Crash
  BY <1>1, <1>7 DEF EndOfPath, Link, FollowUp, Crash
<1>8. CASE UNCHANGED vars
  BY <1>1, <1>8 DEF vars
<1>9. \A a, top \in AppIds : Merge(a, top) => UNCHANGED vars
  OBVIOUS
<1> QED
  BY <1>1, <1>3, <1>4, <1>5, <1>6, <1>7, <1>8, <1>9 DEF Next

(* Merging duplicates is the only way to what TrackerMergedStatus finds:    *)
(* without it a submitted application says so for ever, for any number of   *)
(* applications, requests and crashes.                                      *)
THEOREM SubmittedStaysWithoutMerges ==
    Spec /\ [][~\E a, top \in AppIds : Merge(a, top)]_vars => []SubmittedStaysSubmitted
<1>1. Init => SubmittedIsFinal
  BY DEF Init, SubmittedIsFinal
<1>2. SubmittedIsFinal => SubmittedStaysSubmitted
  BY DEF SubmittedIsFinal, SubmittedStaysSubmitted
<1> QED
  BY <1>1, <1>2, SubmittedStaysFinal, TrackerInvariant, PTL DEF Spec

-----------------------------------------------------------------------------
(* transition_path.                                                        *)

(* There are thirteen statuses, so a path has at most thirteen hops.       *)
LEMMA HopsAreFew == Cardinality(Status) = 13 /\ Hops = 0..13
<1> DEFINE names == <<"discovered", "scored", "selected", "resume_ready", "form_scanned",
                      "needs_input", "ready_for_review", "approved", "submitting",
                      "submitted", "blocked", "failed", "skipped">>
<1>1. names \in [1..13 -> Status]
  BY StatusNames
<1>2. \A s \in Status : \E i \in 1..13 : names[i] = s
  BY StatusNames
<1>3. \A i, j \in 1..13 : names[i] = names[j] => i = j
  OBVIOUS
<1>4. names \in Bijection(1..13, Status)
  BY <1>1, <1>2, <1>3 DEF Bijection, Injection, Surjection, IsInjective
<1>5. Cardinality(Status) = 13
  BY <1>4, FS_CountingElements DEF ExistsBijection
<1> QED
  BY <1>5 DEF Hops

(* Induction over the hops of a path.                                      *)
LEMMA HopInduction ==
    ASSUME NEW W, 0 \in W, \A n \in 1..13 : n - 1 \in W => n \in W
    PROVE  0..13 \subseteq W
<1>1. 1 \in W /\ 2 \in W /\ 3 \in W /\ 4 \in W
  OBVIOUS
<1>2. 5 \in W /\ 6 \in W /\ 7 \in W /\ 8 \in W
  BY <1>1
<1>3. 9 \in W /\ 10 \in W /\ 11 \in W /\ 12 \in W
  BY <1>2
<1>4. 13 \in W
  BY <1>3
<1> QED
  BY <1>1, <1>2, <1>3, <1>4

(* One round of the search: what can hop into what was found before.       *)
Closer(closer) == closer \cup {s \in Status : Allowed[s] \cap closer # {}}

(* Near is the search by rounds that its recursive function says it is.    *)
LEMMA NearByRounds ==
    ASSUME NEW target \in Status
    PROVE  /\ Near[target][0] = {target}
           /\ \A n \in 1..13 : Near[target][n] = Closer(Near[target][n - 1])
<1> DEFINE Rounds(f, k) == /\ f[0] = {target}
                           /\ \A n \in 1..k : f[n] = Closer(f[n - 1])
           W == {k \in 0..13 : \E f \in [0..13 -> SUBSET Status] : Rounds(f, k)}
<1>1. 0 \in W
  <2>1. [n \in 0..13 |-> {target}] \in [0..13 -> SUBSET Status]
    OBVIOUS
  <2>2. Rounds([n \in 0..13 |-> {target}], 0)
    OBVIOUS
  <2> HIDE DEF Rounds
  <2> QED
    BY <2>1, <2>2
<1>2. ASSUME NEW k \in 1..13, k - 1 \in W
      PROVE  k \in W
  <2>1. PICK f \in [0..13 -> SUBSET Status] : Rounds(f, k - 1)
    BY <1>2
  <2> DEFINE g == [f EXCEPT ![k] = Closer(f[k - 1])]
  <2>2. k - 1 \in 0..13 /\ Closer(f[k - 1]) \in SUBSET Status
    BY StatusNames DEF Closer
  <2>3. g \in [0..13 -> SUBSET Status]
    BY <2>2
  <2>4. /\ g[k] = Closer(f[k - 1])
        /\ \A n \in 0..13 : n # k => g[n] = f[n]
    OBVIOUS
  <2>5. Rounds(g, k)
    BY <2>1, <2>4
  <2> HIDE DEF Rounds, g
  <2> QED
    BY <2>2, <2>3, <2>5
<1>3. 13 \in W
  <2> HIDE DEF W
  <2>1. \A n \in 1..13 : n - 1 \in W => n \in W
    BY <1>2
  <2> QED
    BY <1>1, <2>1, HopInduction
<1>4. PICK f \in [0..13 -> SUBSET Status] : Rounds(f, 13)
  BY <1>3
<1> DEFINE Search(near) ==
             near = [n \in Hops |->
                IF n = 0 THEN {target}
                ELSE near[n - 1] \cup {s \in Status : Allowed[s] \cap near[n - 1] # {}}]
           search == CHOOSE near : Search(near)
<1>5. Search(f)
  BY <1>4, HopsAreFew DEF Closer
<1>6. Search(search)
  <2> HIDE DEF Search
  <2> QED
    BY <1>5
<1>7. /\ \A n \in 0..13 : Near[target][n] = search[n]
  BY HopsAreFew DEF Near
<1> HIDE DEF search
<1> QED
  BY <1>6, <1>7, HopsAreFew DEF Closer

(* What a round finds are statuses, and it keeps what it found before.     *)
LEMMA NearGrows ==
    ASSUME NEW target \in Status
    PROVE  /\ \A n \in 0..13 : Near[target][n] \subseteq Status
           /\ \A n \in 1..13 : Near[target][n - 1] \subseteq Near[target][n]
           /\ \A n \in 0..13 : Near[target][n] \subseteq Near[target][13]
<1> DEFINE W == {n \in 0..13 : Near[target][n] \subseteq Status}
           V == {n \in 0..13 : Near[target][13 - n] \subseteq Near[target][13]}
<1>1. \A n \in 1..13 : Near[target][n - 1] \subseteq Near[target][n]
  BY NearByRounds DEF Closer
<1>2. 0 \in W /\ \A n \in 1..13 : n - 1 \in W => n \in W
  BY NearByRounds DEF Closer
<1>3. 0 \in V
  OBVIOUS
<1>4. ASSUME NEW n \in 1..13, n - 1 \in V
      PROVE  n \in V
  <2>1. 14 - n \in 1..13 /\ (14 - n) - 1 = 13 - n /\ 13 - (n - 1) = 14 - n
    OBVIOUS
  <2> QED
    BY <1>1, <1>4, <2>1
<1>5. 0..13 \subseteq W
  <2> HIDE DEF W
  <2> QED
    BY <1>2, HopInduction
<1>6. 0..13 \subseteq V
  <2> HIDE DEF V
  <2> QED
    BY <1>3, <1>4, HopInduction
<1>7. \A n \in 0..13 : 13 - n \in 0..13 /\ 13 - (13 - n) = n
  OBVIOUS
<1> QED
  BY <1>1, <1>5, <1>6, <1>7

(* A status that reaches the target does so in its distance, and not in    *)
(* fewer hops.                                                             *)
LEMMA DistanceIsLeast ==
    ASSUME NEW target \in Status, NEW s, Reaches(s, target)
    PROVE  /\ Distance(s, target) \in 0..13
           /\ s \in Near[target][Distance(s, target)]
           /\ \A m \in 0..(Distance(s, target) - 1) : s \notin Near[target][m]
<1> DEFINE T == {n \in 0..13 : s \in Near[target][n]}
           Least(n) == s \in Near[target][n] /\ \A m \in 0..(n - 1) : s \notin Near[target][m]
           W == {n \in 0..13 : \A m \in 0..n : m \notin T}
<1>1. 13 \in T
  BY HopsAreFew DEF Reaches
<1>2. \E n \in T : \A m \in 0..(n - 1) : m \notin T
  <2> SUFFICES ASSUME \A n \in T : \E m \in 0..(n - 1) : m \in T PROVE FALSE
    OBVIOUS
  <2>1. 0 \in W
    OBVIOUS
  <2>2. ASSUME NEW n \in 1..13, n - 1 \in W PROVE n \in W
    BY <2>2
  <2>3. 0..13 \subseteq W
    <3> HIDE DEF W
    <3> QED
      BY <2>1, <2>2, HopInduction
  <2> QED
    BY <1>1, <2>3
<1>3. PICK n \in T : \A m \in 0..(n - 1) : m \notin T
  BY <1>2
<1>4. n \in Hops /\ Least(n)
  BY <1>3, HopsAreFew
<1>5. Distance(s, target) \in Hops /\ Least(Distance(s, target))
  <2>1. Distance(s, target) = CHOOSE k \in Hops : Least(k)
    BY DEF Distance
  <2> HIDE DEF Least
  <2> QED
    BY <1>4, <2>1
<1> QED
  BY <1>5, HopsAreFew

(* How far a status is, from two neighbouring rounds.                      *)
LEMMA DistanceIs ==
    ASSUME NEW target \in Status, NEW n \in 0..13, NEW s \in Near[target][n],
           \A m \in 0..(n - 1) : s \notin Near[target][m]
    PROVE  Reaches(s, target) /\ Distance(s, target) = n
<1>1. Reaches(s, target)
  BY NearGrows, HopsAreFew DEF Reaches
<1>2. Distance(s, target) = n
  BY <1>1, DistanceIsLeast
<1> QED
  BY <1>1, <1>2

(* From a status that reaches the target there is a next hop: along the    *)
(* table, and one hop less from the target.                                *)
LEMMA NextHopIsCloser ==
    ASSUME NEW target \in Status, NEW s \in Status, Reaches(s, target), s # target
    PROVE  /\ NextHop(s, target) \in Allowed[s]
           /\ Reaches(NextHop(s, target), target)
           /\ Distance(NextHop(s, target), target) = Distance(s, target) - 1
           /\ Distance(s, target) \in 1..13
<1> DEFINE d == Distance(s, target)
<1>1. /\ d \in 0..13
      /\ s \in Near[target][d]
      /\ \A m \in 0..(d - 1) : s \notin Near[target][m]
  BY DistanceIsLeast
<1> HIDE DEF d
<1>2. d # 0
  BY <1>1, NearByRounds
<1>3. d \in 1..13 /\ d - 1 \in 0..13 /\ d - 1 \in 0..(d - 1)
  BY <1>1, <1>2
<1>4. PICK h \in Allowed[s] : h \in Near[target][d - 1]
  BY <1>1, <1>3, NearByRounds DEF Closer
<1>5. ASSUME NEW m \in 0..((d - 1) - 1)
      PROVE  h \notin Near[target][m]
  <2>1. m + 1 \in 1..13 /\ m + 1 \in 0..(d - 1) /\ (m + 1) - 1 = m
    BY <1>3
  <2>2. s \notin Near[target][m + 1]
    BY <1>1, <2>1
  <2>3. Near[target][m + 1] = Closer(Near[target][m])
    BY <2>1, NearByRounds
  <2> QED
    BY <2>2, <2>3 DEF Closer
<1>6. Reaches(h, target) /\ Distance(h, target) = d - 1
  BY <1>3, <1>4, <1>5, DistanceIs
<1>7. \E k \in Allowed[s] : Reaches(k, target) /\ Distance(k, target) = Distance(s, target) - 1
  BY <1>6 DEF d
<1> QED
  BY <1>3, <1>7 DEF NextHop, d

(* Where the table has the hop to the target, the path takes it.           *)
LEMMA OneHopAway ==
    ASSUME NEW target \in Status, NEW s \in Status, s # target, target \in Allowed[s]
    PROVE  Reaches(s, target) /\ NextHop(s, target) = target
<1>1. /\ Near[target][0] = {target}
      /\ s \in Near[target][1]
  BY NearByRounds DEF Closer
<1>2. Reaches(s, target) /\ Distance(s, target) = 1
  <2>1. \A m \in 0..(1 - 1) : s \notin Near[target][m]
    BY <1>1
  <2> QED
    BY <1>1, <2>1, DistanceIs
<1>3. /\ Reaches(NextHop(s, target), target)
      /\ Distance(NextHop(s, target), target) = 0
  BY <1>2, NextHopIsCloser
<1> QED
  BY <1>1, <1>2, <1>3, DistanceIsLeast

(* No path leaves a status that the table ends in.                         *)
LEMMA TerminalStays ==
    ASSUME NEW target \in Status, NEW s \in Status, s # target, Allowed[s] = {}
    PROVE  ~Reaches(s, target)
<1> DEFINE W == {n \in 0..13 : s \notin Near[target][n]}
<1>1. 0 \in W /\ \A n \in 1..13 : n - 1 \in W => n \in W
  BY NearByRounds DEF Closer
<1>2. 0..13 \subseteq W
  <2> HIDE DEF W
  <2> QED
    BY <1>1, HopInduction
<1> QED
  BY <1>2, HopsAreFew DEF Reaches

(* The first rounds of the search for submitted.                           *)
LEMMA NearSubmitted ==
    LET rounds == Near["submitted"]
    IN  /\ rounds[0] = {"submitted"}
        /\ rounds[1] = {"submitted", "submitting"}
        /\ rounds[2] = {"submitted", "submitting", "approved"}
        /\ rounds[3] = {"submitted", "submitting", "approved", "ready_for_review"}
<1> DEFINE rounds == Near["submitted"]
<1>1. /\ rounds[0] = {"submitted"}
      /\ rounds[1] = Closer(rounds[0])
      /\ rounds[2] = Closer(rounds[1])
      /\ rounds[3] = Closer(rounds[2])
  BY NearByRounds, StatusNames
<1> HIDE DEF rounds
<1>2. rounds[1] = {"submitted", "submitting"}
  BY <1>1, StatusNames DEF Closer, Allowed
<1>3. rounds[2] = {"submitted", "submitting", "approved"}
  BY <1>1, <1>2, StatusNames DEF Closer, Allowed
<1>4. rounds[3] = {"submitted", "submitting", "approved", "ready_for_review"}
  BY <1>1, <1>3, StatusNames DEF Closer, Allowed
<1> QED
  BY <1>1, <1>2, <1>3, <1>4 DEF rounds

(* Every status from which a hop leads on reaches submitted; the others,   *)
(* unless submitted itself, do not.                                        *)
LEMMA OpenReachesSubmitted ==
    ASSUME NEW s \in Status
    PROVE  Reaches(s, "submitted") <=> s = "submitted" \/ Allowed[s] # {}
<1>1. "submitted" \in Status
  BY StatusNames
<1>2. ASSUME Allowed[s] # {} PROVE Reaches(s, "submitted")
  <2> DEFINE rounds == Near["submitted"]
  <2>1. /\ {"submitting", "approved", "ready_for_review"} \subseteq rounds[3]
        /\ \A n \in 1..13 : rounds[n] = Closer(rounds[n - 1])
        /\ rounds[7] \subseteq rounds[13]
    BY <1>1, NearSubmitted, NearByRounds, NearGrows
  <2> HIDE DEF rounds
  <2>2. {"form_scanned", "needs_input"} \subseteq rounds[4] /\ rounds[3] \subseteq rounds[4]
    BY <2>1, StatusNames DEF Closer, Allowed
  <2>3. {"resume_ready"} \subseteq rounds[5] /\ rounds[4] \subseteq rounds[5]
    BY <2>1, <2>2, StatusNames DEF Closer, Allowed
  <2>4. {"selected"} \subseteq rounds[6] /\ rounds[5] \subseteq rounds[6]
    BY <2>1, <2>3, StatusNames DEF Closer, Allowed
  <2>5. {"scored", "discovered"} \subseteq rounds[7] /\ rounds[6] \subseteq rounds[7]
    BY <2>1, <2>4, StatusNames DEF Closer, Allowed
  <2>6. s \in {"discovered", "scored", "selected", "resume_ready", "form_scanned",
               "needs_input", "ready_for_review", "approved", "submitting"}
    BY <1>2, StatusNames DEF Allowed
  <2>7. s \in rounds[7]
    BY <2>1, <2>2, <2>3, <2>4, <2>5, <2>6
  <2> QED
    BY <2>1, <2>7, HopsAreFew DEF Reaches, rounds
<1>3. Reaches("submitted", "submitted")
  BY <1>1, NearSubmitted, NearGrows, HopsAreFew DEF Reaches
<1> QED
  BY <1>1, <1>2, <1>3, TerminalStays

(* The path from a reviewed form to submitted leads through the approval,  *)
(* not back to the open questions.                                         *)
LEMMA ReviewedGoesOn == NextHop("ready_for_review", "submitted") # "needs_input"
<1>1. "submitted" \in Status /\ "ready_for_review" \in Status
  BY StatusNames
<1>2. "ready_for_review" \in Near["submitted"][3]
  BY NearSubmitted
<1>3. \A m \in 0..(3 - 1) : "ready_for_review" \notin Near["submitted"][m]
  BY NearSubmitted
<1>4. Reaches("ready_for_review", "submitted") /\ Distance("ready_for_review", "submitted") = 3
  BY <1>1, <1>2, <1>3, DistanceIs
<1>5. /\ Reaches(NextHop("ready_for_review", "submitted"), "submitted")
      /\ Distance(NextHop("ready_for_review", "submitted"), "submitted") = 2
  BY <1>1, <1>4, NextHopIsCloser
<1>6. NextHop("ready_for_review", "submitted") \in Near["submitted"][2]
  BY <1>1, <1>5, DistanceIsLeast
<1> QED
  BY <1>6, NearSubmitted

-----------------------------------------------------------------------------
(* What a handler that advances an application is after, and where it can  *)
(* have got to on its way: it never stands where the way leads back.       *)
HandlerKnowsItsTarget ==
    /\ work.kind = "confirm" => work.target = "submitted"
    /\ work.kind = "tailor" =>
          /\ work.target = "resume_ready"
          /\ status[work.app] \in {"discovered", "scored", "selected", "resume_ready"} \cup Terminal
    /\ work.kind = "fill" =>
          /\ work.target \in {"ready_for_review", "needs_input"}
          /\ work.target = "needs_input" => status[work.app] \in FillAdvanceable \cup Terminal

(* The statuses that the table ends in.                                    *)
LEMMA TerminalNames == Terminal = {"submitted", "blocked", "failed", "skipped"}
BY StatusNames DEF Terminal, Allowed

(* Only a handler that advances an application makes a step of a path, and *)
(* it makes it on its application.                                         *)
LEMMA HopTakesNextHop ==
    ASSUME TrackerIInv, Hop
    PROVE  /\ work.app \in Live /\ work.app \in AppIds
           /\ work.kind \in AdvanceKinds /\ work.target \in Status
           /\ status[work.app] \in Status /\ status[work.app] # work.target
           /\ Reaches(status[work.app], work.target)
           /\ NextHop(status[work.app], work.target) \in Allowed[status[work.app]]
           /\ \A a \in AppIds :
                 status'[a] = IF a = work.app THEN NextHop(status[work.app], work.target)
                              ELSE status[a]
           /\ work' = work
<1>1. work # Idle /\ work.kind \in AdvanceKinds
  BY DEF Hop, Idle, AdvanceKinds
<1>2. work \in [kind : AdvanceKinds, app : AppIds, target : Status] /\ work.app \in Live
  BY <1>1 DEF TrackerIInv, TrackerTypeOK, Work, AdvanceKinds
<1>3. work.app \in AppIds /\ work.target \in Status /\ status[work.app] \in Status
  BY <1>2 DEF Live
<1>4. /\ Reaches(status[work.app], work.target)
      /\ status[work.app] # work.target
      /\ work' = work
      /\ Transition(work.app, NextHop(status[work.app], work.target))
  BY DEF Hop
<1>5. /\ NextHop(status[work.app], work.target) \in Allowed[status[work.app]]
      /\ status' = [status EXCEPT ![work.app] = NextHop(status[work.app], work.target)]
  BY <1>4 DEF Transition
<1>6. \A a \in AppIds :
         status'[a] = IF a = work.app THEN NextHop(status[work.app], work.target) ELSE status[a]
  BY <1>3, <1>5 DEF TrackerIInv, TrackerTypeOK
<1> QED
  BY <1>1, <1>2, <1>3, <1>4, <1>5, <1>6

(* A hop keeps the handler on the way it knows.                            *)
LEMMA HopKeepsTarget ==
    ASSUME TrackerIInv, HandlerKnowsItsTarget, Hop
    PROVE  HandlerKnowsItsTarget'
<1> DEFINE s == status[work.app]
           h == NextHop(s, work.target)
<1>1. /\ s \in Status /\ s # work.target /\ work.target \in Status
      /\ h \in Allowed[s]
      /\ status'[work.app] = h
      /\ work' = work
  BY HopTakesNextHop
<1>2. work.target \in Allowed[s] => h = work.target
  BY <1>1, OneHopAway
<1> HIDE DEF s, h
<1>3. CASE work.kind = "tailor"
  <2>1. work.target = "resume_ready" /\ s \in {"discovered", "scored", "selected"} \cup Terminal
    BY <1>1, <1>3 DEF HandlerKnowsItsTarget, s
  <2>2. h \in {"discovered", "scored", "selected", "resume_ready"} \cup Terminal
    BY <1>1, <2>1, TerminalNames DEF Allowed
  <2> QED
    BY <1>1, <1>3, <2>1, <2>2 DEF HandlerKnowsItsTarget
<1>4. CASE work.kind = "fill"
  <2>1. work.target \in {"ready_for_review", "needs_input"}
    BY <1>4 DEF HandlerKnowsItsTarget
  <2>2. CASE work.target = "needs_input"
    <3>1. s \in {"discovered", "scored", "selected", "resume_ready", "form_scanned"}
      BY <1>1, <1>4, <2>2, TerminalNames DEF HandlerKnowsItsTarget, FillAdvanceable, s, Allowed
    <3>2. h \in FillAdvanceable \cup Terminal
      BY <1>1, <1>2, <2>2, <3>1, TerminalNames DEF Allowed, FillAdvanceable
    <3> QED
      BY <1>1, <1>4, <2>1, <3>2 DEF HandlerKnowsItsTarget
  <2> QED
    BY <1>1, <1>4, <2>1, <2>2 DEF HandlerKnowsItsTarget
<1>5. CASE work.kind \notin {"tailor", "fill"}
  BY <1>1, <1>5 DEF HandlerKnowsItsTarget
<1> QED
  BY <1>3, <1>4, <1>5

(* Every step keeps it: the other steps start a handler, let it be, or     *)
(* leave no handler that advances anything.                                *)
LEMMA StepKeepsTarget ==
    TrackerIInv /\ HandlerKnowsItsTarget /\ [Next]_vars => HandlerKnowsItsTarget'
<1> SUFFICES ASSUME TrackerIInv, HandlerKnowsItsTarget, [Next]_vars
             PROVE  HandlerKnowsItsTarget'
  OBVIOUS
<1>1. CASE Hop
  BY <1>1, HopKeepsTarget
<1>2. CASE UNCHANGED <<status, work>>
  BY <1>2 DEF HandlerKnowsItsTarget
<1>3. CASE work'.kind \notin AdvanceKinds
  BY <1>3 DEF HandlerKnowsItsTarget, AdvanceKinds
<1>4. CASE \E a \in AppIds : ApproveResume(a) \/ Confirm(a) \/ \E s \in Status : ReportFill(a, s)
  BY <1>4 DEF ApproveResume, Confirm, ReportFill, Advance, HandlerKnowsItsTarget
<1>5. CASE \E a \in AppIds :
              \/ Create(a) \/ ScoreStart(a) \/ ScoreFinish(a) \/ ConfirmAgain(a)
              \/ CompleteFollowUp(a) \/ \E s \in Status : UserTransition(a, s)
              \/ \E top \in AppIds : Merge(a, top)
  <2>1. work' = Idle
    BY <1>5 DEF Create, ScoreStart, ScoreFinish, ConfirmAgain, CompleteFollowUp,
                UserTransition, Merge
  <2> QED
    BY <1>3, <2>1 DEF Idle, AdvanceKinds
<1>6. CASE EndOfPath \/ Link \/ FollowUp \/ Crash
  <2>1. work'.kind \notin AdvanceKinds
    BY <1>6 DEF EndOfPath, AfterAdvance, Link, FollowUp, Crash, Idle, AdvanceKinds
  <2> QED
    BY <1>3, <2>1
<1>7. CASE UNCHANGED vars
  BY <1>2, <1>7 DEF vars
<1> QED
  BY <1>1, <1>4, <1>5, <1>6, <1>7 DEF Next

(* A handler that advances an application always knows its target.         *)
LEMMA HandlerAlwaysKnowsItsTarget == Spec => []HandlerKnowsItsTarget
<1>1. Init => HandlerKnowsItsTarget
  BY DEF Init, Idle, HandlerKnowsItsTarget
<1> QED
  BY <1>1, StepKeepsTarget, TrackerInvariant, PTL DEF Spec

(* Along the table a status only goes up, but for the hop from             *)
(* ready_for_review to needs_input.                                        *)
LEMMA HopsGoUp ==
    ASSUME NEW s \in Status, NEW t \in Allowed[s]
    PROVE  \/ Rank[t] >= Rank[s]
           \/ s = "ready_for_review" /\ t = "needs_input"
BY StatusNames DEF Allowed, Rank

(* The ranks can be compared.                                              *)
LEMMA RanksAreNumbers == Rank \in [Status -> Nat]
BY StatusNames DEF Rank

(* One step moves an application back only where the user may.             *)
LEMMA StepGoesUp ==
    ASSUME TrackerIInv, HandlerKnowsItsTarget, Next, NEW a \in Live, a \in Live'
    PROVE  \/ Rank[status'[a]] >= Rank[status[a]]
           \/ /\ work = Idle
              /\ status[a] = "ready_for_review"
              /\ status'[a] = "needs_input"
<1>1. a \in AppIds /\ status[a] \in Status /\ status'[a] \in Status
  BY DEF Live
<1>2. CASE status'[a] = status[a]
  BY <1>1, <1>2, RanksAreNumbers
<1>3. CASE Hop
  <2>1. CASE a = work.app
    <3>1. /\ status'[a] = NextHop(status[a], work.target)
          /\ status'[a] \in Allowed[status[a]]
          /\ status[a] # work.target
          /\ Reaches(status[a], work.target)
          /\ work.kind \in AdvanceKinds
      BY <1>1, <1>3, <2>1, HopTakesNextHop
    <3>2. ASSUME status[a] = "ready_for_review"
          PROVE  work.target = "submitted"
      BY <2>1, <3>1, <3>2, TerminalNames DEF HandlerKnowsItsTarget, AdvanceKinds, FillAdvanceable
    <3> QED
      BY <1>1, <3>1, <3>2, HopsGoUp, ReviewedGoesOn
  <2>2. CASE a # work.app
    BY <1>1, <1>2, <1>3, <2>2, HopTakesNextHop
  <2> QED
    BY <2>1, <2>2
<1>4. CASE \E b \in AppIds, s \in Status : UserTransition(b, s)
  BY <1>1, <1>2, <1>4, HopsGoUp DEF UserTransition, Transition, TrackerIInv, TrackerTypeOK
<1>5. CASE \E b \in AppIds : ScoreFinish(b)
  <2>1. PICK b \in AppIds : ScoreFinish(b)
    BY <1>5
  <2>2. \/ status'[a] = status[a]
        \/ status'[a] = "scored" /\ "scored" \in Allowed[status[a]]
    BY <1>1, <2>1 DEF ScoreFinish, Transition, TrackerIInv, TrackerTypeOK
  <2> QED
    BY <1>1, <1>2, <2>2, HopsGoUp
<1>6. CASE \E b, top \in AppIds : Merge(b, top)
  <2>1. PICK b \in AppIds, top \in AppIds : Merge(b, top)
    BY <1>6
  <2>2. /\ Rank[status[a]] <= Rank[status[top]]
        /\ status[top] \in Status
        /\ status'[a] = IF a = b THEN status[top] ELSE "merged"
    BY <1>1, <2>1 DEF Merge, Live
  <2> QED
    BY <1>1, <2>2, RanksAreNumbers, StatusNames
<1>7. CASE ~Hop /\ ~(\E b \in AppIds : \/ ScoreFinish(b) \/ \E top \in AppIds : Merge(b, top)
                                       \/ \E s \in Status : UserTransition(b, s))
  <2>1. \/ status' = status
        \/ \E b \in AppIds : Create(b)
    BY <1>7 DEF Next, ScoreStart, ApproveResume, ConfirmAgain, Confirm, CompleteFollowUp,
                ReportFill, EndOfPath, Link, FollowUp, Crash
  <2>2. \A b \in AppIds : Create(b) => status'[a] = status[a]
    BY <1>1, StatusNames DEF Create, TrackerIInv, TrackerTypeOK
  <2> QED
    BY <1>2, <2>1, <2>2
<1> QED
  BY <1>3, <1>4, <1>5, <1>6, <1>7

(* No scoring that ends late, fill report, approved resume or merge moves  *)
(* an application back, whatever crashes and requests come in between;     *)
(* only the user reopens a reviewed one.                                   *)
THEOREM OnlyTheUserReopensAlways == Spec => OnlyTheUserReopens
<1> DEFINE GoesUp == \A a \in Live : a \in Live' =>
               \/ Rank[status'[a]] >= Rank[status[a]]
               \/ /\ work = Idle
                  /\ status[a] = "ready_for_review"
                  /\ status'[a] = "needs_input"
<1>1. TrackerIInv /\ HandlerKnowsItsTarget /\ [Next]_vars => [GoesUp]_vars
  <2> SUFFICES ASSUME TrackerIInv, HandlerKnowsItsTarget, Next PROVE GoesUp
    OBVIOUS
  <2> QED
    BY StepGoesUp
<1> QED
  BY <1>1, TrackerInvariant, HandlerAlwaysKnowsItsTarget, PTL DEF Spec, OnlyTheUserReopens, GoesUp

-----------------------------------------------------------------------------
(* What becomes of a receipt while the process lives: its application is   *)
(* being confirmed or its workflow is over, and if it is submitted the     *)
(* rest of confirm_submission was done or is what the handler does next.   *)
ReceiptsAreFollowedUp ==
    /\ \A a \in AppIds : status[a] = "absent" => a \notin bundled /\ a \notin confirmed
    /\ \A a \in Live : a \in bundled /\ status[a] \notin Terminal =>
          work.kind = "confirm" /\ work.app = a
    /\ work.kind \in {"confirm", "link", "followUp"} => work.app \in bundled
    /\ work.kind \in {"link", "followUp"} => status[work.app] = "submitted"
    /\ work.kind = "followUp" => work.app \in linked
    /\ \A a \in Live : a \in bundled /\ status[a] = "submitted" =>
          \/ a \in linked /\ followUp[a] # "none"
          \/ work.kind \in {"confirm", "link", "followUp"} /\ work.app = a

ConfirmIInv ==
    TrackerIInv /\ HandlerKnowsItsTarget /\ ReceiptsAreFollowedUp /\ ConfirmedIsComplete

(* A step that moves no application that has a receipt, and that takes     *)
(* nothing away, keeps what was done for the receipts.                     *)
LEMMA BesideReceiptsKeeps ==
    ASSUME ConfirmIInv, TrackerIInv',
           UNCHANGED <<bundled, linked, confirmed, work>>,
           \A a \in AppIds : followUp'[a] = "none" => followUp[a] = "none",
           \A a \in AppIds : a \in bundled \cup confirmed => status'[a] = status[a],
           \A a \in AppIds : status'[a] = "absent" => status[a] = "absent"
    PROVE  ReceiptsAreFollowedUp' /\ ConfirmedIsComplete'
<1>1. /\ bundled' = bundled /\ linked' = linked /\ confirmed' = confirmed
      /\ work' = work
      /\ bundled \subseteq AppIds /\ confirmed \subseteq AppIds
      /\ Live \subseteq AppIds /\ Live' \subseteq AppIds
  BY DEF ConfirmIInv, TrackerIInv, TrackerTypeOK, Live
<1>2. \A a \in AppIds : a \in bundled \cup confirmed => (a \in Live <=> a \in Live')
  BY DEF Live
<1>3. ConfirmedIsComplete'
  BY <1>1, <1>2 DEF ConfirmIInv, ConfirmedIsComplete
<1>4. ReceiptsAreFollowedUp'
  BY <1>1, <1>2 DEF ConfirmIInv, ReceiptsAreFollowedUp
<1> QED
  BY <1>3, <1>4

(* Between requests an application with a receipt is not on its way.       *)
LEMMA ReceiptedIsOver ==
    ASSUME ConfirmIInv, work.kind # "confirm", NEW a \in Live, a \in bundled
    PROVE  Allowed[status[a]] = {}
BY DEF ConfirmIInv, ReceiptsAreFollowedUp, Terminal

(* The requests but those about a receipt.                                 *)
LEMMA OtherRequestKeepsReceipts ==
    ASSUME ConfirmIInv, TrackerIInv', NEW a \in AppIds,
           \/ Create(a) \/ ScoreStart(a) \/ ScoreFinish(a) \/ CompleteFollowUp(a)
           \/ \E s \in Status : UserTransition(a, s)
    PROVE  ReceiptsAreFollowedUp' /\ ConfirmedIsComplete'
<1>1. /\ UNCHANGED <<bundled, linked, confirmed, work>>
      /\ work = Idle
  BY DEF Create, ScoreStart, ScoreFinish, CompleteFollowUp, UserTransition
<1>2. work.kind # "confirm"
  BY <1>1 DEF Idle
<1>3. \A b \in AppIds : followUp'[b] = "none" => followUp[b] = "none"
  BY DEF Create, ScoreStart, ScoreFinish, CompleteFollowUp, UserTransition,
         ConfirmIInv, TrackerIInv, TrackerTypeOK
<1>4. \/ status' = status
      \/ \E t \in {"discovered"} \cup Status : status' = [status EXCEPT ![a] = t]
  <2>1. CASE Create(a)
    BY <2>1 DEF Create
  <2>2. CASE ScoreFinish(a)
    BY <2>2, StatusNames DEF ScoreFinish, Transition
  <2>3. CASE \E s \in Status : UserTransition(a, s)
    BY <2>3 DEF UserTransition, Transition
  <2> QED
    BY <2>1, <2>2, <2>3 DEF ScoreStart, CompleteFollowUp
<1>5. CASE status' = status
  BY <1>1, <1>3, <1>5, BesideReceiptsKeeps
<1>6. CASE status' # status
  <2>1. PICK t \in Status : status' = [status EXCEPT ![a] = t]
    BY <1>4, <1>6, StatusNames
  <2>2. a \notin bundled \cup confirmed
    <3>1. CASE Create(a)
      BY <3>1 DEF Create, ConfirmIInv, ReceiptsAreFollowedUp
    <3>2. CASE ~Create(a)
      <4>1. a \in Live /\ Allowed[status[a]] # {}
        BY <1>6, <3>2 DEF ScoreStart, ScoreFinish, CompleteFollowUp, UserTransition, Transition
      <4>2. a \notin bundled
        BY <1>2, <4>1, ReceiptedIsOver
      <4> QED
        BY <4>1, <4>2 DEF ConfirmIInv, ConfirmedIsComplete
    <3> QED
      BY <3>1, <3>2
  <2>3. \A b \in AppIds : status'[b] = IF b = a THEN t ELSE status[b]
    BY <2>1 DEF ConfirmIInv, TrackerIInv, TrackerTypeOK
  <2>4. t # "absent"
    BY StatusNames
  <2> QED
    BY <1>1, <1>3, <2>2, <2>3, <2>4, BesideReceiptsKeeps
<1> QED
  BY <1>5, <1>6

(* A confirmation writes the receipt before anything else, or finds        *)
(* everything done.                                                        *)
LEMMA ConfirmKeepsReceipts ==
    ASSUME ConfirmIInv, NEW a \in AppIds, ConfirmAgain(a) \/ Confirm(a)
    PROVE  ReceiptsAreFollowedUp' /\ ConfirmedIsComplete'
<1>1. /\ work = Idle /\ a \in Live
      /\ UNCHANGED <<status, linked, followUp>>
      /\ Live' = Live
      /\ status[a] # "absent"
  BY StatusNames DEF ConfirmAgain, Confirm, Live
<1>2. work.kind = "none"
  BY <1>1 DEF Idle
<1>3. CASE ConfirmAgain(a)
  <2>1. /\ bundled' = bundled /\ confirmed' = confirmed \cup {a} /\ work' = work
        /\ a \in bundled /\ status[a] = "submitted"
    BY <1>3 DEF ConfirmAgain
  <2>2. a \in linked /\ followUp[a] # "none"
    BY <1>1, <1>2, <2>1 DEF ConfirmIInv, ReceiptsAreFollowedUp
  <2> QED
    BY <1>1, <1>2, <2>1, <2>2 DEF ConfirmIInv, ReceiptsAreFollowedUp, ConfirmedIsComplete
<1>4. CASE Confirm(a)
  <2>1. /\ bundled' = bundled \cup {a} /\ confirmed' = confirmed
        /\ work'.kind = "confirm" /\ work'.app = a
    BY <1>4 DEF Confirm, Advance
  <2> QED
    BY <1>1, <1>2, <2>1 DEF ConfirmIInv, ReceiptsAreFollowedUp, ConfirmedIsComplete
<1> QED
  BY <1>3, <1>4

(* The requests that start another handler.                                *)
LEMMA OtherHandlerKeepsReceipts ==
    ASSUME ConfirmIInv, NEW a \in AppIds, ApproveResume(a) \/ \E s \in Status : ReportFill(a, s)
    PROVE  ReceiptsAreFollowedUp' /\ ConfirmedIsComplete'
<1>1. /\ work = Idle
      /\ UNCHANGED <<status, bundled, linked, followUp, confirmed>>
      /\ Live' = Live
      /\ work'.kind \in {"tailor", "fill"}
  BY DEF ApproveResume, ReportFill, Advance, Live
<1>2. work.kind = "none"
  BY <1>1 DEF Idle
<1> QED
  BY <1>1, <1>2 DEF ConfirmIInv, ReceiptsAreFollowedUp, ConfirmedIsComplete

(* A hop of the handler: the path of a confirmation ends nowhere but in    *)
(* submitted.                                                              *)
LEMMA HopKeepsReceipts ==
    ASSUME ConfirmIInv, TrackerIInv', Hop
    PROVE  ReceiptsAreFollowedUp' /\ ConfirmedIsComplete'
<1> DEFINE app == work.app
           h == NextHop(status[app], work.target)
<1>1. /\ app \in Live /\ app \in AppIds
      /\ work.kind \in AdvanceKinds /\ work.target \in Status
      /\ status[app] \in Status /\ status[app] # work.target
      /\ Reaches(status[app], work.target)
      /\ h \in Allowed[status[app]]
      /\ \A a \in AppIds : status'[a] = IF a = app THEN h ELSE status[a]
      /\ work' = work
  BY HopTakesNextHop DEF ConfirmIInv
<1>2. UNCHANGED <<bundled, linked, followUp, confirmed>>
  BY DEF Hop
<1>3. h \in Status
  BY <1>1, GateHops
<1>4. Reaches(h, work.target)
  BY <1>1, NextHopIsCloser
<1> HIDE DEF h
<1>5. CASE app \notin bundled
  <2>1. app \notin confirmed
    BY <1>1, <1>5 DEF ConfirmIInv, ConfirmedIsComplete
  <2>2. \A a \in AppIds : status'[a] = "absent" => status[a] = "absent"
    BY <1>1, <1>3, StatusNames
  <2> QED
    BY <1>1, <1>2, <1>5, <2>1, <2>2, BesideReceiptsKeeps
<1>6. CASE app \in bundled
  <2>1. work.kind = "confirm"
    BY <1>1, <1>6 DEF ConfirmIInv, ReceiptsAreFollowedUp, Terminal
  <2>2. \A a \in AppIds : a \in Live' <=> a \in Live
    BY <1>1, <1>3 DEF Live
  <2>3. ConfirmedIsComplete'
    BY <1>1, <1>2, <2>2 DEF ConfirmIInv, ConfirmedIsComplete, Live
  <2>4. ReceiptsAreFollowedUp'
    <3>1. \A a \in AppIds : status'[a] = "absent" => a \notin bundled /\ a \notin confirmed
      BY <1>1, <1>3, StatusNames DEF ConfirmIInv, ReceiptsAreFollowedUp
    <3>2. \A a \in Live : a \in bundled /\ status'[a] \notin Terminal => a = app
      BY <1>1, <2>1 DEF ConfirmIInv, ReceiptsAreFollowedUp, Live
    <3>3. \A a \in Live : a \in bundled /\ status'[a] = "submitted" =>
             (a \in linked /\ followUp[a] # "none") \/ a = app
      BY <1>1, <2>1 DEF ConfirmIInv, ReceiptsAreFollowedUp, Live
    <3> QED
      BY <1>1, <1>2, <1>6, <2>1, <2>2, <3>1, <3>2, <3>3 DEF ReceiptsAreFollowedUp, Live
  <2> QED
    BY <2>3, <2>4
<1> QED
  BY <1>5, <1>6

(* The end of a path: a confirmation goes on if it got to submitted, and   *)
(* otherwise started where the workflow was over.                          *)
LEMMA EndOfPathKeepsReceipts ==
    ASSUME ConfirmIInv, EndOfPath
    PROVE  ReceiptsAreFollowedUp' /\ ConfirmedIsComplete'
<1>1. /\ UNCHANGED <<status, bundled, linked, followUp, confirmed>>
      /\ Live' = Live
      /\ work.kind \in AdvanceKinds
  BY DEF EndOfPath, Live
<1>2. work.app \in Live /\ work.app \in AppIds
  BY <1>1 DEF ConfirmIInv, TrackerIInv, TrackerTypeOK, Idle, AdvanceKinds, Live
<1>3. ConfirmedIsComplete'
  BY <1>1 DEF ConfirmIInv, ConfirmedIsComplete
<1>4. CASE work.kind = "confirm"
  <2>1. work.target = "submitted" /\ work.app \in bundled
    BY <1>4 DEF ConfirmIInv, HandlerKnowsItsTarget, ReceiptsAreFollowedUp
  <2>2. CASE status[work.app] = "submitted"
    <3>1. work' = [kind |-> "link", app |-> work.app]
      <4>1. "submitted" \in Status
        BY StatusNames
      <4>2. Reaches("submitted", "submitted")
        BY <4>1, OpenReachesSubmitted
      <4> QED
        BY <1>4, <2>1, <2>2, <4>2 DEF EndOfPath, AfterAdvance
    <3>2. work'.kind = "link" /\ work'.app = work.app
      BY <3>1
    <3> QED
      BY <1>1, <1>3, <1>4, <2>1, <2>2, <3>2, TerminalNames DEF ConfirmIInv, ReceiptsAreFollowedUp
  <2>3. CASE status[work.app] # "submitted"
    <3>1. work' = Idle /\ ~Reaches(status[work.app], "submitted")
      BY <2>1, <2>3 DEF EndOfPath
    <3>2. work'.kind = "none" /\ status[work.app] \in Terminal
      BY <1>2, <3>1, OpenReachesSubmitted DEF Idle, Terminal, Live
    <3> QED
      BY <1>1, <1>3, <1>4, <2>3, <3>2 DEF ConfirmIInv, ReceiptsAreFollowedUp
  <2> QED
    BY <2>2, <2>3
<1>5. CASE work.kind # "confirm"
  <2>1. work' = Idle
    BY <1>5 DEF EndOfPath, AfterAdvance
  <2>2. work'.kind = "none" /\ work.kind \in {"fill", "tailor"}
    BY <1>1, <1>5, <2>1 DEF Idle, AdvanceKinds
  <2> QED
    BY <1>1, <1>3, <2>2 DEF ConfirmIInv, ReceiptsAreFollowedUp
<1> QED
  BY <1>4, <1>5

(* The last two transactions of confirm_submission.                        *)
LEMMA LastStepsKeepReceipts ==
    ASSUME ConfirmIInv, Link \/ FollowUp
    PROVE  ReceiptsAreFollowedUp' /\ ConfirmedIsComplete'
<1>1. /\ UNCHANGED <<status, bundled>>
      /\ Live' = Live
      /\ work.kind \in {"link", "followUp"}
      /\ linked \subseteq linked'
  BY DEF Link, FollowUp, Live
<1>2. work.app \in Live /\ work.app \in AppIds
  BY <1>1 DEF ConfirmIInv, TrackerIInv, TrackerTypeOK, Idle, Live
<1>3. work.app \in bundled /\ status[work.app] = "submitted"
  BY <1>1 DEF ConfirmIInv, ReceiptsAreFollowedUp
<1>4. CASE Link
  <2>1. /\ work'.kind = "followUp" /\ work'.app = work.app
        /\ work.app \in linked'
        /\ UNCHANGED <<followUp, confirmed>>
        /\ work.kind = "link"
    BY <1>4 DEF Link
  <2> QED
    BY <1>1, <1>3, <2>1 DEF ConfirmIInv, ReceiptsAreFollowedUp, ConfirmedIsComplete
<1>5. CASE FollowUp
  <2>1. /\ work'.kind = "none"
        /\ work.app \in linked
        /\ linked' = linked
        /\ confirmed' = confirmed \cup {work.app}
        /\ \A a \in AppIds : followUp'[a] = IF a = work.app THEN "open" ELSE followUp[a]
    BY <1>5 DEF FollowUp, Idle, ConfirmIInv, ReceiptsAreFollowedUp, TrackerIInv, TrackerTypeOK
  <2>2. work.app \notin {a \in AppIds : status[a] = "absent"}
    BY <1>3
  <2>3. Live \subseteq AppIds
    BY DEF Live
  <2>4. ConfirmedIsComplete'
    BY <1>1, <1>3, <2>1, <2>3 DEF ConfirmIInv, ConfirmedIsComplete
  <2>5. ReceiptsAreFollowedUp'
    BY <1>1, <1>3, <2>1, <2>3, <2>2 DEF ConfirmIInv, ReceiptsAreFollowedUp
  <2> QED
    BY <2>4, <2>5
<1> QED
  BY <1>4, <1>5

(* A merge: the row that stays has a receipt of its own only if its        *)
(* workflow is over, and then the merge makes it submitted only if it was. *)
LEMMA MergeKeepsReceipts ==
    ASSUME ConfirmIInv, NEW a \in AppIds, NEW top \in AppIds, Merge(a, top)
    PROVE  ReceiptsAreFollowedUp' /\ ConfirmedIsComplete'
<1>1. /\ a \in Live /\ top \in Live
      /\ work = Idle /\ work' = Idle
      /\ UNCHANGED <<bundled, linked, confirmed>>
      /\ Rank[status[a]] <= Rank[status[top]]
      /\ status[a] \in Status /\ status[top] \in Status
      /\ \A b \in AppIds : status'[b] = IF b = a THEN status[top]
                                        ELSE IF b \in Live THEN "merged" ELSE status[b]
      /\ \A b \in AppIds : followUp'[b] = IF b = a THEN MergedFollowUp ELSE followUp[b]
  BY DEF Merge, Live, ConfirmIInv, TrackerIInv, TrackerTypeOK
<1>2. work.kind = "none" /\ work'.kind = "none"
  BY <1>1 DEF Idle
<1>3. Live' = {a}
  BY <1>1, StatusNames DEF Live
<1>4. followUp[a] # "none" => followUp'[a] # "none"
  BY <1>1 DEF MergedFollowUp, ConfirmIInv, TrackerIInv, TrackerTypeOK
<1>5. ConfirmedIsComplete'
  BY <1>1, <1>3, <1>4 DEF ConfirmIInv, ConfirmedIsComplete
<1>6. a \in bundled => status[a] \in {"submitted", "blocked", "failed", "skipped"}
  BY <1>1, <1>2, TerminalNames DEF ConfirmIInv, ReceiptsAreFollowedUp
<1>7. a \in bundled => /\ status[top] \in Terminal
                       /\ status[top] = "submitted" => status[a] = "submitted"
  BY <1>1, <1>6, TerminalNames, StatusNames DEF Rank
<1>8. \A b \in AppIds : status'[b] = "absent" => status[b] = "absent"
  BY <1>1, StatusNames
<1>9. ReceiptsAreFollowedUp'
  <2>1. \A b \in AppIds : status'[b] = "absent" => b \notin bundled' /\ b \notin confirmed'
    BY <1>1, <1>8 DEF ConfirmIInv, ReceiptsAreFollowedUp
  <2>2. status'[a] = status[top]
    BY <1>1
  <2>3. ~(a \in bundled' /\ status'[a] \notin Terminal)
    BY <1>1, <1>7, <2>2
  <2>4. a \in bundled' /\ status'[a] = "submitted" => a \in linked' /\ followUp'[a] # "none"
    <3>1. SUFFICES ASSUME a \in bundled, status[top] = "submitted"
                   PROVE  a \in linked /\ followUp[a] # "none"
      BY <1>1, <1>4, <2>2
    <3>2. status[a] = "submitted"
      BY <1>7, <3>1
    <3> QED
      BY <1>1, <1>2, <3>1, <3>2 DEF ConfirmIInv, ReceiptsAreFollowedUp
  <2> QED
    BY <1>2, <1>3, <2>1, <2>3, <2>4 DEF ReceiptsAreFollowedUp
<1> QED
  BY <1>5, <1>9

(* Every step but the death of the process.                                *)
LEMMA StepKeepsReceipts ==
    ASSUME ~MayCrash
    PROVE  ConfirmIInv /\ [Next]_vars => ConfirmIInv'
<1> SUFFICES ASSUME ConfirmIInv, [Next]_vars PROVE ConfirmIInv'
  OBVIOUS
<1>1. TrackerIInv' /\ HandlerKnowsItsTarget'
  BY TrackerStepKeepsIInv, StepKeepsTarget DEF ConfirmIInv
<1> SUFFICES ReceiptsAreFollowedUp' /\ ConfirmedIsComplete'
  BY <1>1 DEF ConfirmIInv
<1>2. CASE \E a \in AppIds :
              \/ Create(a) \/ ScoreStart(a) \/ ScoreFinish(a) \/ CompleteFollowUp(a)
              \/ \E s \in Status : UserTransition(a, s)
  BY <1>1, <1>2, OtherRequestKeepsReceipts
<1>3. CASE \E a \in AppIds : ConfirmAgain(a) \/ Confirm(a)
  BY <1>3, ConfirmKeepsReceipts
<1>4. CASE \E a \in AppIds : ApproveResume(a) \/ \E s \in Status : ReportFill(a, s)
  BY <1>4, OtherHandlerKeepsReceipts
<1>5. CASE \E a, top \in AppIds : Merge(a, top)
  BY <1>5, MergeKeepsReceipts
<1>6. CASE Hop
  BY <1>1, <1>6, HopKeepsReceipts
<1>7. CASE EndOfPath
  BY <1>7, EndOfPathKeepsReceipts
<1>8. CASE Link \/ FollowUp
  BY <1>8, LastStepsKeepReceipts
<1>9. CASE UNCHANGED vars
  BY <1>1, <1>9, BesideReceiptsKeeps DEF vars
<1>10. ~Crash
  BY DEF Crash
<1> QED
  BY <1>2, <1>3, <1>4, <1>5, <1>6, <1>7, <1>8, <1>9, <1>10 DEF Next

(* While the process lives, what a confirmation promises is kept.          *)
LEMMA ConfirmInvariant ==
    ASSUME ~MayCrash
    PROVE  Spec => []ConfirmIInv
<1>1. Init => ConfirmIInv
  <2> SUFFICES ASSUME Init PROVE ConfirmIInv
    OBVIOUS
  <2>1. TrackerIInv /\ Live = {} /\ work.kind = "none"
    BY TrackerInitIInv, StatusNames DEF Init, Live, Idle
  <2> QED
    BY <2>1 DEF Init, ConfirmIInv, HandlerKnowsItsTarget, ReceiptsAreFollowedUp,
                ConfirmedIsComplete
<1>2. ConfirmIInv /\ [Next]_vars => ConfirmIInv'
  BY StepKeepsReceipts
<1> QED
  BY <1>1, <1>2, PTL DEF Spec

(* When confirm_submission has returned, the receipt exists, is linked to  *)
(* the application, and a follow-up was scheduled: unless the process      *)
(* dies, which can leave a receipt without the rest, and whatever          *)
(* requests and merges come before or after.                               *)
THEOREM ConfirmedIsCompleteAlways ==
    ASSUME ~MayCrash
    PROVE  Spec => []ConfirmedIsComplete
<1>1. ConfirmIInv => ConfirmedIsComplete
  BY DEF ConfirmIInv
<1>2. Spec => []ConfirmIInv
  BY ConfirmInvariant
<1> QED
  BY <1>1, <1>2, PTL

-----------------------------------------------------------------------------
(* The coarse view that ApplyRuns takes of an application.                 *)

CoarseOf(s) ==
    CASE s \in {"submitted", "failed", "merged"} -> s
      [] s \in {"skipped", "blocked"} -> "closed"
      [] OTHER -> "open"
CoarseStatus == [a \in AppIds |-> CoarseOf(status[a])]
CoarseReceipts == {a \in bundled : status[a] \in Terminal \cup {"merged"}}
CoarseState == <<CoarseStatus, CoarseReceipts>>

(* The workflow is over exactly when it looks so from outside.             *)
LEMMA CoarseNames ==
    /\ \A s \in Status : CoarseOf(s) # "open" <=> s \in Terminal
    /\ \A s \in Status : CoarseOf(s) \in {"open", "submitted", "failed", "closed"}
    /\ \A s : CoarseOf(s) = "submitted" <=> s = "submitted"
    /\ \A s : CoarseOf(s) = "merged" <=> s = "merged"
    /\ CoarseOf("absent") = "open"
BY StatusNames, TerminalNames DEF CoarseOf

(* The steps that the coarse view can show.                                *)
CoarseTransition(a, s) ==
    /\ CoarseStatus[a] = "open"
    /\ s # "open"
    /\ CoarseStatus' = [CoarseStatus EXCEPT ![a] = s]
    /\ CoarseReceipts' = CoarseReceipts

CoarseMark(a) ==
    /\ CoarseReceipts' = CoarseReceipts \cup {a}
    /\ CoarseStatus' = IF CoarseStatus[a] \in {"open", "submitted"}
                         THEN [CoarseStatus EXCEPT ![a] = "submitted"] ELSE CoarseStatus

CoarseRank == [open |-> 0, submitted |-> 1, failed |-> 2, closed |-> 2]

CoarseMerge(group, canonical, top) ==
    /\ {canonical, top} \subseteq group /\ group # {canonical}
    /\ \A a \in group : CoarseStatus[a] # "merged"
    /\ \A a \in group : CoarseRank[CoarseStatus[a]] <= CoarseRank[CoarseStatus[top]]
    /\ CoarseStatus' = [a \in AppIds |-> IF a = canonical THEN CoarseStatus[top]
                                         ELSE IF a \in group THEN "merged" ELSE CoarseStatus[a]]
    /\ CoarseReceipts' = CoarseReceipts

CoarseStep ==
    \/ UNCHANGED CoarseState
    \/ \E a \in AppIds, s \in {"open", "submitted", "failed", "closed"} : CoarseTransition(a, s)
    \/ \E a \in AppIds : CoarseStatus[a] # "merged" /\ CoarseMark(a)
    \/ \E group \in SUBSET AppIds : \E a, b \in group : CoarseMerge(group, a, b)

(* They are steps of ApplyRuns.                                            *)
LEMMA CoarseStepRefines ==
    CoarseStep => [Coarse!ServerNext]_(Coarse!serverVars)
<1> USE DEF CoarseStatus, CoarseOf, CoarseReceipts
<1>1. ASSUME NEW a \in AppIds, NEW s \in {"open", "submitted", "failed", "closed"},
             CoarseTransition(a, s)
      PROVE  Coarse!ServerNext
  BY <1>1 DEF CoarseTransition, Coarse!ServerNext, Coarse!UserRequest, Coarse!AppStatus,
              Coarse!TransitionApplication, Coarse!runVars
<1>2. ASSUME NEW a \in AppIds, CoarseStatus[a] # "merged", CoarseMark(a)
      PROVE  Coarse!ServerNext
  BY <1>2 DEF CoarseMark, Coarse!ServerNext, Coarse!UserRequest, Coarse!MarkSubmitted,
              Coarse!ConfirmSubmission, Coarse!Confirmable, Coarse!Gone, Coarse!runVars
<1>3. ASSUME NEW group \in SUBSET AppIds, NEW a \in group, NEW b \in group,
             CoarseMerge(group, a, b)
      PROVE  Coarse!ServerNext
  <2>1. Coarse!MergeDuplicates(group, a, b)
    BY <1>3 DEF CoarseMerge, CoarseRank, Coarse!MergeDuplicates, Coarse!Gone,
                Coarse!StatusRank, Coarse!runVars
  <2> QED
    BY <2>1 DEF Coarse!ServerNext, Coarse!UserRequest
<1> QED
  BY <1>1, <1>2, <1>3 DEF CoarseStep, CoarseState, Coarse!serverVars

(* A hop of an application: one that ends the workflow shows, as a         *)
(* transition or, if there is a receipt, as the submission it is of.       *)
LEMMA MoveRefines ==
    ASSUME ConfirmIInv, NEW a \in Live, NEW t \in Allowed[status[a]],
           status' = [status EXCEPT ![a] = t], bundled' = bundled,
           a \in bundled => t \notin Terminal \/ t = "submitted"
    PROVE  CoarseStep
<1>1. /\ a \in AppIds /\ status[a] \in Status /\ status[a] \notin Terminal
      /\ t \in Status
      /\ \A b \in AppIds : status'[b] = IF b = a THEN t ELSE status[b]
      /\ bundled \subseteq AppIds
  BY GateHops DEF Live, Terminal, ConfirmIInv, TrackerIInv, TrackerTypeOK
<1>2. CoarseStatus' = [CoarseStatus EXCEPT ![a] = CoarseOf(t)]
  <2>1. CoarseStatus' = [b \in AppIds |-> CoarseOf(IF b = a THEN t ELSE status[b])]
    BY <1>1 DEF CoarseStatus, CoarseOf
  <2> QED
    BY <1>1, <2>1 DEF CoarseStatus
<1>3. CoarseStatus[a] = "open"
  BY <1>1, CoarseNames DEF CoarseStatus
<1>4. CASE t \notin Terminal
  <2>1. CoarseOf(t) = "open" /\ CoarseReceipts' = CoarseReceipts
    BY <1>1, <1>4, CoarseNames, StatusNames DEF CoarseReceipts
  <2>2. CoarseStatus' = CoarseStatus
    BY <1>1, <1>2, <1>3, <2>1 DEF CoarseStatus
  <2> QED
    BY <2>1, <2>2 DEF CoarseStep, CoarseState
<1>5. CASE t \in Terminal /\ a \notin bundled
  <2>1. CoarseReceipts' = CoarseReceipts
    BY <1>1, <1>5 DEF CoarseReceipts
  <2>2. CoarseOf(t) \in {"open", "submitted", "failed", "closed"} /\ CoarseOf(t) # "open"
    BY <1>1, <1>5, CoarseNames
  <2> QED
    BY <1>1, <1>2, <1>3, <2>1, <2>2 DEF CoarseStep, CoarseTransition
<1>6. CASE t = "submitted" /\ a \in bundled
  <2>1. CoarseOf(t) = "submitted" /\ t \in Terminal
    BY <1>6, CoarseNames, TerminalNames
  <2>2. CoarseReceipts' = CoarseReceipts \cup {a}
    BY <1>1, <1>6, <2>1 DEF CoarseReceipts
  <2> QED
    BY <1>1, <1>2, <1>3, <2>1, <2>2 DEF CoarseStep, CoarseMark
<1> QED
  BY <1>4, <1>5, <1>6

(* The first write of a confirmation shows where the workflow is over.     *)
LEMMA ConfirmRefines ==
    ASSUME ConfirmIInv, NEW a \in Live, status' = status, bundled' = bundled \cup {a}
    PROVE  CoarseStep
<1>1. a \in AppIds /\ status[a] \in Status /\ bundled \subseteq AppIds
  BY DEF Live, ConfirmIInv, TrackerIInv, TrackerTypeOK
<1>2. CoarseStatus' = CoarseStatus
  BY DEF CoarseStatus
<1>3. CASE status[a] \notin Terminal
  <2>1. CoarseReceipts' = CoarseReceipts
    BY <1>1, <1>3, StatusNames DEF CoarseReceipts
  <2> QED
    BY <1>2, <2>1 DEF CoarseStep, CoarseState
<1>4. CASE status[a] \in Terminal
  <2>1. CoarseReceipts' = CoarseReceipts \cup {a}
    BY <1>4 DEF CoarseReceipts
  <2>2. CoarseStatus[a] \notin {"open", "merged"}
    BY <1>1, <1>4, CoarseNames, StatusNames DEF CoarseStatus
  <2>3. CoarseStatus[a] = "submitted" => [CoarseStatus EXCEPT ![a] = "submitted"] = CoarseStatus
    BY <1>1 DEF CoarseStatus
  <2> QED
    BY <1>1, <1>2, <2>1, <2>2, <2>3 DEF CoarseStep, CoarseMark
<1> QED
  BY <1>3, <1>4

(* A merge is one: the ranks agree with the coarse ones, and a receipt     *)
(* that shows goes on to show, on an application that is over or is gone.  *)
LEMMA MergeRefines ==
    ASSUME ConfirmIInv, NEW a \in AppIds, NEW top \in AppIds, Merge(a, top)
    PROVE  CoarseStep
<1>1. /\ a \in Live /\ top \in Live /\ Live # {a} /\ Live \subseteq AppIds
      /\ bundled' = bundled /\ bundled \subseteq AppIds
      /\ \A b \in Live : status[b] \in Status /\ Rank[status[b]] <= Rank[status[top]]
      /\ \A b \in AppIds : status'[b] = IF b = a THEN status[top]
                                        ELSE IF b \in Live THEN "merged" ELSE status[b]
  BY DEF Merge, Live, ConfirmIInv, TrackerIInv, TrackerTypeOK
<1>2. work.kind = "none"
  BY DEF Merge, Idle
<1>3. \A b \in Live : CoarseStatus[b] = CoarseOf(status[b]) /\ CoarseStatus[b] # "merged"
  BY <1>1, CoarseNames, StatusNames DEF CoarseStatus
<1>4. ASSUME NEW b \in Live
      PROVE  CoarseRank[CoarseStatus[b]] <= CoarseRank[CoarseStatus[top]]
  <2>1. \A s, t \in Status : Rank[s] <= Rank[t] => CoarseRank[CoarseOf(s)] <= CoarseRank[CoarseOf(t)]
    BY StatusNames DEF Rank, CoarseOf, CoarseRank
  <2> QED
    BY <1>1, <1>3, <1>4, <2>1
<1>5. CoarseStatus' = [b \in AppIds |-> IF b = a THEN CoarseStatus[top]
                                       ELSE IF b \in Live THEN "merged" ELSE CoarseStatus[b]]
  <2>1. CoarseStatus' = [b \in AppIds |-> CoarseOf(IF b = a THEN status[top]
                                                  ELSE IF b \in Live THEN "merged"
                                                  ELSE status[b])]
    BY <1>1 DEF CoarseStatus, CoarseOf
  <2>2. CoarseOf("merged") = "merged"
    BY CoarseNames
  <2> QED
    BY <2>1, <2>2 DEF CoarseStatus
<1>6. CoarseReceipts' = CoarseReceipts
  <2>1. \A b \in Live \cap bundled : status[b] \in Terminal
    BY <1>2, TerminalNames DEF ConfirmIInv, ReceiptsAreFollowedUp
  <2>2. a \in bundled => status[top] \in Terminal
    <3>1. \A s, t \in Status : s \in Terminal /\ Rank[s] <= Rank[t] => t \in Terminal
      BY StatusNames, TerminalNames DEF Rank
    <3> QED
      BY <1>1, <2>1, <3>1
  <2> QED
    BY <1>1, <2>1, <2>2 DEF CoarseReceipts
<1>7. CoarseMerge(Live, a, top)
  BY <1>1, <1>3, <1>4, <1>5, <1>6 DEF CoarseMerge
<1> QED
  BY <1>1, <1>7 DEF CoarseStep

(* Every step but the death of the process.                                *)
LEMMA StepRefines ==
    ASSUME ~MayCrash
    PROVE  ConfirmIInv /\ [Next]_vars => CoarseStep
<1> SUFFICES ASSUME ConfirmIInv, [Next]_vars PROVE CoarseStep
  OBVIOUS
<1>1. CASE UNCHANGED <<status, bundled>>
  BY <1>1 DEF CoarseStep, CoarseState, CoarseStatus, CoarseReceipts
<1>2. CASE \E a \in AppIds : Create(a)
  <2>1. PICK a \in AppIds : Create(a)
    BY <1>2
  <2>2. /\ status[a] = "absent" /\ bundled' = bundled
        /\ \A b \in AppIds : status'[b] = IF b = a THEN "discovered" ELSE status[b]
    BY <2>1 DEF Create, ConfirmIInv, TrackerIInv, TrackerTypeOK
  <2>3. a \notin bundled /\ bundled \subseteq AppIds
    BY <2>2 DEF ConfirmIInv, ReceiptsAreFollowedUp, TrackerIInv, TrackerTypeOK
  <2>4. CoarseOf("discovered") = "open" /\ CoarseOf("absent") = "open"
    BY DEF CoarseOf
  <2>5. CoarseStatus' = CoarseStatus
    BY <2>2, <2>4 DEF CoarseStatus
  <2>6. CoarseReceipts' = CoarseReceipts
    BY <2>2, <2>3 DEF CoarseReceipts
  <2> QED
    BY <2>5, <2>6 DEF CoarseStep, CoarseState
<1>3. CASE \E a \in AppIds : ScoreFinish(a) \/ \E s \in Status : UserTransition(a, s)
  <2>1. PICK a \in AppIds : ScoreFinish(a) \/ \E s \in Status : UserTransition(a, s)
    BY <1>3
  <2>2. work.kind # "confirm" /\ bundled' = bundled
    BY <2>1 DEF ScoreFinish, UserTransition, Idle
  <2>3. \/ status' = status
        \/ a \in Live /\ \E t \in Allowed[status[a]] : status' = [status EXCEPT ![a] = t]
    BY <2>1 DEF ScoreFinish, UserTransition, Transition
  <2>4. CASE a \in Live /\ \E t \in Allowed[status[a]] : status' = [status EXCEPT ![a] = t]
    <3>1. PICK t \in Allowed[status[a]] : status' = [status EXCEPT ![a] = t]
      BY <2>4
    <3>2. a \notin bundled
      BY <2>2, <2>4, <3>1, ReceiptedIsOver
    <3> QED
      BY <2>2, <2>4, <3>1, <3>2, MoveRefines
  <2> QED
    BY <1>1, <2>2, <2>3, <2>4
<1>4. CASE \E a \in AppIds : Confirm(a)
  BY <1>4, ConfirmRefines DEF Confirm
<1>5. CASE Hop
  <2> DEFINE app == work.app
             h == NextHop(status[app], work.target)
  <2>1. /\ app \in Live /\ app \in AppIds
        /\ work.target \in Status
        /\ status[app] \in Status /\ status[app] # work.target
        /\ Reaches(status[app], work.target)
        /\ h \in Allowed[status[app]]
    BY <1>5, HopTakesNextHop DEF ConfirmIInv
  <2>2. status' = [status EXCEPT ![app] = h] /\ bundled' = bundled
    BY <1>5 DEF Hop, Transition
  <2>3. Reaches(h, work.target) /\ h \in Status
    BY <2>1, NextHopIsCloser, GateHops
  <2> HIDE DEF h
  <2>4. ASSUME app \in bundled
        PROVE  h \notin Terminal \/ h = "submitted"
    <3>1. work.target = "submitted"
      BY <2>1, <2>4, ReceiptedIsOver DEF ConfirmIInv, HandlerKnowsItsTarget
    <3> QED
      BY <2>3, <3>1, OpenReachesSubmitted DEF Terminal
  <2> QED
    BY <2>1, <2>2, <2>4, MoveRefines
<1>6. CASE /\ ~Hop
           /\ ~\E a \in AppIds : \/ Create(a) \/ ScoreFinish(a) \/ Confirm(a)
                                 \/ \E s \in Status : UserTransition(a, s)
                                 \/ \E top \in AppIds : Merge(a, top)
  <2>1. UNCHANGED <<status, bundled>>
    BY <1>6 DEF Next, vars, ScoreStart, ApproveResume, ConfirmAgain, CompleteFollowUp,
                ReportFill, EndOfPath, Link, FollowUp, Crash
  <2> QED
    BY <1>1, <2>1
<1>7. CASE \E a, top \in AppIds : Merge(a, top)
  BY <1>7, MergeRefines
<1> QED
  BY <1>2, <1>3, <1>4, <1>5, <1>6, <1>7

(* Seen coarsely, the workflow does what ApplyRuns lets an application do, *)
(* for any number of applications and merges of duplicates, as long as the *)
(* process lives.                                                          *)
THEOREM CoarseViewAlways ==
    ASSUME ~MayCrash
    PROVE  Spec => CoarseView
<1>1. Init => Coarse!ServerInit
  <2> SUFFICES ASSUME Init PROVE Coarse!ServerInit
    OBVIOUS
  <2>1. CoarseStatus = [a \in AppIds |-> "open"]
    BY CoarseNames DEF Init, CoarseStatus
  <2> QED
    BY <2>1 DEF Init, Coarse!ServerInit, CoarseStatus, CoarseOf
<1>2. ConfirmIInv /\ [Next]_vars => [Coarse!ServerNext]_(Coarse!serverVars)
  BY StepRefines, CoarseStepRefines
<1>3. Spec => []ConfirmIInv
  BY ConfirmInvariant
<1> QED
  BY <1>1, <1>2, <1>3, PTL DEF Spec, CoarseView, Coarse!ServerSpec
=============================================================================
