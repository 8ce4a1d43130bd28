---------------------------- MODULE SubmissionGate ----------------------------
(***************************************************************************)
(* What the executor promises about the employer's Submit button           *)
(* (job_models.ApplyRun's docstring, extension/README.md "Local            *)
(* executor"): it is clicked only on a run whose reviewed form the user    *)
(* approved and did not take back, on the very page that was reviewed, and *)
(* at most once per run.                                                   *)
(***************************************************************************)
CONSTANTS Runs, Executors

VARIABLE gate  \* per run: how far the user's consent has gone

(* Before consent, a run may be under review on the page of one executor.  *)
GateStates == [stage : {"closed", "clicked", "withdrawn"}]
                 \cup [stage : {"shown", "consented"}, page : Executors]

Closed == [stage |-> "closed"]
Shown(e) == [stage |-> "shown", page |-> e]
Consented(e) == [stage |-> "consented", page |-> e]
Clicked == [stage |-> "clicked"]
Withdrawn == [stage |-> "withdrawn"]

GateInit == gate = [r \in Runs |-> Closed]

(* The executor shows the filled form and pauses for review.               *)
Show(r, e) ==
    /\ gate[r] = Closed
    /\ gate' = [gate EXCEPT ![r] = Shown(e)]

(* The user approves what was shown.                                       *)
Consent(r, e) ==
    /\ gate[r] = Shown(e)
    /\ gate' = [gate EXCEPT ![r] = Consented(e)]

(* The Submit button on the approved page is clicked; this uses the        *)
(* consent up.                                                             *)
Click(r, e) ==
    /\ gate[r] = Consented(e)
    /\ gate' = [gate EXCEPT ![r] = Clicked]

(* Runs end without a click: cancelled, failed, or handed back, or their    *)
(* pages lost, all of an executor's at once when it is killed.             *)
Withdraw(ended) ==
    /\ \A r \in ended : gate[r] # Clicked
    /\ gate' = [r \in Runs |-> IF r \in ended THEN Withdrawn ELSE gate[r]]

GateNext ==
    \/ \E r \in Runs, e \in Executors : Show(r, e) \/ Consent(r, e) \/ Click(r, e)
    \/ \E ended \in SUBSET Runs : Withdraw(ended)

GateSpec == GateInit /\ [][GateNext]_gate
=============================================================================
