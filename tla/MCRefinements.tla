----------------------------- MODULE MCRefinements -----------------------------
(* Two refinements, in one run: executor and server implement               *)
(* SubmissionGate, and the workflow of an application implements the coarse *)
(* view that ApplyRuns takes of it.  The two share no variable, and TLC     *)
(* takes the steps of either while the other is still as it began.  Runs    *)
(* and applications are interchangeable.                                    *)
EXTENDS ExecutorProtocol, ApplicationTracker, TLC

BothInit == ProtocolInit /\ Init

(* Bound: at most one application ends, or is merged away.                  *)
Executor ==
    /\ \A a \in AppIds : status[a] = "absent"
    /\ ProtocolNext
    /\ \E a \in Apps : \A other \in Apps \ {a} : appStatus'[other] = "open"
    /\ UNCHANGED vars

Workflow ==
    /\ \A r \in Runs : runStatus[r] = "absent"
    /\ \A e \in Executors : pc[e] = "idle"
    /\ \A a \in Apps : appStatus[a] = "open"
    /\ Next
    /\ UNCHANGED protocolVars

BothSpec == BothInit /\ [][Executor \/ Workflow]_<<protocolVars, vars>>

AllAreAlike == Permutations(Runs) \cup Permutations(Apps)
=============================================================================
