----------------------------- MODULE MCApplyRuns -----------------------------
(* The apply-run API for TLC, in two kinds of behaviour whose state spaces  *)
(* add up: any clients send any requests about all runs, or the executors   *)
(* of ExecutorProtocol race for one run.  Runs are interchangeable, and so  *)
(* are applications and executors: no definition names one.                 *)
EXTENDS ExecutorProtocol, TLC

VARIABLE raced   \* the run that executors race for; NoRun: there are none

AllAreAlike == Permutations(Runs) \cup Permutations(Apps) \cup Permutations(Executors)

ClientsOrExecutorsInit == ProtocolInit /\ raced \in Runs \cup {NoRun}

AnyClients ==
    /\ raced = NoRun
    /\ ServerNext
    /\ UNCHANGED <<executorVars, clicks, accepted, raced>>

(* Nothing is asked about other runs, and of one application only.          *)
ExecutorsRace ==
    /\ raced # NoRun
    /\ ProtocolNext
    /\ \A r \in Runs \ {raced} : runStatus'[r] = "absent"
    /\ \E a \in Apps : /\ runApp'[raced] \in {a, NoApp}
                       /\ \A other \in Apps \ {a} : appStatus'[other] = "open"
    /\ UNCHANGED raced

ClientsOrExecutors ==
    ClientsOrExecutorsInit /\ [][AnyClients \/ ExecutorsRace]_<<protocolVars, raced>>
=============================================================================
