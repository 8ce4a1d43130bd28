----------------------------- MODULE MCResumeFlows -----------------------------
(* Two machines in one run: requests on resume and tailor sessions, for     *)
(* which a pipeline is a number of calls and an outcome, and the pipeline   *)
(* that one request runs.  They share no variable and no definition reads   *)
(* both, so TLC takes the steps of either while the other is still as it    *)
(* began: the state spaces add up instead of multiplying.                   *)
EXTENDS TailorSessions, ResumeOptimizer, FiniteSetsExt

(* Wordings: short, good, wordy, one that LaTeX refuses, one that claims    *)
(* what the original does not support.                                      *)
W(words, points, sound, compiles) ==
    [words |-> words, points |-> points, sound |-> sound, compiles |-> compiles]
MCOriginal == W(2, 1, TRUE, TRUE)
MCWordings ==
    {MCOriginal, W(1, 1, TRUE, TRUE), W(2, 2, TRUE, TRUE), W(3, 2, TRUE, TRUE),
     W(3, 2, TRUE, FALSE), W(3, 3, FALSE, TRUE)}

(* The original resume has 6 words: it fits the longer page only.           *)
MCPages == {5, 6}
MCScopes == {{"p1", "k1"}}
MCScore(r) == MapThenSumSet(LAMBDA s : Wording(r, s).points, Statements)
MCLength(r) == MapThenSumSet(LAMBDA s : Wording(r, s).words, Statements)

FlowsInit == TailorInit /\ OptimizerInit
FlowsNext ==
    \/ TailorNext /\ phase = "idle" /\ UNCHANGED optimizerVars
    \/ OptimizerNext /\ opened = {} /\ UNCHANGED allVars
FlowsSpec ==
    /\ FlowsInit /\ [][FlowsNext]_<<allVars, optimizerVars>>
    /\ Fairness /\ WF_optimizerVars(Pipeline)
=============================================================================
