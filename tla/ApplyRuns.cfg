SPECIFICATION ClientsOrExecutors
CONSTANTS
    Runs = {r1, r2, r3}
    Apps = {a1, a2}
    NoApp = NoApp
    DailyCap = 2
    Executors = {e1, e2, e3}
    NoRun = NoRun
    AllowedApps = {a1, a2}
    MayLose = TRUE
SYMMETRY AllAreAlike
INVARIANTS
    OneActiveRun
    SubmittedRunIsBacked
    TokenFollowsApproval
    CountedRunsWithinCap
    ClickedAtMostOnce
    SubmitStepsAreApproved
