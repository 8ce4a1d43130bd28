SPECIFICATION BothSpec
CONSTANTS
    Runs = {r1, r2}
    Apps = {a1, a2}
    NoApp = NoApp
    DailyCap = 0
    Executors = {e1}
    NoRun = NoRun
    AllowedApps = {a1, a2}
    MayLose = TRUE
    AppIds = {b1, b2}
    MayCrash = FALSE
SYMMETRY AllAreAlike
INVARIANTS
    ConfirmedIsComplete
PROPERTIES
    KeepsThePromise
    ReceiptOnlyAfterAcceptance
    CoarseView
