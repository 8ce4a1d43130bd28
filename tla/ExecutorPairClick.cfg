SPECIFICATION UninterruptedSpec
CONSTANTS
    Runs = {r1}
    Apps = {a1}
    NoApp = NoApp
    DailyCap = 0
    Executors = {e1, e2}
    NoRun = NoRun
    AllowedApps = {a1}
    MayLose = FALSE
PROPERTIES
    ClickIsApproved
