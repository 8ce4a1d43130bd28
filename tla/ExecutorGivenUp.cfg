SPECIFICATION FairProtocolSpec
CONSTANTS
    Runs = {r1}
    Apps = {a1, a2}
    NoApp = NoApp
    DailyCap = 0
    Executors = {e1}
    NoRun = NoRun
    AllowedApps = {a1}
    MayLose = FALSE
PROPERTIES
    GivenUpRunEnds
