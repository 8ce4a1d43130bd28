SPECIFICATION UninterruptedSpec
CONSTANTS
    Runs = {r1, r2}
    Apps = {a1, a2}
    NoApp = NoApp
    DailyCap = 0
    Executors = {e1}
    NoRun = NoRun
    AllowedApps = {a1}
    MayLose = FALSE
PROPERTIES
    ClaimedRunMovesOn
    QueuedRunIsTaken
