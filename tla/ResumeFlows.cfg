SPECIFICATION FlowsSpec
CONSTANTS
    Requests = {h1, h2}
    Sessions = {s1}
    NoRequest = NoRequest
    Budgets = {1}
    MaxBudget = 1
    TTL = 0
    TailorTTL = 1
    Drafts = {d1}
    NoResult = NoResult
    Prose = {"p1", "p2"}
    Skills = {"k1"}
    Wordings <- MCWordings
    Original <- MCOriginal
    AllowedWords = 2
    MinimumWords = 1
    Scopes <- MCScopes
    Pages <- MCPages
    Score <- MCScore
    Length <- MCLength
    Target = 5
    Tolerance = 1
    MaxReviews = 2
    MaxAttempts = 2
    None = None
INVARIANTS
    TailorTypeOK
    OverspendIsBounded
    LockIsItsWorkers
    HistoryExplainsText
    ApprovedPdfIsOfItsRequest
    ReportIsOfTheResume
    AppliedTextIsSound
    OverflowIsJustified
PROPERTIES
    FreshRowsStay
    EveryRequestEnds
    TargetIsKept
    PipelineEnds
