SPECIFICATION FairSpec
CONSTANTS
    Profiles = {p1}
    NoProfile = NoProfile
    Boards = {b1}
    Postings = {x, y}
    Refreshers = {f1, f2}
INVARIANTS
    AppliedPostingIsKept
    FeedHasItsEntry
PROPERTIES
    OutageKeepsFeed
    ListedReachesFeed
    TakenDownLeavesFeed
