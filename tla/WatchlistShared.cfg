SPECIFICATION Spec
CONSTANTS
    Profiles = {p1, p2}
    NoProfile = NoProfile
    Boards = {b1}
    Postings = {x}
    Refreshers = {f1}
PROPERTIES
    RefreshKeepsApplied
