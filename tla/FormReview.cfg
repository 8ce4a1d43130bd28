SPECIFICATION FormsSpec
CONSTANTS
    Asked <- MCAsked
    Facts <- MCFacts
    Holds <- MCHolds
    Values <- MCValues
    Aliases <- MCAliases
    Truth <- MCTruth
    Alike <- MCAlike
    SameSkill = {}
    CustomPrompts <- MCCustomPrompts
    Track = "unknown"
    Unknown = Unknown
    None = None
    Asks <- MCAsks
    Texts <- MCTexts
    Grounded <- MCGrounded
    ClientIntents = {"relocation", "unknown"}
    Phrases = {"moving"}
    Profiles <- MCProfiles
    Entered = {"no"}
    Edited = {"yes"}
    EditedFacts <- MCEditedFacts
    EditedPrompts = {"why us"}
    MaxSteps = 2
    MaxEdits = 3
INVARIANTS
    FormTypeOK
    RememberedAnswerIsUsed
PROPERTIES
    FillsAreDue
    DraftsSettle
CHECK_DEADLOCK FALSE
