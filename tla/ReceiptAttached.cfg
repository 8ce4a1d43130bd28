SPECIFICATION RecordsSpec
CONSTANTS
    AppIds = {a1, a2}
    MayCrash = TRUE
    Resumes = {"first", "second"}
    Letters = {"modest", "bold"}
    SavedResume = "saved"
    Supports <- SomeSupports
    MaxArtifacts = 3
    None = None
    Profiles = {"default", "other"}
    Default = "default"
    Files = {"cv", "resume"}
    Tokens = {t1, t2}
    Requests = {r1, r2}
    Absent = Absent
SYMMETRY Alike
PROPERTIES
    ReceiptNamesWhatWasAttached
CHECK_DEADLOCK FALSE
