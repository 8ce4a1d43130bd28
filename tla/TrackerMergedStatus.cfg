SPECIFICATION Spec
CONSTANTS
    AppIds = {a1, a2}
    MayCrash = FALSE
SYMMETRY AppsAreAlike
INVARIANTS
    SubmittedStaysSubmitted
