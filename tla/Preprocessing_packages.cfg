SPECIFICATION Spec
CONSTANTS
    Names <- MCNames
    Packages <- MCPackages
    InvalidNames = {"bad name"}
    ApisEnabled = TRUE
INVARIANTS
    VerdictIsRight
    TasksTellTheOutcome
    PremisIsTrue
    NothingIsLost
    BagIsComplete
    RefusedIsUntouched
    IdentifiersCoverContent
CHECK_DEADLOCK FALSE
