SPECIFICATION Spec
CONSTANTS
    Names <- MCNames
    Packages <- MCPackages
    InvalidNames = {"bad name"}
    ApisEnabled = TRUE
INVARIANTS
    IdentifiersNameFiles
CHECK_DEADLOCK FALSE
