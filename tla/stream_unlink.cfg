SPECIFICATION Spec
CONSTANTS
    NumUrbs = 3
    MaxInflight = 2
    Verdicts <- AllVerdicts
    Virtual = FALSE
INVARIANTS UnlinkCancels
