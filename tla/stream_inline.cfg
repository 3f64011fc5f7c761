SPECIFICATION FairSpec
CONSTANTS
    NumUrbs = 3
    MaxInflight = 2
    Verdicts <- AllVerdicts
    Virtual = TRUE
PROPERTIES ReaderReturns
