SPECIFICATION FairSpec
CONSTANTS
    NumUrbs = 3
    MaxInflight = 2
    Verdicts <- AllVerdicts
    Virtual = FALSE
INVARIANTS TypeOK InFlightAgrees TeardownCancelsAll
PROPERTIES ContractSpec ReaderReturns
