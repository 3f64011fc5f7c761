SPECIFICATION FairSpec
CONSTANTS
    Callers = {c1, c2}
    NumPipes = 1
    Transfers = {t1, t2}
    Devices = {d1}
    Endpoints = {e1}
    Requested = {e1}
    EP0 = EP0
    HwStatuses = {"COMPLETED"}
    SubmitFailures = {}
    FlushMayFail = TRUE
    NoTransfer = NoTransfer
    NoCaller = NoCaller
INVARIANTS LateExplained
PROPERTIES EveryCallReturns
