SPECIFICATION Spec
CONSTANTS
    Callers = {c1, c2}
    NumPipes = 2
    Transfers = {t1, t2, t3}
    Devices = {d1}
    Endpoints = {e1}
    Requested = {EP0}
    EP0 = EP0
    HwStatuses = {"COMPLETED", "STALL"}
    SubmitFailures = {"EIO"}
    FlushMayFail = FALSE
    NoTransfer = NoTransfer
    NoCaller = NoCaller
SYMMETRY Symmetry
INVARIANTS CompletedMeansFired
