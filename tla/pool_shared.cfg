SPECIFICATION Spec
CONSTANTS
    Callers = {c1, c2}
    NumPipes = 2
    Transfers = {t1, t2}
    Devices = {d1}
    Endpoints = {e1}
    Requested = {e1}
    EP0 = EP0
    HwStatuses = {"COMPLETED"}
    SubmitFailures = {}
    FlushMayFail = FALSE
    NoTransfer = NoTransfer
    NoCaller = NoCaller
SYMMETRY Symmetry
INVARIANTS ResetOnlyIfUnlinked
