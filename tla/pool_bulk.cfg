SPECIFICATION Spec
CONSTANTS
    Callers = {c1, c2, c3}
    NumPipes = 2
    Transfers = {t1, t2}
    Devices = {d1}
    Endpoints = {e1}
    Requested = {e1}
    EP0 = EP0
    HwStatuses = {"COMPLETED", "STALL"}
    SubmitFailures = {"EIO"}
    FlushMayFail = FALSE
    NoTransfer = NoTransfer
    NoCaller = NoCaller
SYMMETRY Symmetry
INVARIANTS AccountingExact OwnerWaits WaiterServed CompletedMeansFired NoTransferLeak AbortJustified
PROPERTIES OkOnlyFromHardware
