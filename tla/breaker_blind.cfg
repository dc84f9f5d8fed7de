\* FloorMonitor's comment against the code: a consume loop that was down for a while.
SPECIFICATION Spec
CONSTANTS
    Processes = {p1}
    MaxSeq = 2
    MaxDeliver = 3
    CaptureReserve = 1
    MinDeliveries = 2
    Enforce = TRUE
    FloorAge = 3
    PollInterval = 1
    PollTimeout = 0
    FailureTTL = 3
    MaxTracked = 2
    PollMayFail = FALSE
    AckMayBeLost = FALSE
    LoopMayBeLost = TRUE
    MaxTime = 5
    MaxFaults = 1
INVARIANT ClaimsOnStuckConsumer
CHECK_DEADLOCK FALSE
