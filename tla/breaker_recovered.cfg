\* noteFailure's comment against the code: a message that succeeded in between.
SPECIFICATION Spec
CONSTANTS
    Processes = {p1}
    MaxSeq = 2
    MaxDeliver = 3
    CaptureReserve = 1
    MinDeliveries = 2
    Enforce = TRUE
    FloorAge = 2
    PollInterval = 1
    PollTimeout = 0
    FailureTTL = 3
    MaxTracked = 2
    PollMayFail = FALSE
    AckMayBeLost = TRUE
    LoopMayBeLost = FALSE
    MaxTime = 5
    MaxFaults = 0
INVARIANTS ClaimsBurnedTheWindow
CHECK_DEADLOCK FALSE
