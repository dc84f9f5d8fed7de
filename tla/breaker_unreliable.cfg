\* Polls fail, acks and loops get lost, and three failing messages have room for two clocks.
SPECIFICATION Spec
CONSTANTS
    Processes = {p1}
    MaxSeq = 3
    MaxDeliver = 2
    CaptureReserve = 0
    MinDeliveries = 1
    Enforce = TRUE
    FloorAge = 2
    PollInterval = 1
    PollTimeout = 0
    FailureTTL = 1
    MaxTracked = 2
    PollMayFail = TRUE
    AckMayBeLost = TRUE
    LoopMayBeLost = TRUE
    MaxTime = 2
    MaxFaults = 1
INVARIANTS FailureClocksBounded StallClockNeverEarly
CHECK_DEADLOCK FALSE
