\* Healthy polls and acknowledgements that land: the breaker as designed.
SPECIFICATION Spec
CONSTANTS
    Processes = {p1}
    MaxSeq = 2
    MaxDeliver = 3
    CaptureReserve = 1
    MinDeliveries = 2
    Enforce = TRUE
    FloorAge = 2
    PollInterval = 1
    PollTimeout = 0
    FailureTTL = 3
    MaxTracked = 2
    PollMayFail = FALSE
    AckMayBeLost = FALSE
    LoopMayBeLost = FALSE
    MaxTime = 5
    MaxFaults = 1
INVARIANTS OneClaimPerWindow ClaimsAreFresh
           ClaimsBurnedTheWindow
CHECK_DEADLOCK FALSE
