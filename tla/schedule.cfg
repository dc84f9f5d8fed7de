\* Every schedule over three rung lengths and up to two rungs, far from overflow.
SPECIFICATION Spec
CONSTANTS
    Rungs = {1, 2, 3}
    MaxRungs = 2
    MaxDelivers = {0, 1, 2, 4}
    Reserves = {0, 1}
    Deliveries = {1, 2, 3}
    Bounds = {0, 4, 6}
    FloorAges = {0, 2, 4}
    Lags = {0, 2}
    PollLag = 1
    Extensions = {0, 1}
    MaxDuration = 32767
INVARIANTS RecoveryWindowIsSafe DeadLetterInTime PinIsBounded
CHECK_DEADLOCK FALSE
