\* Ladders whose total exceeds what a duration holds.
SPECIFICATION Spec
CONSTANTS
    Rungs = {3}
    MaxRungs = 0
    MaxDelivers = {4, 5}
    Reserves = {0}
    Deliveries = {1}
    Bounds = {0, 6}
    FloorAges = {0}
    Lags = {0}
    PollLag = 0
    Extensions = {0}
    MaxDuration = 7
INVARIANT DeadLetterInTime
CHECK_DEADLOCK FALSE
