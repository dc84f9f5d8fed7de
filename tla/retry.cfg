\* One message, two replicas: stale deliveries, stops and crashes interleave.
SPECIFICATION FairSpec
CONSTANTS
    Messages = {m1}
    Replicas = {r1, r2}
    NoDelivery = NoDelivery
    MaxDeliver = 3
    CaptureReserve = 1
    MinDeliveries = 2
    Breaker = "enforce"
    MaxMessages = 2
    MaxStops = 1
INVARIANTS TypeOK ReportsAreTrue FinalDeliveryAccounted
PROPERTIES NeverADrop RetriedComesBack EveryMessageEnds
CHECK_DEADLOCK FALSE
