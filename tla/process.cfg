\* Two workers on one message, with heartbeats that extend a lease of three ticks
\* at most twice and an envelope that grows past what a duration holds.
SPECIFICATION Spec
CONSTANTS
    Workers = {w1, w2}
    AckWait = 3
    MaxTicks = 2
    MaxDuration = 3
    NakDelays = {2}
    Factors = {2}
    MaxDelays = {0, 2}
    MaxDelivers = {0, 2}
    Terms = {TRUE, FALSE}
    MaxServed = 2
INVARIANTS GivenUpIsCaptured DelaysGrow
PROPERTIES RunwayKept WedgedIsReleased StopEnds
CHECK_DEADLOCK FALSE
