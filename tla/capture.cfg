\* Two sources, one outside a domain, two publications or replays, two captures into
\* each DLQ; one Msg-Id that different messages may share.
SPECIFICATION Spec
CONSTANTS
    Sources = {S1, S2}
    Bare = {S1}
    Dlq = Dlq
    Parking = Parking
    Ids = {id}
    None = None
    Forged = Forged
    MaxDelivered = 2
    MaxPublished = 2
    MaxCaptures = 2
INVARIANTS OriginIsFirstHop HopsAreCounted OnlyOwnHeadersSurvive CapturesAreStored
CHECK_DEADLOCK FALSE
