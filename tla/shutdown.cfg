\* Two loops, two callers, two registrations that may share a connection.
SPECIFICATION FairSpec
CONSTANTS
    Loops = {l1, l2}
    Callers = {s1, s2}
    Conns = {c1, c2}
    Drainers = {d1, d2}
    NoConn = NoConn
INVARIANTS ReturnedMeansClosed DrainsAfterJoin NilMeansClean AnswersAgree
PROPERTIES TeardownIsNoFailure FailureCancels ShutdownEnds
CHECK_DEADLOCK FALSE
