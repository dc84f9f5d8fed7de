\* One Run over three attempts, with a monitor.
SPECIFICATION FairSpec
CONSTANTS
    HasMonitor = TRUE
    RetryInitial = 1
    RetryMax = 3
    MaxAttempts = 3
INVARIANTS AttemptsDoNotOverlap NoStaleReply ReturnsDrained
           HandlersGetTheirWindow
PROPERTIES CancelEndsRun ClosedLoopIsReleased
CHECK_DEADLOCK FALSE
