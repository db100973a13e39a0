\* As many goroutines as the pool has timers: a canceled call may never return.
CONSTANTS
    Callers = {c1, c2}
    MaxRetries = 1
    Modes <- WithCtx
    c1 = c1
    c2 = c2
    NoTimer = NoTimer
SPECIFICATION FairSpec
CHECK_DEADLOCK FALSE
PROPERTY CancelledCallReturns
