\* One slot, callbacks that only the end of ctx ends: Stop returns, canceled jobs end.
CONSTANTS
    Ids = {1}
    Entries = {e1, e2}
    NoEntry = NoEntry
    Schedules <- OnceOrForever
    Limit = 1
    RunBound = 1
    HistoryLimit = 1
    CtxBound = FALSE
    MaxOutages = 0
    MaxCrashes = 0
SPECIFICATION FairSpec
CHECK_DEADLOCK FALSE
PROPERTIES
    StopReturns
    CancelledJobEnds
