\* A job that reuses an id is never reported as running.
CONSTANTS
    Ids = {1}
    Entries = {e1, e2}
    NoEntry = NoEntry
    Schedules <- OnceOrForever
    Limit = 0
    RunBound = 1
    HistoryLimit = 1
    CtxBound = FALSE
    MaxOutages = 0
    MaxCrashes = 0
SPECIFICATION Spec
SYMMETRY EntrySymmetry
CHECK_DEADLOCK FALSE
INVARIANT RunningReported
