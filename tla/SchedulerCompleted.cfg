\* A canceled job may be reported as completed.
CONSTANTS
    Ids = {1}
    Entries = {e1, e2}
    NoEntry = NoEntry
    Schedules <- ForeverOnly
    Limit = 0
    RunBound = 1
    HistoryLimit = 1
    CtxBound = FALSE
    MaxOutages = 0
    MaxCrashes = 0
SPECIFICATION Spec
SYMMETRY EntrySymmetry
CHECK_DEADLOCK FALSE
INVARIANT CompletedMeansNatural
