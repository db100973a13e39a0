\* SQLite: a job whose ctx is done during a run stays running, and stored, for ever.
CONSTANTS
    Ids = {1}
    Entries = {e1, e2}
    NoEntry = NoEntry
    Schedules <- OnceOrForever
    Limit = 0
    RunBound = 1
    HistoryLimit = 1
    CtxBound = TRUE
    MaxOutages = 0
    MaxCrashes = 0
SPECIFICATION Spec
SYMMETRY EntrySymmetry
CHECK_DEADLOCK FALSE
INVARIANT RunningMeansActive
