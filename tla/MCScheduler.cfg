\* In-memory storage: two ids, which jobs may reuse, and two slots.
CONSTANTS
    Ids = {1, 2}
    Entries = {e1, e2}
    NoEntry = NoEntry
    Schedules <- AllSchedules
    Limit = 2
    RunBound = 2
    HistoryLimit = 1
    CtxBound = FALSE
    MaxOutages = 0
    MaxCrashes = 0
SPECIFICATION Spec
SYMMETRY EntrySymmetry
CHECK_DEADLOCK FALSE
INVARIANTS
    LiveIsRegistered
    JobCountExact
    RunAccounting
    RunningIffActive
    SemaphoreBound
    StopQuiescence
PROPERTY TerminalSettled
