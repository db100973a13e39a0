\* SQLite: writes fail under a done ctx and in outages, the process restarts.
CONSTANTS
    Ids = {1}
    Entries = {e1, e2}
    NoEntry = NoEntry
    Schedules <- OnceOrForever
    Limit = 1
    RunBound = 1
    HistoryLimit = 1
    CtxBound = TRUE
    MaxOutages = 1
    MaxCrashes = 1
SPECIFICATION Spec
SYMMETRY EntrySymmetry
CHECK_DEADLOCK FALSE
INVARIANT TypeOK
INVARIANT LiveIsRegistered
INVARIANT RegisteredIsStored
PROPERTY TerminalSettled
