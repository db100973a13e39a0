\* Seven-bit integers; three jobs, a history of two runs.
CONSTANTS
    MaxInt = 63
    DefaultOptions <- DefaultRetrier
    Options <- Retriers
    AttemptTimes = {0, 1, 5}
    Ids = {1, 2, 3}
    States = {"scheduled", "removed"}
    Limits <- ClientLimits
    HistoryLimit = 2
    MaxRuns = 5
SPECIFICATION Spec
CHECK_DEADLOCK FALSE
INVARIANTS
    RetriesFitTimeout
    QueriesExact
    PagingComplete
    PollsInOrder
PROPERTY BackoffHonoured
