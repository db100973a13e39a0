\* Two goroutines write to the status and the history of one job.
CONSTANTS
    Ids = {1}
    Writers = {w1, w2}
    NoWriter = NoWriter
    Retentions <- AgeOrRows
    HistoryLimit = 2
    EndStates = {"canceled"}
    MaxSeq = 2
    MaxActive = 1
    MaxTime = 3
SPECIFICATION Spec
INVARIANT HistoryMatchesStatus
PROPERTY NoRunLostEarly
PROPERTY ImplementsContract
