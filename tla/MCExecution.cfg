\* One run with one retry, requests that fail, are answered or hang, a busy registry.
CONSTANTS
    Errs = {"canceled", "retryable", "status", "deadline", "closed", "opClosed"}
    Is <- Wraps
    Defaults <- DefaultErrors
    Runs = {r1}
    MaxRetries = 1
    Policies <- Jobs
    Statuses = {200, 404, 503}
    Failures = {"deadline", "opClosed"}
    UserErrs = {"closed", "opClosed"}
    MaxLen = 2
SPECIFICATION FairSpec
CHECK_DEADLOCK FALSE
INVARIANTS
    TypeOK
    PayloadExplained
PROPERTIES
    RetryJustified
    UnRegisterSpares
    RunRecorded
    CanceledRunEnds
