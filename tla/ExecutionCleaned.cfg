\* One job without errors of its own, whose only error gets unregistered in time.
CONSTANTS
    Errs = {"canceled", "retryable", "status", "deadline", "closed", "opClosed"}
    Is <- Wraps
    Defaults <- DefaultErrors
    Runs = {r1}
    MaxRetries = 1
    Policies <- Plain
    Statuses = {200}
    Failures = {"deadline"}
    UserErrs = {"closed"}
    MaxLen = 2
SPECIFICATION Spec
CHECK_DEADLOCK FALSE
PROPERTY TemporaryNotFinal
