\* A goroutine calls Do and one DoWithContext on a Retrier with two retries (three timers).
CONSTANTS
    Callers = {c1, c2}
    MaxRetries = 2
    Modes <- OneOfEach
    c1 = c1
    c2 = c2
    NoTimer = NoTimer
SPECIFICATION FairSpec
INVARIANTS
    TypeOK
    TimerConservation
    NoTimerDeadlock
    TraceExplainsResult
PROPERTIES
    ImplementsRetryCalls
    CallsSettle
