-------------------------------- MODULE Retrier --------------------------------
(***************************************************************************)
(* retrier.go: goroutines that share one Retrier and call Do or            *)
(* DoWithContext on it, again and again.                                   *)
(*                                                                         *)
(* A call takes one timer of the pool for the overall timeout and, during  *)
(* each backoff, a second one.  NewRetrier sizes the pool MaxRetries + 1,  *)
(* whatever the number of callers.                                         *)
(*                                                                         *)
(* Data abstraction: an error of the retried function is "temp" when       *)
(* shouldRetry answers true for it and "perm" otherwise; durations are     *)
(* left out, a timer that is armed may fire at any moment.                 *)
(***************************************************************************)
EXTENDS Naturals, Sequences, FiniteSets

CONSTANTS Callers,      \* the goroutines that share the Retrier
          MaxRetries,   \* retries after the first attempt
          Modes,        \* the methods each of them calls
          NoTimer       \* "holds no timer"

ASSUME CallersAssumption == IsFiniteSet(Callers)
ASSUME MaxRetriesAssumption == MaxRetries \in Nat
ASSUME ModesAssumption == Modes \in [Callers -> SUBSET {"Do", "DoWithContext"}]
ASSUME NoTimerAssumption == NoTimer \notin Nat

VARIABLES pool, timer,  \* the timer pool
          pc,           \* where the caller is
          mode,         \* which method it called
          attempt,      \* the loop variable
          tmo,          \* the timer of the overall timeout
          wt,           \* the timer of the backoff wait
          worker,       \* the goroutine DoWithContext runs an attempt in
          trace,        \* errs.Attempts
          last,         \* errs.Last
          ctxDone,      \* the caller's ctx is done
          stopped       \* r.ctx is done

callVars == <<mode, attempt, tmo, wt, worker, trace, last, ctxDone>>
vars == <<pool, timer, pc, mode, attempt, tmo, wt, worker, trace, last,
          ctxDone, stopped>>

\* Mutant: no timer for the overall timeout.
PoolSizeShort == MaxRetries

\* What NewRetrier and ensureInitialized pass to NewTimerPool.
PoolSize == MaxRetries + 1

TP == INSTANCE TimerPool

Timers == TP!Timers
Phases == {"idle", "init", "attempt", "getRetry", "backoff", "return"}
Failures == {"temp", "perm"}
Results  == Failures \cup {"nil"}
Aborts   == {"ctx", "stopped", "timeout"}
Lasts    == Results \cup Aborts \cup {"refused"}
\* "orphan": the attempt was abandoned and its function still runs.
Workers  == {"none", "running", "orphan"} \cup Results

--------------------------------------------------------------------------------
Init ==
    /\ TP!NewTimerPool
    /\ pc      = [c \in Callers |-> "idle"]
    /\ mode    = [c \in Callers |-> "Do"]
    /\ attempt = [c \in Callers |-> 0]
    /\ tmo     = [c \in Callers |-> NoTimer]
    /\ wt      = [c \in Callers |-> NoTimer]
    /\ worker  = [c \in Callers |-> "none"]
    /\ trace   = [c \in Callers |-> <<>>]
    /\ last    = [c \in Callers |-> "nil"]
    /\ ctxDone = [c \in Callers |-> FALSE]
    /\ stopped = FALSE

\* Do or DoWithContext is called with a function, a new ctx and empty Errors.
\* Bound: a caller leaves at most one abandoned attempt behind.
Start(c, m) ==
    /\ pc[c] = "idle"
    /\ m = "DoWithContext" => worker[c] = "none"
    /\ pc' = [pc EXCEPT ![c] = "init"]
    /\ mode' = [mode EXCEPT ![c] = m]
    /\ UNCHANGED <<pool, timer, attempt, tmo, wt, worker, trace, last, ctxDone, stopped>>

\* ... or with a nil function, or on a Retrier that Validate refuses: the early return
\* comes before a timer is taken.
StartRefused(c, m) ==
    /\ pc[c] = "idle"
    /\ pc' = [pc EXCEPT ![c] = "return"]
    /\ mode' = [mode EXCEPT ![c] = m]
    /\ last' = [last EXCEPT ![c] = "refused"]
    /\ UNCHANGED <<pool, timer, attempt, tmo, wt, worker, trace, ctxDone, stopped>>

\* The start of an attempt: DoWithContext runs the function in a goroutine.
Spawned(c) == IF mode[c] = "Do" THEN worker ELSE [worker EXCEPT ![c] = "running"]

\* timeoutTimer := r.timer.Get(), blocking while the pool is empty.
GetTimeoutTimer(c) ==
    /\ pc[c] = "init"
    /\ \E t \in Timers : TP!Get(t) /\ tmo' = [tmo EXCEPT ![c] = t]
    /\ pc' = [pc EXCEPT ![c] = "attempt"]
    /\ worker' = Spawned(c)
    /\ UNCHANGED <<mode, attempt, wt, trace, last, ctxDone, stopped>>

\* Mutants: the loop goes on once too often, or stops one retry short.
ExhaustedLate(c) == attempt[c] > MaxRetries
ExhaustedEarly(c) == attempt[c] + 1 >= MaxRetries

\* The loops' test for the last attempt.
Exhausted(c) == attempt[c] = MaxRetries

\* What both loops do with the result r of an attempt, up to the backoff wait.
Handle(c, r) ==
    \/ /\ r = "nil"
       /\ last' = [last EXCEPT ![c] = "nil"]
       /\ pc' = [pc EXCEPT ![c] = "return"]
       /\ UNCHANGED trace
    \/ /\ r = "perm"
       /\ trace' = [trace EXCEPT ![c] = Append(@, r)]
       /\ last' = [last EXCEPT ![c] = r]
       /\ pc' = [pc EXCEPT ![c] = "return"]
    \/ /\ r = "temp" /\ Exhausted(c)
       /\ trace' = [trace EXCEPT ![c] = Append(Append(@, r), "max")]
       /\ last' = [last EXCEPT ![c] = r]
       /\ pc' = [pc EXCEPT ![c] = "return"]
    \/ /\ r = "temp" /\ ~Exhausted(c)
       /\ trace' = [trace EXCEPT ![c] = Append(@, r)]
       /\ pc' = [pc EXCEPT ![c] = "getRetry"]
       /\ UNCHANGED last

\* Do: the function returns r in the caller's goroutine.
FuncReturns(c, r) ==
    /\ pc[c] = "attempt" /\ mode[c] = "Do"
    /\ Handle(c, r)
    /\ UNCHANGED <<pool, timer, mode, attempt, tmo, wt, worker, ctxDone, stopped>>

\* Mutant: an unbuffered resultCh, whose send waits for a receiver.
WorkerReturnsUnbuffered(c, r) ==
    /\ worker[c] = "running" /\ worker' = [worker EXCEPT ![c] = r]
    /\ UNCHANGED <<pool, timer, pc, mode, attempt, tmo, wt, trace, last, ctxDone, stopped>>

\* DoWithContext: the function returns r in the attempt's goroutine, which sends
\* it to resultCh.  The channel is buffered, so the send needs no receiver.
WorkerReturns(c, r) ==
    /\ \/ worker[c] = "running" /\ worker' = [worker EXCEPT ![c] = r]
       \/ worker[c] = "orphan" /\ worker' = [worker EXCEPT ![c] = "none"]
    /\ UNCHANGED <<pool, timer, pc, mode, attempt, tmo, wt, trace, last, ctxDone, stopped>>

\* runAttemptWithContext selects the result.
AttemptResult(c) ==
    /\ pc[c] = "attempt" /\ mode[c] = "DoWithContext"
    /\ worker[c] \in Results
    /\ Handle(c, worker[c])
    /\ worker' = [worker EXCEPT ![c] = "none"]
    /\ UNCHANGED <<pool, timer, mode, attempt, tmo, wt, ctxDone, stopped>>

\* The channels that a select watches besides the result or the backoff timer.
Ready(c, why) ==
    \/ why = "ctx" /\ ctxDone[c]
    \/ why = "stopped" /\ stopped
    \/ why = "timeout" /\ timer[tmo[c]] = "fired"

\* Mutant: an abandoned attempt is retried.
AttemptAbortedRetries(c, why) ==
    /\ pc[c] = "attempt" /\ mode[c] = "DoWithContext" /\ ~Exhausted(c)
    /\ Ready(c, why)
    /\ worker' = [worker EXCEPT ![c] = IF @ = "running" THEN "orphan" ELSE "none"]
    /\ pc' = [pc EXCEPT ![c] = "getRetry"]
    /\ UNCHANGED <<pool, timer, mode, attempt, tmo, wt, trace, last, ctxDone, stopped>>

\* runAttemptWithContext selects one of them and abandons the attempt.
AttemptAborted(c, why) ==
    /\ pc[c] = "attempt" /\ mode[c] = "DoWithContext"
    /\ Ready(c, why)
    /\ last' = [last EXCEPT ![c] = why]
    /\ worker' = [worker EXCEPT ![c] = IF @ = "running" THEN "orphan" ELSE "none"]
    /\ pc' = [pc EXCEPT ![c] = "return"]
    /\ UNCHANGED <<pool, timer, mode, attempt, tmo, wt, trace, ctxDone, stopped>>

\* waitRetry: timer := r.timer.Get(), blocking while the pool is empty; neither
\* the contexts nor the overall timeout are watched here.
GetRetryTimer(c) ==
    /\ pc[c] = "getRetry"
    /\ \E t \in Timers : TP!Get(t) /\ wt' = [wt EXCEPT ![c] = t]
    /\ pc' = [pc EXCEPT ![c] = "backoff"]
    /\ UNCHANGED <<mode, attempt, tmo, worker, trace, last, ctxDone, stopped>>

\* waitRetry selects the backoff timer: the next attempt starts.
BackoffElapsed(c) ==
    /\ pc[c] = "backoff"
    /\ timer[wt[c]] = "fired"
    /\ TP!Put(wt[c])
    /\ wt' = [wt EXCEPT ![c] = NoTimer]
    /\ last' = [last EXCEPT ![c] = "temp"]
    /\ attempt' = [attempt EXCEPT ![c] = @ + 1]
    /\ worker' = Spawned(c)
    /\ pc' = [pc EXCEPT ![c] = "attempt"]
    /\ UNCHANGED <<mode, tmo, trace, ctxDone, stopped>>

\* waitRetry selects a context or the overall timeout.
BackoffAborted(c, why) ==
    /\ pc[c] = "backoff"
    /\ Ready(c, why)
    /\ TP!Put(wt[c])
    /\ wt' = [wt EXCEPT ![c] = NoTimer]
    /\ last' = [last EXCEPT ![c] = why]
    /\ pc' = [pc EXCEPT ![c] = "return"]
    /\ UNCHANGED <<mode, attempt, tmo, worker, trace, ctxDone, stopped>>

\* The call returns errs; the deferred r.timer.Put(timeoutTimer) runs if the call
\* got as far as taking that timer.  The locals of the call are gone.
Return(c) ==
    /\ pc[c] = "return"
    /\ IF tmo[c] = NoTimer THEN UNCHANGED <<pool, timer>> ELSE TP!Put(tmo[c])
    /\ tmo'     = [tmo EXCEPT ![c] = NoTimer]
    /\ pc'      = [pc EXCEPT ![c] = "idle"]
    /\ mode'    = [mode EXCEPT ![c] = "Do"]
    /\ attempt' = [attempt EXCEPT ![c] = 0]
    /\ trace'   = [trace EXCEPT ![c] = <<>>]
    /\ last'    = [last EXCEPT ![c] = "nil"]
    /\ ctxDone' = [ctxDone EXCEPT ![c] = FALSE]
    /\ UNCHANGED <<wt, worker, stopped>>

\* Environment: the ctx of a call in progress is canceled or its deadline passes.
CancelCtx(c) ==
    /\ pc[c] # "idle" /\ ~ctxDone[c]
    /\ ctxDone' = [ctxDone EXCEPT ![c] = TRUE]
    /\ UNCHANGED <<pool, timer, pc, mode, attempt, tmo, wt, worker, trace, last, stopped>>

\* Cancel, Stop, or the cancellation of the context given to NewRetrier: for good.
Cancel ==
    /\ ~stopped
    /\ stopped' = TRUE
    /\ UNCHANGED <<pool, timer, pc, callVars>>

Fire(t) ==
    /\ TP!Fire(t)
    /\ UNCHANGED <<pc, callVars, stopped>>

Next ==
    \/ \E c \in Callers :
          \/ \E m \in Modes[c] : Start(c, m)
          \/ \E m \in Modes[c] : StartRefused(c, m)
          \/ GetTimeoutTimer(c)
          \/ \E r \in Results : FuncReturns(c, r)
          \/ \E r \in Results : WorkerReturns(c, r)
          \/ AttemptResult(c)
          \/ \E why \in Aborts : AttemptAborted(c, why)
          \/ GetRetryTimer(c)
          \/ BackoffElapsed(c)
          \/ \E why \in Aborts : BackoffAborted(c, why)
          \/ Return(c)
          \/ CancelCtx(c)
    \/ Cancel
    \/ \E t \in Timers : Fire(t)

Spec == Init /\ [][Next]_vars

\* Goroutines that can run do run, functions return and armed timers fire.  The
\* receivers waiting on a Go channel are served in FIFO order, hence SF for Get.
Fairness ==
    /\ \A t \in Timers : WF_vars(Fire(t))
    /\ \A c \in Callers :
          /\ SF_vars(GetTimeoutTimer(c)) /\ SF_vars(GetRetryTimer(c))
          /\ WF_vars(\E r \in Results : FuncReturns(c, r))
          /\ WF_vars(\E r \in Results : WorkerReturns(c, r))
          /\ WF_vars(AttemptResult(c) \/ \E why \in Aborts : AttemptAborted(c, why))
          /\ WF_vars(BackoffElapsed(c) \/ \E why \in Aborts : BackoffAborted(c, why))
          /\ WF_vars(Return(c))

FairSpec == Spec /\ Fairness

--------------------------------------------------------------------------------
(***************************************************************************)
(* Safety                                                                  *)
(***************************************************************************)
TypeOK ==
    /\ TP!TimerPoolTypeOK
    /\ pc \in [Callers -> Phases]
    /\ mode \in [Callers -> {"Do", "DoWithContext"}]
    /\ attempt \in [Callers -> 0 .. MaxRetries]
    /\ tmo \in [Callers -> Timers \cup {NoTimer}]
    /\ wt \in [Callers -> Timers \cup {NoTimer}]
    /\ worker \in [Callers -> Workers]
    /\ trace \in [Callers -> Seq(Failures \cup {"max"})]
    /\ last \in [Callers -> Lasts]
    /\ ctxDone \in [Callers -> BOOLEAN]
    /\ stopped \in BOOLEAN

\* The timers a call holds.
Held(c) == {tmo[c], wt[c]} \ {NoTimer}

\* A timer of the pool is never lost, never shared by two calls, never used by
\* one call for both of its purposes, and never in the pool while a call waits
\* on it (Get/Put of timer.go on every path through Do and DoWithContext).
TimerConservation ==
    /\ pool \cup UNION {Held(c) : c \in Callers} = Timers
    /\ \A c \in Callers :
          /\ Held(c) \cap pool = {}
          /\ tmo[c] = wt[c] => tmo[c] = NoTimer
          /\ \A d \in Callers \ {c} : Held(c) \cap Held(d) = {}

\* As long as no more than MaxRetries goroutines share the Retrier, the pool is
\* never empty with nobody in a backoff wait: the blocking Get of waitRetry is
\* always waiting for a timer that will come back.
NoTimerDeadlock ==
    Cardinality(Callers) <= MaxRetries /\ pool = {} => \E c \in Callers : wt[c] # NoTimer

Temps(n) == [i \in 1 .. n |-> "temp"]

\* The Errors a call returns tell what happened: one retried error per attempt
\* before the last, then nothing (success), the error that is not retried, the
\* wrapped ErrMaxRetriesReached after exactly MaxRetries + 1 attempts, or, when
\* the call was aborted, nothing but retried errors.
TraceExplainsResult ==
    \A c \in Callers : pc[c] = "return" =>
       \/ last[c] = "refused" /\ trace[c] = <<>>
       \/ last[c] = "nil" /\ trace[c] = Temps(attempt[c])
       \/ last[c] = "perm" /\ trace[c] = Append(Temps(attempt[c]), "perm")
       \/ /\ last[c] = "temp" /\ attempt[c] = MaxRetries
          /\ trace[c] = Append(Temps(MaxRetries + 1), "max")
       \/ last[c] \in Aborts /\ trace[c] = Temps(attempt[c] + 1)
       \/ /\ last[c] \in Aborts /\ mode[c] = "DoWithContext"
          /\ trace[c] = Temps(attempt[c])

(***************************************************************************)
(* DoWithContext implements RetryCalls.  A call of Do, and one that still   *)
(* waits for its first timer, has not begun.                               *)
(***************************************************************************)
RetryPhase(c) ==
    LET phaseOf == [idle |-> "idle", init |-> "idle", attempt |-> "attempt",
                    getRetry |-> "wait", backoff |-> "wait", return |-> "done"]
    IN  IF mode[c] = "Do" THEN "idle" ELSE phaseOf[pc[c]]

RC == INSTANCE RetryCalls WITH
        phase   <- [c \in Callers |-> RetryPhase(c)],
        attempt <- [c \in Callers |-> IF mode[c] = "Do" THEN 0 ELSE attempt[c]],
        worker  <- [c \in Callers |-> IF worker[c] \in Results THEN "ready" ELSE worker[c]],
        outcome <- [c \in Callers |-> IF RetryPhase(c) = "done" THEN last[c] ELSE "nil"]

\* Whatever the other users of the Retrier do, and wherever its selects go, the
\* attempts of a call of DoWithContext run one at a time, only a temporary error
\* with retries left leads to another one, and only an aborted call leaves one behind.
ImplementsRetryCalls == RC!Spec

(***************************************************************************)
(* Liveness                                                                *)
(***************************************************************************)
\* Every call of Do and DoWithContext returns (its function always returns) and
\* the goroutine of an attempt that it abandoned ends: its send never blocks.
CallsSettle ==
    \A c \in Callers :
       pc[c] = "init" \/ worker[c] = "orphan" ~> pc[c] = "idle" /\ worker[c] = "none"

\* "If ctx is canceled or its deadline is exceeded, DoWithContext stops retrying
\* and returns immediately": it does return, with any number of callers.
CancelledCallReturns ==
    \A c \in Callers : pc[c] # "idle" /\ ctxDone[c] ~> pc[c] = "idle"
================================================================================
