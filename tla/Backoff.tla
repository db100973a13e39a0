-------------------------------- MODULE Backoff --------------------------------
(***************************************************************************)
(* The arithmetic of retrier.go: Validate, which compares a product of     *)
(* machine integers, and waitRetry, which computes an exponential backoff  *)
(* in floating point, converts it to a Duration and adds a jitter.  One    *)
(* call of Do whose function always fails with a temporary error.          *)
(*                                                                         *)
(* Time is a number of the smallest units; the clock itself does not wrap, *)
(* and only the function and the waits take time.                          *)
(* Data abstraction: the backoff factor is a fraction, and floating point  *)
(* is exact up to the conversion, which truncates.                         *)
(***************************************************************************)
EXTENDS MachineInts

CONSTANTS DefaultOptions,   \* the Retrier that NewRetrier starts from
          Options,          \* what applyOptions may make of it
          AttemptTimes      \* how long the function may take

ASSUME OptionsAssumption ==
    /\ Options \cup {DefaultOptions} \subseteq
             [maxRetries : Int, interval : Int, jitter : Int, timeout : Int,
              num : Nat \ {0}, den : Nat \ {0}]
    /\ AttemptTimes \subseteq Nat

VARIABLES callPc,   \* where the call is
          opts,     \* the Retrier
          attempt,  \* the loop variable
          now,      \* the time since the timeout timer was started
          wait      \* retryInterval

backoffVars == <<callPc, opts, attempt, now, wait>>

BackoffInit ==
    /\ callPc = "new" /\ opts = DefaultOptions
    /\ attempt = 0 /\ now = 0 /\ wait = 0

applyOptions(o) == opts' = o

\* NewRetrier returns the Retrier even if Validate refuses it.
NewRetrier(o) ==
    /\ callPc = "new"
    /\ applyOptions(o)
    /\ callPc' = "ready"
    /\ UNCHANGED <<attempt, now, wait>>

\* The tests of Validate.
Validate(o) ==
    /\ o.maxRetries >= 0 /\ o.interval > 0 /\ o.jitter > 0 /\ o.timeout > 0
    /\ o.interval < o.timeout
    /\ Wrap(o.interval * o.maxRetries) < o.timeout
    /\ o.num > o.den

\* The call begins with Validate, and ends there if that fails.
Do ==
    /\ callPc = "ready"
    /\ callPc' = IF Validate(opts) THEN "attempt" ELSE "end"
    /\ UNCHANGED <<opts, attempt, now, wait>>

\* math.Pow, of a natural number.
Pow(b, n) == LET p[i \in 0 .. n] == IF i = 0 THEN 1 ELSE b * p[i - 1] IN p[n]

\* Interval * BackoffFactor^attempt, rounded down.
ExactBackoff(o, n) == (o.interval * Pow(o.num, n)) \div Pow(o.den, n)

\* Mutant: the backoff of the next attempt.
BackoffDurationsNext(o, n) ==
    LET exact == ExactBackoff(o, n + 1) IN IF exact <= MaxInt THEN {exact} ELSE {MinInt, MaxInt}

\* The backoff as a Duration.  What the conversion of a number that does not fit gives
\* depends on the machine: amd64 gives the smallest, arm64 the largest.
BackoffDurations(o, n) ==
    LET exact == ExactBackoff(o, n) IN IF exact <= MaxInt THEN {exact} ELSE {MinInt, MaxInt}

\* The function takes t and fails, and waitRetry sets its timer, if a retry is left.
Fails(t) ==
    /\ callPc = "attempt"
    /\ now' = now + t
    /\ IF attempt = opts.maxRetries
       THEN callPc' = "end" /\ UNCHANGED wait
       ELSE /\ \E b \in BackoffDurations(opts, attempt), j \in 0 .. opts.jitter - 1 :
                  wait' = Wrap(b + j)
            /\ callPc' = "wait"
    /\ UNCHANGED <<opts, attempt>>

\* When the timer of the wait fires: at once if its time is not positive.
Due == IF wait > 0 THEN now + wait ELSE now

\* Mutant: the select does not watch the timer of the overall timeout.
BackoffElapsedLate ==
    /\ callPc = "wait"
    /\ now' = Due
    /\ attempt' = attempt + 1
    /\ callPc' = "attempt"
    /\ UNCHANGED <<opts, wait>>

\* The select of waitRetry.  A timer that is ready when the select begins wins over one
\* that fires later; if both are ready either may win.
BackoffElapsed ==
    /\ callPc = "wait"
    /\ Due <= opts.timeout \/ Due = now
    /\ now' = Due
    /\ attempt' = attempt + 1
    /\ callPc' = "attempt"
    /\ UNCHANGED <<opts, wait>>

TimeoutReached ==
    /\ callPc = "wait"
    /\ opts.timeout <= Due
    /\ now' = IF now < opts.timeout THEN opts.timeout ELSE now
    /\ callPc' = "end"
    /\ UNCHANGED <<opts, attempt, wait>>

BackoffNext ==
    \/ \E o \in Options : NewRetrier(o)
    \/ Do
    \/ \E t \in AttemptTimes : Fails(t)
    \/ BackoffElapsed
    \/ TimeoutReached

BackoffSpec == BackoffInit /\ [][BackoffNext]_backoffVars

--------------------------------------------------------------------------------
\* A backoff that the timeout lets pass is less than Timeout + 1 before it is rounded
\* down, and the next one is BackoffFactor times that.
LongestBackoff(o) == (o.num * (o.timeout + 1)) \div o.den

\* BackoffFactor * (Timeout + 1) + Jitter fits into a Duration.
Roomy(o) == LongestBackoff(o) + o.jitter <= MaxInt

\* The backoff of an accepted Retrier is the documented one, Interval *
\* BackoffFactor^attempt plus less than Jitter, whatever the number of retries: the
\* wait whose arithmetic overflows comes after one that the timeout ends.
BackoffHonoured ==
    [][Roomy(opts) /\ attempt' # attempt =>
          /\ now' - now >= ExactBackoff(opts, attempt)
          /\ now' - now < ExactBackoff(opts, attempt) + opts.jitter]_backoffVars

\* No retry starts after the timeout, however long the function takes and although the
\* select takes a backoff that has elapsed without a look at the timeout: no wait comes
\* out of the arithmetic as zero or less.  Nor do more retries start than intervals fit
\* into the timeout, even when Validate let a product pass that overflowed.
RetriesFitTimeout ==
    Roomy(opts) /\ attempt > 0 =>
       /\ callPc = "attempt" => now <= opts.timeout
       /\ attempt * opts.interval <= now
       /\ attempt * opts.interval <= opts.timeout
       /\ callPc = "wait" => wait > 0
================================================================================
