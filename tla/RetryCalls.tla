------------------------------ MODULE RetryCalls -------------------------------
(***************************************************************************)
(* What DoWithContext of retrier.go promises its callers, without timers   *)
(* and without the other users of the Retrier: attempts run one after the  *)
(* other, each in a goroutine of its own; an error that is not retried, or *)
(* the last one, ends the call; a call may be aborted at any moment, and   *)
(* leaves an attempt behind only then.                                     *)
(*                                                                         *)
(* Retrier implements this specification (Retrier!ImplementsRetryCalls),   *)
(* and Execution, the user of DoWithContext, is built on it.               *)
(***************************************************************************)
EXTENDS Naturals

CONSTANTS Callers,      \* the goroutines that call DoWithContext
          MaxRetries    \* retries after the first attempt

VARIABLES phase,        \* where the call is
          attempt,      \* the loop variable
          worker,       \* the goroutine of the attempt
          outcome       \* errs.Last of a call that is over

retryVars == <<phase, attempt, worker, outcome>>

AttemptResults == {"nil", "temp", "perm"}
AbortReasons   == {"ctx", "stopped", "timeout"}

RetryTypeOK ==
    /\ phase \in [Callers -> {"idle", "attempt", "wait", "done"}]
    /\ attempt \in [Callers -> 0 .. MaxRetries]
    /\ worker \in [Callers -> {"none", "running", "ready", "orphan"}]
    /\ outcome \in [Callers -> AttemptResults \cup AbortReasons \cup {"refused"}]

Init ==
    /\ phase   = [c \in Callers |-> "idle"]
    /\ attempt = [c \in Callers |-> 0]
    /\ worker  = [c \in Callers |-> "none"]
    /\ outcome = [c \in Callers |-> "nil"]

\* The first attempt starts.
Begin(c) ==
    /\ phase[c] = "idle" /\ worker[c] = "none"
    /\ phase' = [phase EXCEPT ![c] = "attempt"]
    /\ worker' = [worker EXCEPT ![c] = "running"]
    /\ UNCHANGED <<attempt, outcome>>

\* There is no function to retry, or the Retrier is not valid.
Refuse(c) ==
    /\ phase[c] = "idle"
    /\ phase' = [phase EXCEPT ![c] = "done"]
    /\ outcome' = [outcome EXCEPT ![c] = "refused"]
    /\ UNCHANGED <<attempt, worker>>

\* The function of an attempt returns; nobody waits for an abandoned one.
Finish(c) ==
    /\ \/ worker[c] = "running" /\ worker' = [worker EXCEPT ![c] = "ready"]
       \/ worker[c] = "orphan" /\ worker' = [worker EXCEPT ![c] = "none"]
    /\ UNCHANGED <<phase, attempt, outcome>>

\* Its result r ends the call, unless it is an error to retry and retries are left.
Receive(c, r) ==
    /\ phase[c] = "attempt" /\ worker[c] = "ready"
    /\ worker' = [worker EXCEPT ![c] = "none"]
    /\ IF r = "temp" /\ attempt[c] < MaxRetries
       THEN /\ phase' = [phase EXCEPT ![c] = "wait"]
            /\ UNCHANGED outcome
       ELSE /\ phase' = [phase EXCEPT ![c] = "done"]
            /\ outcome' = [outcome EXCEPT ![c] = r]
    /\ UNCHANGED attempt

\* The backoff is over: the next attempt starts, and no other one is running.
Again(c) ==
    /\ phase[c] = "wait" /\ worker[c] = "none" /\ attempt[c] < MaxRetries
    /\ phase' = [phase EXCEPT ![c] = "attempt"]
    /\ attempt' = [attempt EXCEPT ![c] = @ + 1]
    /\ worker' = [worker EXCEPT ![c] = "running"]
    /\ UNCHANGED outcome

\* The call gives up, and abandons its attempt if one is running.
Abort(c, why) ==
    /\ phase[c] \in {"attempt", "wait"}
    /\ phase' = [phase EXCEPT ![c] = "done"]
    /\ outcome' = [outcome EXCEPT ![c] = why]
    /\ worker' = [worker EXCEPT ![c] = IF @ = "running" THEN "orphan" ELSE "none"]
    /\ UNCHANGED attempt

Return(c) ==
    /\ phase[c] = "done"
    /\ phase' = [phase EXCEPT ![c] = "idle"]
    /\ attempt' = [attempt EXCEPT ![c] = 0]
    /\ outcome' = [outcome EXCEPT ![c] = "nil"]
    /\ UNCHANGED worker

Next ==
    \E c \in Callers :
       \/ Begin(c) \/ Refuse(c) \/ Finish(c) \/ Again(c) \/ Return(c)
       \/ \E r \in AttemptResults : Receive(c, r)
       \/ \E why \in AbortReasons : Abort(c, why)

Spec == Init /\ [][Next]_retryVars
================================================================================
