------------------------------- MODULE Execution -------------------------------
(***************************************************************************)
(* One execution of a job in scheduler.go: execute and what it calls, on   *)
(* top of what DoWithContext promises (RetryCalls), while other goroutines *)
(* change the registry of the job's Retrier.                               *)
(*                                                                         *)
(* The function that DoWithContext retries runs in the goroutine of the    *)
(* attempt and shares an executionState with execute.  An attempt that     *)
(* DoWithContext abandons goes on and may still write that state.          *)
(*                                                                         *)
(* Data abstraction: a response is its status; bodies and headers are left *)
(* out.  A request ends with an error, with a response, or never.          *)
(***************************************************************************)
EXTENDS Registry

CONSTANTS Runs,         \* executions, each of a job of its own
          MaxRetries,   \* of the Retrier they share
          Policies,     \* the parts of a job that execute looks at
          Statuses,     \* the statuses that servers answer with
          Failures,     \* the errors a request may end with on its own
          UserErrs,     \* the errors that users register and unregister
          MaxLen        \* bound: the entries of the registry

ASSUME ExecutionAssumption ==
    /\ MaxRetries \in Nat /\ MaxLen \in Nat
    /\ Statuses \subseteq 100 .. 599
    /\ Failures \subseteq Errs /\ UserErrs \subseteq Errs
    /\ Len(Defaults) <= MaxLen
    /\ {"canceled", "retryable", "status"} \subseteq Errs
    \* Names of what is not an error, or not one of a request.
    /\ {"nil", "none", "refused", "ctx", "stopped", "timeout"} \cap Errs = {}
    /\ "retryable" \notin Failures
    /\ Policies \subseteq [codes : SUBSET Statuses, temporary : Seq(Errs), callback : BOOLEAN]

VARIABLES phase, attempt, worker, outcome,      \* the call of DoWithContext
          pc,           \* where execute is
          policy,       \* its job
          temporary,    \* temporaryErrors
          at,           \* where the function of the attempt is
          resp,         \* the status of its response, 0 while it has none
          result,       \* what the function returned, in resultCh
          attempts,     \* state.attempts
          status,       \* state.lastStatus
          payload,      \* the CallbackPayload
          recorded,     \* what became of the write of the payload to the storage
          sent,         \* what became of the callback
          ctxDone,      \* the ctx of the job is done
          stopped,      \* the ctx of the Retrier is done
          log,          \* auxiliary: status and result of the attempts that ended in the call
          always, ever  \* auxiliary: what was temporary throughout the call, and at some moment

callVars == <<phase, attempt, worker, outcome>>
attemptVars == <<at, resp, result, attempts, status, log>>
listVars == <<temporary, always, ever>>
vars == <<storage, callVars, attemptVars, pc, policy, listVars, payload, recorded,
          sent, ctxDone, stopped>>

RC == INSTANCE RetryCalls WITH Callers <- Runs

NoPayload == [attempts |-> 0, success |-> FALSE, status |-> 0, error |-> "none"]

\* The Retrier of the job, or one that the scheduler makes and loads with the defaults.
ensureRetrier == NewRegistry \/ storage = Defaults

Init ==
    /\ ensureRetrier
    /\ RC!Init
    /\ pc        = [r \in Runs |-> "start"]
    /\ policy    \in [Runs -> Policies]
    /\ temporary = [r \in Runs |-> <<>>]
    /\ at        = [r \in Runs |-> "none"]
    /\ resp      = [r \in Runs |-> 0]
    /\ result    = [r \in Runs |-> "nil"]
    /\ attempts  = [r \in Runs |-> 0]
    /\ status    = [r \in Runs |-> 0]
    /\ payload   = [r \in Runs |-> NoPayload]
    /\ recorded  = [r \in Runs |-> "no"]
    /\ sent      = [r \in Runs |-> "no"]
    /\ ctxDone   = [r \in Runs |-> FALSE]
    /\ stopped   = FALSE
    /\ log       = [r \in Runs |-> <<>>]
    /\ always    = [r \in Runs |-> {}]
    /\ ever      = [r \in Runs |-> {}]

--------------------------------------------------------------------------------
(***************************************************************************)
(* The attempt, in its own goroutine                                       *)
(***************************************************************************)
\* The errors that the job itself calls temporary.
OwnErrors(p) == (IF p.codes # {} THEN <<"retryable">> ELSE <<>>) \o p.temporary

\* Mutant: the errors of a job replace the registered ones.
buildTemporaryErrorsOwn(p) == OwnErrors(p)

\* The errors of the job and, if there are any, the ones registered now: it reads
\* Len and then the list, which comes to reading the list.
buildTemporaryErrors(p) ==
    IF OwnErrors(p) = <<>> THEN <<>> ELSE OwnErrors(p) \o ListTemporaryErrors

\* The errors that the documentation calls temporary for the job while list is
\* registered: its own and the registered ones, or all if there are none of either.
TemporaryFor(p, list) ==
    {e \in Errs : OwnErrors(p) \o list = <<>> \/ Matches(e, OwnErrors(p) \o list)}

\* DoWithContext is called.
CallBegins(r) ==
    /\ pc[r] = "start"
    /\ temporary' = [temporary EXCEPT ![r] = buildTemporaryErrors(policy[r])]
    /\ always' = [always EXCEPT ![r] = TemporaryFor(policy[r], storage)]
    /\ ever' = [ever EXCEPT ![r] = TemporaryFor(policy[r], storage)]
    /\ pc' = [pc EXCEPT ![r] = "call"]

\* It starts the first attempt ...
Begin(r) ==
    /\ CallBegins(r)
    /\ RC!Begin(r)
    /\ at' = [at EXCEPT ![r] = "enter"]
    /\ UNCHANGED <<storage, resp, result, attempts, status, log, policy, payload, recorded,
                   sent, ctxDone, stopped>>

\* ... or finds the Retrier invalid: nobody else validates the one of a job, whose
\* fields users may change between two calls.
Refused(r) ==
    /\ CallBegins(r)
    /\ RC!Refuse(r)
    /\ UNCHANGED <<storage, attemptVars, policy, payload, recorded, sent, ctxDone, stopped>>

IncrementAttempts(r) ==
    /\ at[r] = "enter"
    /\ attempts' = [attempts EXCEPT ![r] = @ + 1]
    /\ at' = [at EXCEPT ![r] = "request"]
    /\ UNCHANGED <<storage, callVars, resp, result, status, log, pc, policy, listVars, payload,
                   recorded, sent, ctxDone, stopped>>

\* The function returns res: the call finds it in resultCh, unless it was aborted.
FunctionReturns(r, res) ==
    /\ RC!Finish(r)
    /\ at' = [at EXCEPT ![r] = "none"]
    /\ IF worker[r] = "running"
       THEN /\ result' = [result EXCEPT ![r] = res]
            /\ log' = [log EXCEPT ![r] = Append(@, [status |-> resp[r], result |-> res])]
       ELSE UNCHANGED <<result, log>>
    /\ resp' = [resp EXCEPT ![r] = 0]
    /\ UNCHANGED <<storage, attempts, status, pc, policy, listVars, payload, recorded, sent,
                   ctxDone, stopped>>

\* client.Do fails: in the network, or for the Timeout of the request.
RequestFails(r, err) ==
    /\ at[r] = "request"
    /\ FunctionReturns(r, err)

\* Mutant: an aborted call does not cancel the context of its attempt.
RequestCanceledRunning(r) ==
    /\ at[r] = "request"
    /\ ctxDone[r] /\ worker[r] = "running"
    /\ FunctionReturns(r, "canceled")

\* client.Do fails because its context, a child of the job's that an aborted call
\* cancels, is done.
RequestCanceled(r) ==
    /\ at[r] = "request"
    /\ ctxDone[r] \/ worker[r] = "orphan"
    /\ FunctionReturns(r, "canceled")

\* Mutant: an attempt is counted when it starts and when it is answered.
RequestAnsweredCounts(r, s) ==
    /\ at[r] = "request"
    /\ at' = [at EXCEPT ![r] = "answered"]
    /\ resp' = [resp EXCEPT ![r] = s]
    /\ status' = [status EXCEPT ![r] = s]
    /\ attempts' = [attempts EXCEPT ![r] = @ + 1]
    /\ UNCHANGED <<storage, callVars, result, log, pc, policy, listVars, payload, recorded,
                   sent, ctxDone, stopped>>

setLastResponse(r, s) == status' = [status EXCEPT ![r] = s]

\* The response comes, its body is read and setLastResponse called.
RequestAnswered(r, s) ==
    /\ at[r] = "request"
    /\ at' = [at EXCEPT ![r] = "answered"]
    /\ resp' = [resp EXCEPT ![r] = s]
    /\ setLastResponse(r, s)
    /\ UNCHANGED <<storage, callVars, result, attempts, log, pc, policy, listVars, payload,
                   recorded, sent, ctxDone, stopped>>

isRetryableStatus(s, p) == s \in p.codes

\* The error for a status.
Classified(p, s) ==
    IF s \in 200 .. 299 THEN "nil"
    ELSE IF isRetryableStatus(s, p) THEN "retryable"
    ELSE "status"

ResponseClassified(r) ==
    /\ at[r] = "answered"
    /\ FunctionReturns(r, Classified(policy[r], resp[r]))

--------------------------------------------------------------------------------
(***************************************************************************)
(* DoWithContext, as far as the errors matter                              *)
(***************************************************************************)
\* The rest of the loop body, once shouldRetry has answered.
Decided(r, res) ==
    /\ RC!Receive(r, res)
    /\ pc' = [pc EXCEPT ![r] = "call"]
    /\ UNCHANGED <<storage, attemptVars, policy, listVars, payload, recorded, sent,
                   ctxDone, stopped>>

\* shouldRetry, when one look at the errors decides: the list of the call if it has
\* one, else Registry.Len, when it is zero.
ShouldRetry(r) ==
    /\ pc[r] = "call" /\ phase[r] = "attempt" /\ worker[r] = "ready" /\ result[r] # "nil"
    /\ \/ /\ temporary[r] # <<>>
          /\ Decided(r, IF Matches(result[r], temporary[r]) THEN "temp" ELSE "perm")
       \/ /\ temporary[r] = <<>> /\ RegistryLen = 0
          /\ Decided(r, "temp")

\* ... and when Len is not zero: IsTemporaryError will read the list, later.
ShouldRetryLen(r) ==
    /\ pc[r] = "call" /\ phase[r] = "attempt" /\ worker[r] = "ready" /\ result[r] # "nil"
    /\ temporary[r] = <<>> /\ RegistryLen # 0
    /\ pc' = [pc EXCEPT ![r] = "list"]
    /\ UNCHANGED <<storage, callVars, attemptVars, policy, listVars, payload, recorded,
                   sent, ctxDone, stopped>>

\* The registry may be another by now.
IsTemporaryError(r) ==
    /\ pc[r] = "list"
    /\ Decided(r, IF Matches(result[r], ListTemporaryErrors) THEN "temp" ELSE "perm")

Succeeds(r) ==
    /\ pc[r] = "call" /\ phase[r] = "attempt" /\ worker[r] = "ready" /\ result[r] = "nil"
    /\ Decided(r, "nil")

\* The next attempt starts.
Again(r) ==
    /\ pc[r] = "call"
    /\ RC!Again(r)
    /\ at' = [at EXCEPT ![r] = "enter"]
    /\ UNCHANGED <<storage, resp, result, attempts, status, log, pc, policy, listVars,
                   payload, recorded, sent, ctxDone, stopped>>

\* Mutant: no select watches the timer of the overall timeout.
AbortedNoTimeout(r, why) ==
    /\ pc[r] = "call"
    /\ why # "timeout"
    /\ why = "ctx" => ctxDone[r]
    /\ why = "stopped" => stopped
    /\ RC!Abort(r, why)
    /\ UNCHANGED <<storage, attemptVars, pc, policy, listVars, payload, recorded, sent,
                   ctxDone, stopped>>

\* A select of the call finds a context done or the overall timeout elapsed.
Aborted(r, why) ==
    /\ pc[r] = "call"
    /\ why = "ctx" => ctxDone[r]
    /\ why = "stopped" => stopped
    /\ RC!Abort(r, why)
    /\ UNCHANGED <<storage, attemptVars, pc, policy, listVars, payload, recorded, sent,
                   ctxDone, stopped>>

--------------------------------------------------------------------------------
(***************************************************************************)
(* The end of execute                                                      *)
(***************************************************************************)
\* errs.Last, as far as the payload tells: the error of the last attempt, or why the
\* call was aborted or refused.
LastError(r) ==
    IF outcome[r] \in {"temp", "perm"} THEN result[r] ELSE outcome[r]

\* Mutant: success is read off the last response.
PayloadByStatus(r) ==
    [attempts |-> attempts[r], success |-> status[r] \in 200 .. 299,
     status |-> status[r], error |-> LastError(r)]

Payload(r) ==
    [attempts |-> attempts[r], success |-> outcome[r] = "nil",
     status |-> status[r], error |-> LastError(r)]

\* The call returns and its locals are gone; state.snapshot, under its mutex, and the
\* payload made of it.
Snapshot(r) ==
    /\ pc[r] = "call"
    /\ RC!Return(r)
    /\ payload' = [payload EXCEPT ![r] = Payload(r)]
    /\ temporary' = [temporary EXCEPT ![r] = <<>>]
    /\ always' = [always EXCEPT ![r] = {}] /\ ever' = [ever EXCEPT ![r] = {}]
    /\ result' = [result EXCEPT ![r] = "nil"]
    /\ pc' = [pc EXCEPT ![r] = "record"]
    /\ UNCHANGED <<storage, at, resp, attempts, status, log, policy, recorded, sent, ctxDone, stopped>>

\* recordExecutionResult: an error is only logged.
Record(r) ==
    /\ pc[r] = "record"
    /\ \E how \in {"stored", "failed"} : recorded' = [recorded EXCEPT ![r] = how]
    /\ pc' = [pc EXCEPT ![r] = IF policy[r].callback THEN "callback" ELSE "end"]
    /\ UNCHANGED <<storage, callVars, attemptVars, policy, listVars, payload, sent,
                   ctxDone, stopped>>

\* sendCallback: the callback is answered, or the request fails and is not repeated.
SendCallback(r, how) ==
    /\ pc[r] = "callback"
    /\ sent' = [sent EXCEPT ![r] = how]
    /\ pc' = [pc EXCEPT ![r] = "end"]
    /\ UNCHANGED <<storage, callVars, attemptVars, policy, listVars, payload, recorded,
                   ctxDone, stopped>>

--------------------------------------------------------------------------------
(***************************************************************************)
(* The environment                                                         *)
(***************************************************************************)
CancelCtx(r) ==
    /\ ~ctxDone[r]
    /\ ctxDone' = [ctxDone EXCEPT ![r] = TRUE]
    /\ UNCHANGED <<storage, callVars, attemptVars, pc, policy, listVars, payload, recorded,
                   sent, stopped>>

\* Cancel or Stop of the Retrier.
Cancel ==
    /\ ~stopped
    /\ stopped' = TRUE
    /\ UNCHANGED <<storage, callVars, attemptVars, pc, policy, listVars, payload, recorded,
                   sent, ctxDone>>

\* The call of execute is in progress.
Calling(r) == pc[r] \in {"call", "list"}

\* Somebody registers or unregisters errors.  Bound: not when nobody will look.
ChangeRegistry ==
    /\ \E r \in Runs : pc[r] = "start" \/ phase[r] \in {"attempt", "wait"}
    /\ \/ LoadDefaults
       \/ \E e \in UserErrs : RegisterTemporaryErrors(<<e>>)
       \/ \E e \in UserErrs : UnRegisterTemporaryErrors(<<e>>)
       \/ UnRegisterTemporaryErrors(Defaults)
       \/ Clean
    /\ Len(storage') <= MaxLen
    /\ always' = [r \in Runs |-> IF Calling(r) THEN always[r] \cap TemporaryFor(policy[r], storage')
                                              ELSE always[r]]
    /\ ever' = [r \in Runs |-> IF Calling(r) THEN ever[r] \cup TemporaryFor(policy[r], storage')
                                            ELSE ever[r]]
    /\ UNCHANGED <<callVars, attemptVars, pc, policy, temporary, payload, recorded, sent,
                   ctxDone, stopped>>

\* The goroutine of execute, up to the callback.
ExecuteStep(r) ==
    \/ Begin(r) \/ Refused(r)
    \/ ShouldRetry(r) \/ ShouldRetryLen(r) \/ IsTemporaryError(r) \/ Succeeds(r)
    \/ Again(r)
    \/ \E why \in RC!AbortReasons : Aborted(r, why)
    \/ Snapshot(r) \/ Record(r)

\* The goroutine of an attempt, but for its request.
AttemptStep(r) == IncrementAttempts(r) \/ RequestCanceled(r) \/ ResponseClassified(r)

Next ==
    \/ \E r \in Runs :
          \/ ExecuteStep(r)
          \/ AttemptStep(r)
          \/ \E e \in Failures : RequestFails(r, e)
          \/ \E s \in Statuses : RequestAnswered(r, s)
          \/ \E how \in {"delivered", "lost"} : SendCallback(r, how)
          \/ CancelCtx(r)
    \/ Cancel
    \/ ChangeRegistry

Spec == Init /\ [][Next]_vars

\* Goroutines that can run do run; the overall timeout elapses, so that a call never
\* waits for ever (with the callers that Retrier!CallsSettle allows); a request ends
\* when its context does.  No server has to answer.
Fairness ==
    \A r \in Runs :
       /\ WF_vars(ExecuteStep(r))
       /\ WF_vars(AttemptStep(r))
       /\ WF_vars(ctxDone[r] /\ SendCallback(r, "lost"))

FairSpec == Spec /\ Fairness

--------------------------------------------------------------------------------
TypeOK ==
    /\ storage \in Seq(Errs) /\ Len(storage) <= MaxLen
    /\ RC!RetryTypeOK
    /\ pc \in [Runs -> {"start", "call", "list", "record", "callback", "end"}]
    /\ policy \in [Runs -> Policies]
    /\ temporary \in [Runs -> Seq(Errs)]
    /\ at \in [Runs -> {"none", "enter", "request", "answered"}]
    /\ resp \in [Runs -> Statuses \cup {0}]
    /\ result \in [Runs -> Errs \cup {"nil"}]
    /\ attempts \in [Runs -> 0 .. MaxRetries + 1]
    /\ status \in [Runs -> Statuses \cup {0}]
    /\ payload \in [Runs -> [attempts : 0 .. MaxRetries + 1, success : BOOLEAN,
                             status : Statuses \cup {0},
                             error : Errs \cup RC!AbortReasons \cup {"none", "nil", "refused"}]]
    /\ recorded \in [Runs -> {"no", "stored", "failed"}]
    /\ sent \in [Runs -> {"no", "delivered", "lost"}]
    /\ ctxDone \in [Runs -> BOOLEAN]
    /\ stopped \in BOOLEAN
    /\ log \in [Runs -> Seq([status : Statuses \cup {0}, result : Errs \cup {"nil"}])]
    /\ always \in [Runs -> SUBSET Errs] /\ ever \in [Runs -> SUBSET Errs]

\* The status of the last attempt that got a response, 0 if none did.
Latest(l) ==
    LET answered == {i \in DOMAIN l : l[i].status # 0}
    IN  IF answered = {} THEN 0 ELSE l[Max(answered)].status

\* The attempt was a success.
Ok(entry) == entry.status \in 200 .. 299

\* No attempt of l up to the n-th was one.
NoneOk(l, n) == \A i \in 1 .. n : ~Ok(l[i])

\* The payload p is what the attempts of l come to.
Explained(p, l) ==
    \/ /\ p.error \notin RC!AbortReasons
       /\ p.attempts = Len(l) /\ Len(l) > 0
       /\ p.status = Latest(l)
       /\ p.success = Ok(l[Len(l)]) /\ p.error = l[Len(l)].result
       /\ NoneOk(l, Len(l) - 1)
    \/ /\ p.error = "refused" /\ ~p.success
       /\ p.attempts = 0 /\ p.status = 0 /\ l = <<>>
    \/ /\ p.error \in RC!AbortReasons /\ ~p.success
       /\ \/ p.attempts = Len(l) /\ p.status = Latest(l)
          \/ p.attempts = Len(l) + 1 /\ p.status \in {Latest(l)} \cup Statuses

\* The result that execute records and sends tells what happened to the requests,
\* although an abandoned attempt may still write the executionState: a run that was
\* not aborted counts every attempt, and is a success exactly when the last one was
\* answered with a 2xx status, and no attempt before it was; a run that the Retrier
\* refused made none; an aborted run is a failure, may miss only the attempt that was
\* under way, and takes its status from no other.
PayloadExplained ==
    \A r \in Runs : pc[r] \in {"record", "callback", "end"} => Explained(payload[r], log[r])

\* shouldRetry, whose Len was not zero, reads the list and finds it empty.
Emptied(r) == pc[r] = "list" /\ ListTemporaryErrors = <<>>

\* However the registry changes during a call, an attempt is retried only if its error
\* was temporary at some moment of the call, so that a copy of the registry may be out of
\* date but never invents an error, and an error that was temporary all the time, as one
\* of the job's own always is, ends no call, unless the registry was emptied between the
\* two reads of shouldRetry.
RetryJustified ==
    [][\A r \in Runs : phase[r] = "attempt" =>
          /\ phase'[r] = "wait" => result[r] \in ever[r]
          /\ outcome'[r] = "perm" => result[r] \notin always[r] \/ Emptied(r)]_vars

\* "If the temporaryErrors list is empty and the registry has entries, only those errors
\* are retried", "and the registry is empty, all errors are retried": without exception,
\* an error that was temporary all the time ends no call.
TemporaryNotFinal ==
    [][\A r \in Runs : phase[r] = "attempt" =>
          (outcome'[r] = "perm" => result[r] \notin always[r])]_vars

\* UnRegisterTemporaryErrors makes no error permanent that is not its target and
\* does not wrap it, although it removes wrapped forms of the target, too.
UnRegisterSpares ==
    [][\A t \in Errs : UnRegisterTemporaryErrors(<<t>>) =>
          \A e \in Errs : Matches(e, storage) /\ ~Matches(e, storage') => <<e, t>> \in Is]_vars

\* Every run comes to the write of its result, even if a server never answers; a write
\* that fails is only logged.
RunRecorded == \A r \in Runs : pc[r] = "start" ~> recorded[r] # "no"

\* When its ctx is done a run ends, its callback included, and so does an attempt
\* that it left behind.
CanceledRunEnds == \A r \in Runs : ctxDone[r] ~> pc[r] = "end" /\ at[r] = "none"
================================================================================
