# A TLA+ model of go-again

go-again is a Go library of two halves: a *retrier* (`retrier.go`, `timer.go`,
`registry.go`), an object that many goroutines share and whose calls run a function
until it succeeds, and a *scheduler* (`pkg/scheduler`), which runs HTTP jobs on a
timetable with one goroutine per job and one per run, over an in-memory or a SQLite
storage. This directory holds TLA+ specifications of both, the TLC configurations that
check them on small instances, and TLAPS proofs of the properties that matter most, for
instances of any size. Every safety property that a passing run checks is also proved.

## Inventory

| component | state | operations | interacts with |
|---|---|---|---|
| timer pool (`timer.go`) | a buffered channel of `*time.Timer` | `NewTimerPool`, `Get` (blocks), `Put` (stops, drains, drops when full), `Close`, `Drain`, `Len` | shared by all calls of a Retrier |
| retrier (`retrier.go`) | the timer pool, `r.ctx`, the pool of `Errors`; per call the attempt, two timers, `errs` | `Do`, `DoWithContext`, `Cancel`, `Stop`, `PutErrors`, `SetRegistry` | retried function (a goroutine per attempt in `DoWithContext`), timers, two contexts |
| registry (`registry.go`) | a slice of temporary errors under a `sync.RWMutex` | register, unregister, `LoadDefaults`, `Clean`, list, `IsTemporaryError`, `Len` | asked by `shouldRetry`, copied by `buildTemporaryErrors` |
| validation (`retrier.go`, `options.go`) | the options | `Validate`, backoff arithmetic | `NewRetrier` |
| scheduler (`scheduler.go`) | `s.jobs`, `s.counter`, `s.stopped`, `s.sem`, `s.wg` | `Schedule`, `Remove`, `Stop`, the reconciliation on start, job loop, run | storage writes without `s.mu` from job and run goroutines, contexts, HTTP |
| storage, in memory (`storage.go`) | job rows, status entries with history | the `JobsStorage` interface | written by API calls, job and run goroutines |
| storage, SQLite (`storage_sqlite.go`) | three tables, `writeMu`, the retention | the same, and `PruneHistory` | a write is a transaction under the caller's ctx |
| queries (`scheduler.go`) | none | `QueryJobStatuses`, `QueryJobHistory` | a snapshot of the storage |
| request execution (`scheduler.go`) | `executionState` of a run | `execute`, `sendCallback` | the retrier, HTTP |

What is hard in it: calls that hold one timer while they wait for another of the same
pool; an attempt that outlives its call; `select`s with several ready cases; the
finalizer of an ended job racing `Remove`, `Stop` and the job that took over its id;
storage writes made under a context that is already done; a crash between two writes of
one call; a concurrency limit that is waited for without looking at the context; a run
whose abandoned attempt still writes the state its result is made of; a registry that
changes between two reads of one decision; products and sums of machine integers.
`PROJECT.json` lists these hazards at their lines, with the properties that watch them.

What makes the parts correct:
 - *timer pool, retrier*: no timer lost or shared, no deadlock on the pool, the returned
   `Errors` explain the result, attempts of a call do not overlap, every call returns,
   abandoned attempts end;
 - *scheduler*: a live job can be found and stopped, counts and states agree with the
   goroutines, the concurrency limit holds, `Stop` returns and leaves nothing behind, a
   final state is final, and a restart recovers;
 - *a run*: its recorded result tells what happened to its requests, only errors that
   were temporary during the call are retried and none that always was ends it, the run comes to the
   write of its result whatever the servers do;
 - *options and queries*: the waits are the documented ones, a page is the page asked for,
   and a client that pages or polls misses nothing it must not miss;
 - *storage*: a write is atomic whatever fails, and history is kept as long as promised.

## The modules

| module | models | checked by | proved in |
|---|---|---|---|
| `TimerPool` | `timer.go` | with `Retrier` | `RetrierProofs` |
| `RetryCalls` | abstract specification: what `DoWithContext` promises its caller | as a property of `Retrier` | `RetrierProofs` |
| `Retrier` | `Do`, `DoWithContext`, `Cancel` | `MCRetrier` | `RetrierProofs` |
| `Registry` | `registry.go` | with `Execution` | `ExecutionProofs` |
| `Execution` | `execute`, its attempts, `sendCallback`, over `RetryCalls` and `Registry` | `MCExecution` | `ExecutionProofs` |
| `MachineInts` | integers of a fixed width | with its users | |
| `Backoff` | `NewRetrier`, `Validate`, the arithmetic of `waitRetry` | `MCArithmetic` | `BackoffProofs` |
| `Queries` | `QueryJobStatuses`, `QueryJobHistory` and two clients | `MCArithmetic` | `QueriesProofs` |
| `JobsStorage` | a status entry and what each write of `storage.go` makes of it (no state of its own) | with its users | `SchedulerStorageProofs` |
| `Scheduler` | `scheduler.go` over a `JobsStorage` | `MCScheduler` | `SchedulerProofs`, `SchedulerStorageProofs` |
| `StorageContract` | abstract specification: what the scheduler relies on when it writes | as a property of `SQLiteStorage` | `SQLiteStorageProofs` |
| `SQLiteStorage` | `storage_sqlite.go`, statement by statement | `MCSQLiteStorage` | `SQLiteStorageProofs` |
| `DataInduction` | nothing: induction over numbers, for the proofs | | itself |

Some operators are marked *Mutant* in their comment. No specification uses them: each is
a plausible wrong version of the definition after it, and `PROJECT.json` records which
property catches it.

**Retrier.** `pc` is the place of a caller: `init` (waiting for its timeout timer),
`attempt`, `getRetry` (waiting in `waitRetry` for the backoff timer), `backoff`, `return`.
`Do` runs the function in the calling goroutine (`FuncReturns`); `DoWithContext` runs it
in another, whose life is `worker` (`WorkerReturns`, `AttemptResult`), and may abandon it
(`AttemptAborted`), which leaves an `orphan`. A `select` with several ready cases is a
choice among actions. `pool` is the set of timers in the channel and `timer` their state:
one that is armed may fire at any moment (`Fire`). A caller starts a new call when the
last one has returned, except that one whose abandoned attempt still runs waits
for it before it calls `DoWithContext` again: a bound of one orphan per caller. The error of the function is `temp` when
`shouldRetry` is true for it, else `perm`. A call for a nil function, or on a Retrier that
`Validate` refuses (its fields are public and may change between calls), returns at once
(`StartRefused`). A timer taken from the pool is the one with the
lowest number: timers in the channel are all stopped and drained, so which one it is makes
no difference.

**RetryCalls** is the same call without timers, pool and other callers: attempts one after
the other, each in a goroutine of its own, ended by a result, or by an abort that may
leave one attempt behind; or the call is refused and makes none. `Retrier!ImplementsRetryCalls` maps the phases of a call of
`DoWithContext` to it, and a call of `Do` to no step at all.

**Registry** and **Execution.** The registry is a sequence, as an error registered twice is
there twice, and `errors.Is` a reflexive and transitive relation. A run of `Execution` calls
`DoWithContext` through the actions of `RetryCalls`, and adds what the function does in the
goroutine of its attempt (`at`): count itself, send the request, store the response
in the `executionState`, classify it; a call that the Retrier refuses (`Refused`) ends with a
payload of no attempts. `ShouldRetryLen` and `IsTemporaryError` are the two reads
of `shouldRetry`, between which `ChangeRegistry` may happen. What the documentation calls
temporary for a job is `TemporaryFor`: its own errors and the registered ones, or every error
if there are none of either. Two auxiliary variables of a call keep that set through the
changes of the registry: `always`, what was temporary in all moments so far, and `ever`, what
was in one of them. An orphan goes on through the same actions
while `execute` makes the payload of the shared state (`Snapshot`), records it and sends the callback. A
server answers with any status, a request fails with any error, or nothing ever happens.

**Backoff** and **Queries** compute with `MachineInts`, whose width is a constant. A behaviour of
`Backoff` is one call whose function always fails; the backoff is exact up to its
conversion to a `Duration`, which for a number that does not fit gives what the machine
gives (two choices). Only the function and the waits take time. `Queries` holds the two queries as operators, and a client that asks
for pages while jobs are added and change state, or polls the history of a job while
its runs are recorded and trimmed to `HistoryLimit`, as the storage in memory does (what the
retention of SQLite keeps, by age and rows, is `SQLiteStorage!NoRunLostEarly`). Powers (`Pow`), the append loop of a filter (`Filter`) and
the order of the statuses (`Sorted`) are defined here and not taken from the libraries, whose
versions the provers know nothing about.

**Scheduler.** An element of `Entries` is one call of `Schedule` (a `jobEntry`); ids may be
reused by several entries. `pc[e]` is where `runJob` is, `run[e][k]` where the goroutine of
the k-th run is. `op`, `cur` and `todo` are the API call that holds `s.mu`, from its first to
its last storage write: job goroutines, runs and crashes fall between. A write either
takes effect or fails: `Writable` is false in an outage and, when `CtxBound` is set, under a
done ctx, as with SQLite. `Crash` forgets all but the storage; `Reconcile...` is the work
of `reconcileRecoveredState`. The exchange over HTTP is left out: a run takes as long as it
likes, but its callback, and so the run, ends when its ctx does.

**SQLiteStorage.** A writer begins a call (`Call`), takes `writeMu` (`Lock`), reads the status
row in a transaction (`Load`), records the history (`RecordHistory`), writes the row back
(`WriteStatus`) and commits. `txStatus` and `txHistory` are the tables as the transaction sees
them. `Fail` is a statement that returns an error, `Crash` the end of the process, after
which the file may be opened with other retention options. `Tick` lets time pass, so a
result may be recorded long after the run finished.

## The runs

| run | instance | shows |
|---|---|---|
| `retrier` | one caller of each method, `MaxRetries` 2 | timers are conserved, the pool cannot deadlock, `Errors` explain the result, `DoWithContext` implements `RetryCalls`, every call returns, orphans end |
| `retrier_starved` | 2 callers, `MaxRetries` 1 | **violation**, below |
| `execution` | 1 run, one retry, 3 kinds of job, registry of up to 2 entries | the recorded result is explained by the requests, only errors that were temporary during the call are retried and one that always was ends no call (with one exception, below), unregistering spares other errors, every run comes to the write of its result, a canceled one ends |
| `arithmetic` | seven-bit integers; 3 jobs; a history of 2 runs | no retry starts after the timeout, however long attempts take, and none before its backoff, whatever overflowed; queries equal their reference definition; paging and polling miss nothing they must not miss |
| `scheduler` | 2 ids, 2 entries, 2 slots, 2 runs each, in memory | registration, counts, states, semaphore, quiescence after `Stop`, final states |
| `scheduler_hostile` | 1 id, 2 entries, SQLite, one outage, one crash | what holds even then |
| `scheduler_liveness` | 1 id, 2 entries, 1 slot | `Stop` returns, a canceled job ends |
| `sqlite_storage` | 2 writers, 1 id, retention by age and by rows | status and history agree, nothing is pruned early, every call is one atomic step of `StorageContract` or none |
| `scheduler_completed`, `scheduler_reused_id`, `scheduler_sqlite`, `scheduler_restart` | as small as the case needs | **violations**, below |

Bounds, and why they are enough to meet the interesting cases:
 - two callers and three timers is the largest number of callers for which the pool is
   safe (`NoTimerDeadlock`), two callers and two timers the smallest deadlock; two retries
   give a first, a middle and a last attempt. There is no bound on the number of calls. The
   two callers differ in their method; for any number of callers of either method the
   safety properties are proved;
 - one run in `execution`: runs have nothing in common but the registry and the `Retrier`,
   and the environment does to both whatever another run could. One retry gives an attempt
   before the last one. `MaxLen` 2 bounds the registry: an entry twice, or one and another
   that wraps it; users change it only while a run has not begun or its call goes on. Deadlock is not
   checked, since a run that has ended is over;
 - integers of seven bits: products, sums and powers of options overflow within a few
   attempts. The properties of `Backoff` are stated for retriers with `BackoffFactor *
   (Timeout + 1) + Jitter` at most the largest integer (`Roomy`: a backoff that the timeout
   lets pass was less than `Timeout + 1` before it was rounded down; in 64 bits this is two centuries): without it
   they are false, and the instance has such retriers too. The two halves of `arithmetic`
   exclude each other, and clients end, so deadlock is not checked;
 - three jobs and pages of one or two let a job be added before, on and after the page
   boundary; five runs overrun a history of two more than once;
 - two entries on one id are what a reused id needs, and two ids let a job not be the
   only one that waits for `Stop`; `RunBound` (1 or 2) bounds the runs of an entry: the
   model of a job with more runs stops there, which is why these runs do not check
   for deadlock (all jobs may also simply be over). Two runs of one job can be under way at once,
   since a callback may outlast the interval;
 - `HistoryLimit` 1 in the scheduler's runs: every second result trims;
 - one outage and one crash, at any point, are enough to separate any two writes;
 - SQLite: `MaxTime` 3 lets a row become older than the `maxAge` of 1; `MaxSeq` and
   `MaxActive` bound the calls, not the rows, so that two concurrent results take the
   sequence to 3, past a `HistoryLimit` of 2; one id, since no statement joins two ids,
   and one end state, since the storage does not look at it.

Symmetry (of entries) is used in runs without liveness properties only.

**Fairness.** `Retrier!Fairness`: goroutines that can run do run, the retried function returns
(otherwise no call could), armed timers fire; strong fairness for taking a timer, because the
Go runtime serves the receivers that wait on a channel in order. Nobody is obliged to call,
cancel or stop. `Scheduler!Fairness`: API calls and `Stop` go on, a run starts and records
its result (its HTTP calls have timeouts), but its callback is sure to end only when its
ctx is done; strong fairness for the steps of a job, because senders waiting on `s.sem`, and
waiters on `s.mu`, are served in order. `Execution!Fairness`: goroutines that can run do run, and the
overall timeout of a call elapses (`CallsSettle` of `Retrier` shows it, for up to `MaxRetries`
concurrent calls); a request or callback is sure to end only when its context does. This
justifies the fairness `Scheduler` assumes for a run: `RunRecorded` is why a run is sure
to come to the write of its result (a write that fails is only logged), `CanceledRunEnds` why its callback ends with its ctx. Neither the time of day nor outages are fair.

## Where the code and its documentation disagree

 - `retrier_starved`: `waitRetry` blocks in `r.timer.Get()` outside its `select`. With
   `MaxRetries + 1` concurrent calls all timers can be held as timeout timers, and then no
   call ever returns, canceled or not. `NoTimerDeadlock` says how many callers are safe:
   `MaxRetries`.
 - `scheduler_completed`: a job canceled while it waits for its next tick ends as
   `completed`.
 - `scheduler_reused_id`: `UpsertStatus` leaves the terminal flag of the previous job with
   this id set; the new job is never reported as running and its end is never recorded.
 - `scheduler_sqlite`: the last writes of a job are made under its own ctx; once that is
   canceled SQLite refuses them and the job stays running, and stored, after its end.
 - `scheduler_restart`: `Remove` and `Stop` delete the job row before they write the
   final state; a crash in between leaves a status that no later reconciliation settles,
   as it looks at stored rows only.
 - `ExecutionCleaned.cfg`, which is not among the runs of `PROJECT.json` (with module
   `MCExecution` TLC finds `TemporaryNotFinal` violated within seconds): `shouldRetry`
   reads `Registry.Len` and then the list, under two locks. When `Clean` or
   `UnRegisterTemporaryErrors` empties the registry in between, the error is final,
   although an entry said it is temporary at the first read and an empty registry retries
   every error at the second. `retrier.go:208-209` and `src/README.md:99` promise
   otherwise. This is the only way: `RetryJustified`, which makes this one exception
   (`Emptied`), is checked and proved.

Other behaviour that the models show, and that no documentation contradicts:
 - a job with errors of its own works with the copy of the registry made when its run
   started: an error unregistered since is still retried, one registered since is not;
 - `UnRegisterTemporaryErrors` removes one entry: an error registered twice stays temporary,
   and the entry removed may be an error that wraps the target while the target stays;
 - the payload of an aborted run may carry the status of the attempt under way, 200
   included, or of an attempt before it;
 - `QueryJobStatuses` with a positive `Offset` and a `Limit` near the largest integer
   computes an end before the start, and the slice expression panics (`QueryPanics`);
   `QueriesExact` is about sums that fit;
 - a client that pages may see a job twice, when one is added before its offset.

## What is proved

All theorems are proved for every value of the constants allowed by the `ASSUME`s of
the modules: finite sets of callers, ids and entries, any number of retries, runs and
writers, any limit, any width of the integers, any bound on outages and crashes. Each
rests on an inductive invariant, which TLC checked on the run's instance before it was
proved: the property itself is seldom inductive.

**`RetrierProofs`**: `TypeCorrect`, `TimersConserved`, `TimerDeadlockFree`, `ErrorsExplained`. The
inductive invariant `IInv` strengthens the checked properties with `HoldsByPhase` (which
timers a call holds at each `pc`: without it a step could put back a timer that it does not
have) and `TraceByPhase` (how many errors have been recorded at each `pc`, and that an attempt
that is retried is not the last), and states conservation pointwise (`Conserved`). The absence of deadlock is a pigeonhole
argument: if no call holds a backoff timer then each holds at most one timer, so an empty
pool needs `MaxRetries + 1` callers. `DoWithContextImplementsRetryCalls` adds
`WorkerByPhase` (what the goroutine of an attempt may be doing at each `pc`). A step of the
`Retrier` moves one caller at most, so the proof first restates each action of `RetryCalls` for
a caller that moves while all others stand `Still`.

**`SchedulerProofs`**: `TypeCorrect`, `SemaphoreRespected`, `LiveJobsRegistered`, with storage
failures and restarts. `IInv` adds `RunsInOrder` (run k exists only if k runs were
started, so that a new run takes a fresh index), `SlotsCounted` and `SlotsBounded` (the
semaphore as a cardinality), and `RegistrationInv` (who is registered in each phase of
`Schedule`, `Remove`, `Stop` and of the job). The counts use lemmas on the cardinality of a
set that gains or loses one run.

**`SchedulerStorageProofs`** goes on from there, in three layers, as strong as the storage
allows:
 - whatever fails and whenever the process restarts: `RegisteredJobsStored` and
   `FinalStatesSettled`, by `StoredInv` (a registered job that no API call is at work on has its
   row and its status, and a terminal state has its flag);
 - when no storage call fails (`Dependable`: no outage, and no ctx that ends writes), with
   restarts: `JobCountMatches`, by `RowsInv` (every row has an owner: a registered job, one being
   saved, or the reconciliation that will come to it). With a failing storage the count is
   wrong, as the finding `scheduler_sqlite` shows;
 - for the storage in memory (`InMemory`: `Dependable`, and nothing outlives the process):
   `RunsCounted`, `RunningExact` and `StopLeavesNothing`, by `MemoryInv` (who has a status to
   write to, which statuses a live job may have, how far `Stop` is). The runs active on an id
   are counted over all entries that ever used it, which is what makes the counts hold
   when a new job takes over an id whose last run is still under way.

The hypotheses are those of the runs: `scheduler` is an instance of `InMemory`, and
`scheduler_hostile` has neither.

**`SQLiteStorageProofs`**: `HistoryAgreesWithStatus`, `RetentionLosesNoneEarly` and
`SQLiteImplementsContract`. `IInv` says that `writeMu` admits one writer (`OneWriter`) and, at each
statement of a transaction, what it has done so far to the committed tables (`TxOK`):
the row it read is still the committed one, the history has at most one row more, and lost
rows only that the retention gives up. At a commit this is one step of
`StorageContract`; `Fail` and `Crash` drop the transaction and map to none.

**`ExecutionProofs`**: `TypeCorrect`, `PayloadsExplained`, `RetriesJustified`,
`UnRegisterSparesOthers`. `IInv` relates, for every run, the place of the attempt's function,
its goroutine and its response (`PlaceInv`), the place of `execute` and the phase of its call
(`PhaseInv`), the attempts that ended and the loop variable (`LogInv`), and the shared
`executionState` and those attempts (`CountInv`: it is ahead by the attempt under way, or
abandoned, and by no more; this is why the payload taken from it can be explained although an
orphan still writes to it). A call that was refused has
left no trace of an attempt (`RefusedInv`). `RetriesJustified` needs `HistoryInv`: what the list of the call, or the
registry, calls temporary now is in `ever`, and what is in `always` is in that list or the
registry; that is why a copy that is out of date is still between the two. `UnRegisterSparesOthers` is about a registry of any
length: the targets are removed one by one, so the proof is an induction over them, on top
of the lemma that one removal takes away one entry that is or wraps its target.
The `ASSUME` of `Execution` says that the names used for "no error" and for the ends of a
call are not errors, that the errors made by the package itself exist, and that no request
fails with the error that only the classification of a status makes.

**`BackoffProofs`**: `RetriesWithinTimeout` and `BackoffAsDocumented`, for retriers with room for
their backoff (`Roomy`). The invariant `BInv` carries `RoomInv`: while a call goes on, the next backoff
is at most `BackoffFactor * (Timeout + 1)`, since the wait before it ended within the timeout. So
the first wait whose arithmetic could overflow comes after one that the timeout ends, and
every sum that `Wrap` is applied to fits. Hence no wait is zero or less, and the only way past
the `select` after the timeout, a backoff timer that is ready at once, is closed: this is what
`now <= Timeout` at the start of a retry rests on, since a function may well take longer than
the timeout. The lemmas on `Pow` are inductions.

**`QueriesProofs`**: `PagingFindsAll`, `PollingInOrder` and `QueriesAreExact`. `Orders(s, S)` says that
the sequence `s` lists the set `S` in increasing order; it does so in one way only, `Sorted`
gives that sequence and `Filter` keeps the property. Hence a page can be described by ranks.
`QInv` says that a job the paging client has not got is at a rank it has yet
to reach (`PageInv`: a job added before it moves it back, never forward), that the history
holds the last runs and no others (`HistoryInv`), and where a polling client goes on (`FromInv`). A page
whose end overflows panics; it is never empty before the last one, so that paging does not end early.

**`DataInduction`** holds what the recursive definitions need. The library's induction
theorems take a predicate as a parameter, which the provers cannot instantiate; here induction is
over a *set* of numbers, from the library's facts on well-founded relations, and a proof
takes the set of the numbers that have the property.

Only model-checked: the liveness properties `CallsSettle`, `RunRecorded`, `CanceledRunEnds`,
`StopReturns` and `CancelledJobEnds`. The prover has no rule for fairness, as it cannot reason
about `ENABLED`.

## Not modelled

`SetRegistry`, whose first call alone replaces the registry, by a plain write that is
meant for the time before the first call; the pool of `Errors`, which is the garbage
collector's business unless a caller keeps, or puts back twice, an `Errors` it gave away; `Close`, `Drain` and `Len` of the timer pool, which
the package never calls; bodies and headers of requests and responses; validation of jobs
and URLs, which are checks of strings without state; reads of the SQLite storage, which
change nothing (one that fails reports no statuses, which a client that pages takes for
the last page); logging; examples, benchmarks and tests.

## Plan

All components with state have a module, and every safety property of the passing runs a
theorem. Left to do:
 1. the safety half of the liveness arguments, for any number of callers and jobs: that a call,
    a run or a `Stop` that has not ended always has a step it waits for, which someone other
    than itself is obliged to take (for `Retrier` this is `TimerDeadlockFree`);
 2. how many jobs a paging client sees twice: at most as many as were added meanwhile;
 3. the reads of the SQLite storage, should they ever become more than single queries.
