------------------------------- MODULE Scheduler -------------------------------
(***************************************************************************)
(* pkg/scheduler/scheduler.go: the API calls (Schedule, Remove, Stop and   *)
(* the reconciliation of a restart), one goroutine per job and one per     *)
(* run, over a JobsStorage.                                                *)
(*                                                                         *)
(* The API calls hold s.mu from their first to their last step; a step is  *)
(* one storage write with the assignments next to it, so that job and run  *)
(* goroutines, which write to the storage without s.mu, and crashes fall   *)
(* between the writes of a call.                                           *)
(*                                                                         *)
(* Data abstraction: HTTP requests, retries, payloads, times and logs are  *)
(* left out: a run may take as long as it likes.  Job id k is the id       *)
(* "job-k" that nextID makes from the counter; callers may pass it too.    *)
(***************************************************************************)
EXTENDS JobsStorage, FiniteSets

CONSTANTS Ids,          \* job ids
          Entries,      \* the jobEntry values; bounds the number of Schedule calls
          NoEntry,
          Schedules,    \* the schedules a job may have
          Limit,        \* WithConcurrency(Limit); 0 when there is no limit
          RunBound,     \* bounds the runs of an entry
          CtxBound,     \* the storage refuses to work under a done ctx (SQLite)
          MaxOutages,   \* bounds the failures of the storage
          MaxCrashes    \* bounds the restarts over a durable storage

ASSUME IdsAssumption == Ids \subseteq Nat \ {0} /\ IsFiniteSet(Ids)
ASSUME EntriesAssumption == NoEntry \notin Entries /\ IsFiniteSet(Entries)
ASSUME SchedulesAssumption ==
    Schedules \subseteq [startAt : BOOLEAN, maxRuns : Nat, endAt : BOOLEAN]
ASSUME BoundsAssumption ==
    /\ Limit \in Nat /\ RunBound \in Nat \ {0} /\ CtxBound \in BOOLEAN
    /\ MaxOutages \in Nat /\ MaxCrashes \in Nat

VARIABLES jobs,         \* s.jobs
          counter,      \* s.counter
          stop,         \* how far Stop is; s.stopped unless it is "no"
          op, cur, todo,\* the API call that holds s.mu, the id it is at, the ids left
          rows,         \* the ids of the jobs in the storage
          status,       \* the status entries of the storage
          eid, plan,    \* the id and the schedule of an entry
          pc,           \* where the goroutine of the job is
          cancelled,    \* the job's ctx is done
          runs,         \* the runs it has started
          tstate,       \* terminalState
          run,          \* run[e][k], where the goroutine of its k-th run is
          sem,          \* the tokens in s.sem
          outage, outages, crashes

apiVars   == <<jobs, counter, stop, op, cur, todo>>
entryVars == <<eid, plan, pc, cancelled, runs, tstate>>
envVars   == <<outage, outages, crashes>>
vars == <<apiVars, rows, status, entryVars, run, sem, envVars>>

Ops == {"none", "schedule", "rollback", "remove", "stop", "stopMark",
        "reconcile", "reconcileDelete"}
Live == {"start", "loop", "enqueue", "select", "readStopped", "readState",
         "drain", "cleanup"}
Phases == {"new", "saving", "done"} \cup Live
RunIds == 1 .. RunBound
Running == {"spawned", "exec", "callback"}

MuFree == op = "none"

\* A storage call works under a ctx that is alive / under the ctx of the job.
Working == ~outage
Writable(e) == Working /\ ~(CtxBound /\ cancelled[e])

Init ==
    /\ jobs = [i \in Ids |-> NoEntry]
    /\ counter = 0 /\ stop = "no" /\ op = "none" /\ cur = 0 /\ todo = {}
    /\ rows = {}
    /\ status = [i \in Ids |-> NoStatus]
    /\ eid = [e \in Entries |-> 0]
    /\ plan \in [Entries -> Schedules]
    /\ pc = [e \in Entries |-> "new"]
    /\ cancelled = [e \in Entries |-> FALSE]
    /\ runs = [e \in Entries |-> 0]
    /\ tstate = [e \in Entries |-> "completed"]
    /\ run = [e \in Entries |-> [k \in RunIds |-> "none"]]
    /\ sem = 0
    /\ outage = FALSE /\ outages = 0 /\ crashes = 0

--------------------------------------------------------------------------------
(***************************************************************************)
(* The API                                                                 *)
(***************************************************************************)
\* Save refuses an id that is in the storage.
Accepted(id) == jobs[id] = NoEntry /\ id \notin rows /\ Working

\* Schedule up to Save.  A generated id uses up a number even if it is refused.
Schedule(e, id, generated) ==
    /\ MuFree /\ stop = "no" /\ pc[e] = "new"
    /\ generated => id = counter + 1
    /\ counter' = IF generated THEN counter + 1 ELSE counter
    /\ \/ /\ Accepted(id)
          /\ rows' = rows \cup {id}
          /\ eid' = [eid EXCEPT ![e] = id]
          /\ pc' = [pc EXCEPT ![e] = "saving"]
          /\ op' = "schedule"
       \/ ~Accepted(id) /\ UNCHANGED <<rows, eid, pc, op>>
    /\ UNCHANGED <<jobs, stop, cur, todo, status, plan, cancelled, runs, tstate,
                   run, sem, envVars>>

\* UpsertStatus, the new entry in s.jobs and its goroutine.
ScheduleUpsert(e) ==
    /\ op = "schedule" /\ pc[e] = "saving" /\ Writable(e)
    /\ status' = [status EXCEPT ![eid[e]] = UpsertStatus(@, "scheduled")]
    /\ jobs' = [jobs EXCEPT ![eid[e]] = e]
    /\ pc' = [pc EXCEPT ![e] = IF plan[e].startAt THEN "start" ELSE "loop"]
    /\ op' = "none"
    /\ UNCHANGED <<counter, stop, cur, todo, rows, eid, plan, cancelled, runs,
                   tstate, run, sem, envVars>>

\* Mutant: the error of UpsertStatus is ignored.
ScheduleUpsertIgnored(e) ==
    /\ op = "schedule" /\ pc[e] = "saving" /\ ~Writable(e)
    /\ jobs' = [jobs EXCEPT ![eid[e]] = e]
    /\ pc' = [pc EXCEPT ![e] = "loop"]
    /\ op' = "none"
    /\ UNCHANGED <<counter, stop, cur, todo, rows, status, eid, plan, cancelled,
                   runs, tstate, run, sem, envVars>>

\* UpsertStatus fails ...
ScheduleUpsertFails(e) ==
    /\ op = "schedule" /\ pc[e] = "saving" /\ ~Writable(e)
    /\ op' = "rollback"
    /\ UNCHANGED <<jobs, counter, stop, cur, todo, rows, status, entryVars, run,
                   sem, envVars>>

\* ... and the row is deleted again, if the storage lets it.
ScheduleRollback(e) ==
    /\ op = "rollback" /\ pc[e] = "saving"
    /\ rows' = IF Writable(e) THEN rows \ {eid[e]} ELSE rows
    /\ pc' = [pc EXCEPT ![e] = "done"]
    /\ op' = "none"
    /\ UNCHANGED <<jobs, counter, stop, cur, todo, status, eid, plan, cancelled,
                   runs, tstate, run, sem, envVars>>

\* Mutant: the job is forgotten but its context stays alive.
RemoveWithoutCancel(id) ==
    /\ MuFree /\ jobs[id] # NoEntry
    /\ jobs' = [jobs EXCEPT ![id] = NoEntry]
    /\ rows' = IF Working THEN rows \ {id} ELSE rows
    /\ op' = "remove" /\ cur' = id
    /\ UNCHANGED <<counter, stop, todo, status, entryVars, run, sem, envVars>>

\* Remove up to Delete.
Remove(id) ==
    /\ MuFree /\ jobs[id] # NoEntry
    /\ cancelled' = [cancelled EXCEPT ![jobs[id]] = TRUE]
    /\ jobs' = [jobs EXCEPT ![id] = NoEntry]
    /\ rows' = IF Working THEN rows \ {id} ELSE rows
    /\ op' = "remove" /\ cur' = id
    /\ UNCHANGED <<counter, stop, todo, status, eid, plan, pc, runs, tstate,
                   run, sem, envVars>>

RemoveMark ==
    /\ op = "remove"
    /\ status' = IF Working THEN [status EXCEPT ![cur] = MarkRemoved(@)] ELSE status
    /\ op' = "none" /\ cur' = 0
    /\ UNCHANGED <<jobs, counter, stop, todo, rows, entryVars, run, sem, envVars>>

\* Stop takes the lock and ranges over s.jobs.
Stop ==
    /\ MuFree /\ stop = "no"
    /\ stop' = "locked" /\ op' = "stop"
    /\ todo' = {i \in Ids : jobs[i] # NoEntry}
    /\ UNCHANGED <<jobs, counter, cur, rows, status, entryVars, run, sem, envVars>>

\* One entry: cancel and Delete ...
StopEntry(id) ==
    /\ op = "stop" /\ id \in todo
    /\ cancelled' = [cancelled EXCEPT ![jobs[id]] = TRUE]
    /\ rows' = IF Working THEN rows \ {id} ELSE rows
    /\ op' = "stopMark" /\ cur' = id /\ todo' = todo \ {id}
    /\ UNCHANGED <<jobs, counter, stop, status, eid, plan, pc, runs, tstate, run,
                   sem, envVars>>

\* ... then MarkTerminal.
StopMark ==
    /\ op = "stopMark"
    /\ status' = IF Working THEN [status EXCEPT ![cur] = MarkTerminal(@, "stopped")]
                            ELSE status
    /\ op' = "stop" /\ cur' = 0
    /\ UNCHANGED <<jobs, counter, stop, todo, rows, entryVars, run, sem, envVars>>

\* A new map, and the lock is released.
StopUnlock ==
    /\ op = "stop" /\ todo = {}
    /\ jobs' = [i \in Ids |-> NoEntry]
    /\ op' = "none" /\ stop' = "waiting"
    /\ UNCHANGED <<counter, cur, todo, rows, status, entryVars, run, sem, envVars>>

\* Mutant: Schedule does not add the goroutine of the job.
WaitGroupZeroRuns == \A e \in Entries, k \in RunIds : run[e][k] \notin Running

\* s.wg counts the goroutines of jobs and runs.
WaitGroupZero ==
    \A e \in Entries : pc[e] \notin Live /\ \A k \in RunIds : run[e][k] \notin Running

StopReturn ==
    /\ stop = "waiting" /\ WaitGroupZero
    /\ stop' = "returned"
    /\ UNCHANGED <<jobs, counter, op, cur, todo, rows, status, entryVars, run, sem, envVars>>

--------------------------------------------------------------------------------
(***************************************************************************)
(* The goroutine of a job: runJob                                          *)
(***************************************************************************)
\* Where a step of e's goroutine goes that changes nothing else.
Goto(e, next) ==
    /\ pc' = [pc EXCEPT ![e] = next]
    /\ UNCHANGED <<apiVars, rows, status, eid, plan, cancelled, runs, tstate, run,
                   sem, envVars>>

\* waitUntil(StartAt).
WaitUntil(e) ==
    /\ pc[e] = "start"
    /\ Goto(e, "loop") \/ (cancelled[e] /\ Goto(e, "readStopped"))

\* The top of the loop: a done ctx, then MaxRuns and EndAt end it.
LoopCancelled(e) ==
    /\ pc[e] = "loop" /\ cancelled[e]
    /\ Goto(e, "readStopped")

LastRunDone(e) == plan[e].maxRuns > 0 /\ runs[e] >= plan[e].maxRuns

LoopEnds(e) ==
    /\ pc[e] = "loop" /\ ~cancelled[e]
    /\ LastRunDone(e) \/ plan[e].endAt
    /\ Goto(e, "drain")

LoopRuns(e) ==
    /\ pc[e] = "loop" /\ ~cancelled[e] /\ ~LastRunDone(e)
    /\ runs' = [runs EXCEPT ![e] = @ + 1]
    /\ pc' = [pc EXCEPT ![e] = "enqueue"]
    /\ UNCHANGED <<apiVars, rows, status, eid, plan, cancelled, tstate, run, sem, envVars>>

\* Mutant: a slot too many.
SlotFreeLate == Limit = 0 \/ sem <= Limit

\* s.sem <- struct{}{} does not block.
SlotFree == Limit = 0 \/ sem < Limit

\* enqueue waits for a slot, whatever happens to ctx, and starts the run.
Enqueue(e) ==
    /\ pc[e] = "enqueue" /\ SlotFree
    /\ sem' = IF Limit = 0 THEN sem ELSE sem + 1
    /\ run' = [run EXCEPT ![e][runs[e]] = "spawned"]
    /\ pc' = [pc EXCEPT ![e] = "select"]
    /\ UNCHANGED <<apiVars, rows, status, eid, plan, cancelled, runs, tstate, envVars>>

\* The select after a run: a done ctx leaves terminalState as it is.
SelectDone(e) ==
    /\ pc[e] = "select" /\ cancelled[e]
    /\ Goto(e, "drain")

\* Bound: the ticker of a job without MaxRuns ticks until RunBound runs are done.
SelectTick(e) ==
    /\ pc[e] = "select"
    /\ runs[e] < RunBound \/ LastRunDone(e)
    /\ Goto(e, "loop")

\* contextTerminalState reads s.stopped under s.mu ...
ReadStopped(e) ==
    /\ pc[e] = "readStopped" /\ MuFree
    /\ tstate' = [tstate EXCEPT ![e] = IF stop = "no" THEN "canceled" ELSE "stopped"]
    /\ pc' = [pc EXCEPT ![e] = "readState"]
    /\ UNCHANGED <<apiVars, rows, status, eid, plan, cancelled, runs, run, sem, envVars>>

\* ... and then the state in the storage.
ReadState(e) ==
    /\ pc[e] = "readState"
    /\ tstate' = IF /\ Writable(e) /\ status[eid[e]].known
                    /\ status[eid[e]].state = "removed"
                   THEN [tstate EXCEPT ![e] = "removed"] ELSE tstate
    /\ pc' = [pc EXCEPT ![e] = "drain"]
    /\ UNCHANGED <<apiVars, rows, status, eid, plan, cancelled, runs, run, sem, envVars>>

\* The deferred runsWg.Wait and finalizeJobState.
Finalize(e) ==
    /\ pc[e] = "drain" /\ \A k \in RunIds : run[e][k] \notin Running
    /\ status' = IF Writable(e)
                   THEN [status EXCEPT ![eid[e]] = MarkTerminal(@, tstate[e])] ELSE status
    /\ pc' = [pc EXCEPT ![e] = "cleanup"]
    /\ UNCHANGED <<apiVars, rows, eid, plan, cancelled, runs, tstate, run, sem, envVars>>

\* Mutants: cleanupJob does not look whose entry it finds; it forgets the storage.
OwnsAny(e) == jobs[eid[e]] # NoEntry
KeepsRow(e) == rows

\* cleanupJob leaves an entry that replaced e alone.
Owns(e) == jobs[eid[e]] = e
RowsWithout(e) == IF Writable(e) THEN rows \ {eid[e]} ELSE rows

\* The deferred cleanupJob, s.wg.Done and cancel.
Cleanup(e) ==
    /\ pc[e] = "cleanup" /\ MuFree
    /\ IF Owns(e)
         THEN /\ jobs' = [jobs EXCEPT ![eid[e]] = NoEntry]
              /\ rows' = RowsWithout(e)
         ELSE UNCHANGED <<jobs, rows>>
    /\ pc' = [pc EXCEPT ![e] = "done"]
    /\ cancelled' = [cancelled EXCEPT ![e] = TRUE]
    /\ UNCHANGED <<counter, stop, op, cur, todo, status, eid, plan, runs, tstate,
                   run, sem, envVars>>

--------------------------------------------------------------------------------
(***************************************************************************)
(* The goroutine of a run: execute                                         *)
(***************************************************************************)
\* Mutant: a run that finds its ctx done returns before it defers runsWg.Done.
RunStartSkips(e, k) ==
    /\ run[e][k] = "spawned" /\ ~cancelled[e]
    /\ status' = [status EXCEPT ![eid[e]] = MarkExecutionStart(@)]
    /\ run' = [run EXCEPT ![e][k] = "exec"]
    /\ UNCHANGED <<apiVars, rows, entryVars, sem, envVars>>

RunStart(e, k) ==
    /\ run[e][k] = "spawned"
    /\ status' = IF Writable(e)
                   THEN [status EXCEPT ![eid[e]] = MarkExecutionStart(@)] ELSE status
    /\ run' = [run EXCEPT ![e][k] = "exec"]
    /\ UNCHANGED <<apiVars, rows, entryVars, sem, envVars>>

\* DoWithContext has returned; its result is recorded.
RunRecord(e, k) ==
    /\ run[e][k] = "exec"
    /\ status' = IF Writable(e)
                   THEN [status EXCEPT ![eid[e]] = RecordExecutionResult(@)] ELSE status
    /\ run' = [run EXCEPT ![e][k] = "callback"]
    /\ UNCHANGED <<apiVars, rows, entryVars, sem, envVars>>

\* Mutant: the slot is not given back.
RunFinishKeepsSlot(e, k) ==
    /\ run[e][k] = "callback"
    /\ run' = [run EXCEPT ![e][k] = "finished"]
    /\ UNCHANGED <<apiVars, rows, status, entryVars, sem, envVars>>

\* The callback has been sent; the slot is given back, then runsWg.Done, s.wg.Done.
RunFinish(e, k) ==
    /\ run[e][k] = "callback"
    /\ sem' = IF Limit = 0 THEN sem ELSE sem - 1
    /\ run' = [run EXCEPT ![e][k] = "finished"]
    /\ UNCHANGED <<apiVars, rows, status, entryVars, envVars>>

--------------------------------------------------------------------------------
(***************************************************************************)
(* The environment, and the restart                                        *)
(***************************************************************************)
\* The ctx given to Schedule is canceled.
CallerCancel(e) ==
    /\ pc[e] \in Live \cup {"saving"} /\ ~cancelled[e]
    /\ cancelled' = [cancelled EXCEPT ![e] = TRUE]
    /\ UNCHANGED <<apiVars, rows, status, eid, plan, pc, runs, tstate, run, sem, envVars>>

\* Every storage call fails until the storage is back.
OutageBegins ==
    /\ ~outage /\ outages < MaxOutages
    /\ outage' = TRUE /\ outages' = outages + 1
    /\ UNCHANGED <<apiVars, rows, status, entryVars, run, sem, crashes>>

OutageEnds ==
    /\ outage
    /\ outage' = FALSE
    /\ UNCHANGED <<apiVars, rows, status, entryVars, run, sem, outages, crashes>>

\* The process dies, and NewScheduler opens the same storage again: it reads the
\* ids of the jobs in it and reconciles them one by one.
Crash ==
    /\ crashes < MaxCrashes
    /\ crashes' = crashes + 1
    /\ jobs' = [i \in Ids |-> NoEntry]
    /\ counter' = 0 /\ stop' = "no" /\ cur' = 0 /\ sem' = 0
    /\ op' = "reconcile" /\ todo' = IF Working THEN rows ELSE {}
    /\ pc' = [e \in Entries |-> IF pc[e] = "new" THEN "new" ELSE "done"]
    /\ cancelled' = [e \in Entries |-> pc[e] # "new"]
    /\ run' = [e \in Entries |-> [k \in RunIds |->
                  IF run[e][k] \in Running THEN "finished" ELSE run[e][k]]]
    /\ UNCHANGED <<rows, status, eid, plan, runs, tstate, outage, outages>>

\* A scheduled or running job becomes canceled.  When its state cannot be read it
\* is left alone; when the write fails, the ids that are left are skipped.
ReconcileMark(id) ==
    /\ op = "reconcile" /\ id \in todo
    /\ LET live == status[id].known /\ status[id].state \in LiveStates IN
       \/ /\ Working
          /\ status' = IF live THEN [status EXCEPT ![id] = MarkTerminal(@, "canceled")]
                               ELSE status
          /\ op' = "reconcileDelete" /\ cur' = id /\ todo' = todo \ {id}
       \/ /\ ~Working
          /\ op' = "reconcileDelete" /\ cur' = id /\ todo' = todo \ {id}
          /\ UNCHANGED status
       \/ /\ ~Working /\ live
          /\ op' = "none" /\ todo' = {} /\ UNCHANGED <<status, cur>>
    /\ UNCHANGED <<jobs, counter, stop, rows, entryVars, run, sem, envVars>>

ReconcileDelete ==
    /\ op = "reconcileDelete"
    /\ rows' = IF Working THEN rows \ {cur} ELSE rows
    /\ op' = "reconcile" /\ cur' = 0
    /\ UNCHANGED <<jobs, counter, stop, todo, status, entryVars, run, sem, envVars>>

ReconcileDone ==
    /\ op = "reconcile" /\ todo = {}
    /\ op' = "none"
    /\ UNCHANGED <<jobs, counter, stop, cur, todo, rows, status, entryVars, run, sem, envVars>>
--------------------------------------------------------------------------------
ApiStep ==
    \/ \E e \in Entries : ScheduleUpsert(e) \/ ScheduleUpsertFails(e) \/ ScheduleRollback(e)
    \/ RemoveMark
    \/ \E id \in Ids : StopEntry(id) \/ ReconcileMark(id)
    \/ StopMark \/ StopUnlock \/ ReconcileDelete \/ ReconcileDone

JobStep(e) ==
    \/ WaitUntil(e) \/ LoopCancelled(e) \/ LoopEnds(e) \/ LoopRuns(e) \/ Enqueue(e)
    \/ SelectDone(e) \/ SelectTick(e) \/ ReadStopped(e) \/ ReadState(e)
    \/ Finalize(e) \/ Cleanup(e)

Next ==
    \/ \E e \in Entries, id \in Ids, generated \in BOOLEAN : Schedule(e, id, generated)
    \/ \E id \in Ids : Remove(id)
    \/ Stop \/ StopReturn
    \/ ApiStep
    \/ \E e \in Entries :
          \/ JobStep(e) \/ CallerCancel(e)
          \/ \E k \in RunIds : RunStart(e, k) \/ RunRecord(e, k) \/ RunFinish(e, k)
    \/ OutageBegins \/ OutageEnds \/ Crash

Spec == Init /\ [][Next]_vars

\* Goroutines that can run do run, and Go serves those that wait for the mutex or
\* for a slot in FIFO order, hence SF for the job goroutines.  DoWithContext
\* returns, as its timeout is positive.  A callback may have no timeout: only the
\* end of ctx is sure to end it.
Fairness ==
    /\ WF_vars(ApiStep) /\ WF_vars(StopReturn)
    /\ \A e \in Entries :
          /\ SF_vars(JobStep(e))
          /\ \A k \in RunIds :
                WF_vars(RunStart(e, k) \/ RunRecord(e, k) \/ (cancelled[e] /\ RunFinish(e, k)))

FairSpec == Spec /\ Fairness

--------------------------------------------------------------------------------
(***************************************************************************)
(* Safety                                                                  *)
(***************************************************************************)
TypeOK ==
    /\ jobs \in [Ids -> Entries \cup {NoEntry}]
    /\ counter \in Nat
    /\ stop \in {"no", "locked", "waiting", "returned"}
    /\ op \in Ops /\ cur \in Ids \cup {0} /\ todo \in SUBSET Ids
    /\ rows \in SUBSET Ids
    /\ status \in [Ids -> StatusEntry]
    /\ eid \in [Entries -> Ids \cup {0}]
    /\ plan \in [Entries -> Schedules]
    /\ pc \in [Entries -> Phases]
    /\ cancelled \in [Entries -> BOOLEAN]
    /\ runs \in [Entries -> 0 .. RunBound]
    /\ tstate \in [Entries -> TerminalStates]
    /\ run \in [Entries -> [RunIds -> {"none", "finished"} \cup Running]]
    /\ sem \in Nat
    /\ outage \in BOOLEAN /\ outages \in Nat /\ crashes \in Nat

\* A job that runs and that nobody has canceled is in s.jobs under its id, where
\* Remove and Stop find it; and what they find is a job that runs.  Neither the
\* cleanup of an older job with the same id nor Stop's new map loses it.
LiveIsRegistered ==
    /\ \A e \in Entries : pc[e] \in Live /\ ~cancelled[e] => jobs[eid[e]] = e
    /\ \A i \in Ids : jobs[i] # NoEntry => pc[jobs[i]] \in Live /\ eid[jobs[i]] = i

Registered == {i \in Ids : jobs[i] # NoEntry}

\* "JobCount returns the number of jobs currently registered in the scheduler":
\* the rows in the storage, which it counts, are the ids in s.jobs whenever no
\* API call is under way.
JobCountExact == MuFree => rows = Registered

\* Even when storage writes fail and the process restarts, a registered job is
\* never missing from what JobCount and JobIDs report: a job deletes its own row
\* only, and Save refuses an id whose row is still there.
RegisteredIsStored ==
    MuFree => Registered \subseteq rows /\ \A id \in Registered : status[id].known

RunsOf(id, phases) ==
    {r \in Entries \X RunIds : eid[r[1]] = id /\ run[r[1]][r[2]] \in phases}

\* The counters of a status entry, shared by all the jobs that ever had the id,
\* are exact: ActiveRuns counts the runs being executed, Runs those recorded.
RunAccounting ==
    \A id \in Ids :
       /\ status[id].active = Cardinality(RunsOf(id, {"exec"}))
       /\ status[id].seq = Cardinality(RunsOf(id, {"callback", "finished"}))

\* A job that is not over is "running" exactly while a run is executed.
RunningIffActive ==
    \A id \in Ids : status[id].known /\ ~status[id].terminal =>
       status[id].state = (IF RunsOf(id, {"exec"}) # {} THEN "running" ELSE "scheduled")

RunsUnderWay == {r \in Entries \X RunIds : run[r[1]][r[2]] \in Running}

\* WithConcurrency: never more than Limit runs at once, and a slot is taken
\* exactly while a run is under way.
SemaphoreBound == Limit > 0 => sem = Cardinality(RunsUnderWay) /\ sem <= Limit

\* When Stop has returned the scheduler is quiet: no run is under way, no job is
\* registered or in the storage, no run counts as active, every job is over.
StopQuiescence ==
    stop = "returned" =>
       /\ \A e \in Entries, k \in RunIds : run[e][k] \notin Running
       /\ Registered = {} /\ rows = {}
       /\ \A id \in Ids : status[id].active = 0 /\ (status[id].known => status[id].terminal)

\* The final state of a job is final: late runs and finalizers do not touch it.
\* Only Remove (of a job still registered) and a new Schedule of the id change it.
TerminalSettled ==
    [][\A id \in Ids :
          status[id].state \in TerminalStates /\ status'[id].state # status[id].state =>
             \/ op = "remove" /\ cur = id
             \/ op = "schedule" /\ \E e \in Entries : pc[e] = "saving" /\ eid[e] = id]_vars

(***************************************************************************)
(* What the documentation says and the code does not keep                  *)
(***************************************************************************)
\* "JobStateCompleted indicates a job completed naturally (for example MaxRuns
\* reached)": a completed id had a job that did its runs or reached its EndAt.
CompletedMeansNatural ==
    MuFree => \A id \in Ids : status[id].known /\ status[id].state = "completed" =>
       \E e \in Entries : eid[e] = id /\ (LastRunDone(e) \/ plan[e].endAt)

\* "JobStateRunning indicates a job currently has one or more active executions":
\* a registered job that executes a run is reported as running.
RunningReported ==
    \A id \in Ids :
       /\ jobs[id] # NoEntry /\ ~cancelled[jobs[id]] /\ MuFree
       /\ \E k \in RunIds : run[jobs[id]][k] = "exec"
       => status[id].state = "running"

\* The same sentence, read the other way: an id none of whose jobs is left is not
\* reported as running.
RunningMeansActive ==
    \A id \in Ids :
       (\A e \in Entries : eid[e] = id => pc[e] = "done") => status[id].state # "running"

\* "Persisted scheduled/running statuses are marked canceled": once a restart is
\* reconciled, only registered jobs are reported as scheduled or running.
RecoveredSettled ==
    crashes > 0 /\ MuFree =>
       \A id \in Ids \ Registered : status[id].known => status[id].state \in TerminalStates

(***************************************************************************)
(* Liveness                                                                *)
(***************************************************************************)
\* Stop returns.
StopReturns == stop = "locked" ~> stop = "returned"

\* A job whose ctx is done ends and is no longer registered, however long the
\* callbacks of other jobs take; unless it is already waiting for a slot, which
\* enqueue does without looking at ctx.
CancelledJobEnds ==
    \A e \in Entries : pc[e] \in Live \ {"enqueue"} /\ cancelled[e] ~> pc[e] = "done"
================================================================================
