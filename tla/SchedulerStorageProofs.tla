------------------------- MODULE SchedulerStorageProofs -------------------------
(***************************************************************************)
(* Theorems about what the scheduler leaves in its storage, for every set  *)
(* of ids and jobs: what survives any failure of the storage and any       *)
(* restart, what a storage that does not fail adds, and the exact counts   *)
(* and the quiet end that the storage in memory guarantees.                *)
(***************************************************************************)
EXTENDS SchedulerProofs

(***************************************************************************)
(* The inductive invariants                                                *)
(***************************************************************************)
\* The ids that the call holding s.mu has not come to; Stop takes them off one by one.
Untouched(i) == op \in {"stop", "stopMark"} => i \in todo

\* Whatever fails: a registered job has its status and its row, a terminal state goes
\* with the terminal flag.
RegisteredRows ==
    /\ \A i \in Ids : jobs[i] # NoEntry /\ Untouched(i) => i \in rows
    /\ \A e \in Entries : pc[e] = "saving" => eid[e] \in rows
    /\ op \in {"reconcile", "reconcileDelete"} => \A i \in Ids : jobs[i] = NoEntry

StoredInv ==
    /\ RegisteredRows
    /\ \A i \in Ids : jobs[i] # NoEntry => status[i].known
    /\ \A i \in Ids : status[i].state \in TerminalStates => status[i].terminal

\* No storage call fails.
Dependable == ~CtxBound /\ MaxOutages = 0

\* A row belongs to a registered job, to one that is being saved, or to one that the
\* reconciliation will come to.
RowsInv ==
    /\ ~outage
    /\ \A i \in rows : \/ jobs[i] # NoEntry
                       \/ \E e \in Entries : pc[e] = "saving" /\ eid[e] = i
                       \/ op = "reconcile" /\ i \in todo
                       \/ op = "reconcileDelete" /\ i \in todo \cup {cur}
    /\ op \in {"stop", "stopMark"} => rows \subseteq todo

\* The storage in memory: no call fails, and it does not outlive the process.
InMemory == Dependable /\ MaxCrashes = 0

\* Jobs that run, and runs, have a status to write to.
RunsKnown ==
    /\ \A e \in Entries : pc[e] \in Live => status[eid[e]].known
    /\ \A e \in Entries, k \in RunIds :
          run[e][k] # "none" => eid[e] \in Ids /\ status[eid[e]].known

\* A status that is not over belongs to a registered job, or to one that Remove or Stop
\* is about to mark; a job is marked before it leaves s.jobs.
LiveStatus ==
    /\ \A i \in Ids : status[i].known /\ ~status[i].terminal =>
          \/ jobs[i] # NoEntry /\ (Untouched(i) \/ (op = "stopMark" /\ cur = i))
          \/ op = "remove" /\ cur = i
    /\ \A e \in Entries : pc[e] = "cleanup" => status[eid[e]].terminal

\* How far Stop is.
StopInv ==
    /\ op \notin {"reconcile", "reconcileDelete"}
    /\ op \in {"stop", "stopMark"} <=> stop = "locked"
    /\ stop \in {"waiting", "returned"} => op = "none" /\ \A i \in Ids : jobs[i] = NoEntry
    /\ stop = "returned" => WaitGroupZero

MemoryInv == RunsKnown /\ LiveStatus /\ StopInv /\ RunAccounting /\ RunningIffActive

--------------------------------------------------------------------------------
(***************************************************************************)
(* What a write does to a status entry                                     *)
(***************************************************************************)
\* The entry is never forgotten, nor its terminal flag reset; its state is terminal only
\* when the flag says so.
LEMMA WritesKeep ==
    ASSUME NEW s \in StatusEntry, NEW t,
           \/ t = s \/ t = UpsertStatus(s, "scheduled") \/ t = MarkRemoved(s)
           \/ \E x \in TerminalStates : t = MarkTerminal(s, x)
           \/ t = MarkExecutionStart(s) \/ t = RecordExecutionResult(s)
    PROVE  /\ s.known => t.known
           /\ s.terminal => t.terminal
           /\ (s.state \in TerminalStates => s.terminal)
                 => (t.state \in TerminalStates => t.terminal)
<1> USE DEF StatusEntry, TerminalStates
<1>1. CASE t = s
  BY <1>1
<1>2. CASE t = UpsertStatus(s, "scheduled")
  BY <1>2 DEF UpsertStatus
<1>3. CASE t = MarkRemoved(s)
  BY <1>3 DEF MarkRemoved
<1>4. ASSUME NEW x \in TerminalStates, t = MarkTerminal(s, x)
      PROVE  /\ s.known => t.known
             /\ s.terminal => t.terminal
             /\ (s.state \in TerminalStates => s.terminal)
                   => (t.state \in TerminalStates => t.terminal)
  BY <1>4 DEF MarkTerminal
<1>5. CASE t = MarkExecutionStart(s)
  <2>1. CASE s.known /\ s.terminal
    BY <1>5, <2>1 DEF MarkExecutionStart
  <2>2. CASE s.known /\ ~s.terminal
    BY <1>5, <2>2 DEF MarkExecutionStart
  <2>3. CASE ~s.known
    BY <1>5, <2>3 DEF MarkExecutionStart
  <2> QED BY <2>1, <2>2, <2>3
<1>6. CASE t = RecordExecutionResult(s)
  <2>1. CASE s.known /\ s.terminal
    BY <1>6, <2>1 DEF RecordExecutionResult
  <2>2. CASE s.known /\ ~s.terminal
    BY <1>6, <2>2 DEF RecordExecutionResult
  <2>3. CASE ~s.known
    BY <1>6, <2>3 DEF RecordExecutionResult
  <2> QED BY <2>1, <2>2, <2>3
<1> QED BY <1>1, <1>2, <1>3, <1>4, <1>5, <1>6

\* A run that starts or ends, and a job that ends, keep a terminal state.
LEMMA TerminalKept ==
    ASSUME NEW s \in StatusEntry, s.terminal, NEW t,
           \/ \E x \in TerminalStates : t = MarkTerminal(s, x)
           \/ t = MarkExecutionStart(s) \/ t = RecordExecutionResult(s)
    PROVE  t.state = s.state
<1> USE DEF StatusEntry
<1>1. ASSUME NEW x \in TerminalStates, t = MarkTerminal(s, x) PROVE t.state = s.state
  BY <1>1 DEF MarkTerminal
<1>2. CASE t = MarkExecutionStart(s)
  BY <1>2 DEF MarkExecutionStart
<1>3. CASE t = RecordExecutionResult(s)
  BY <1>3 DEF RecordExecutionResult
<1> QED BY <1>1, <1>2, <1>3

\* A step writes to a status as one of the five writes says, and only Schedule and
\* Remove use the two that overwrite a terminal state.
LEMMA StatusWritten ==
    ASSUME TypeOK, [Next]_vars, NEW i \in Ids
    PROVE  \/ status'[i] = status[i]
           \/ /\ status'[i] = UpsertStatus(status[i], "scheduled")
              /\ op = "schedule"
              /\ \E e \in Entries : ScheduleUpsert(e) /\ pc[e] = "saving" /\ eid[e] = i
           \/ status'[i] = MarkRemoved(status[i]) /\ op = "remove" /\ cur = i
           \/ \E t \in TerminalStates : status'[i] = MarkTerminal(status[i], t)
           \/ /\ status'[i] = MarkExecutionStart(status[i])
              /\ \E e \in Entries, k \in RunIds : RunStart(e, k)
           \/ /\ status'[i] = RecordExecutionResult(status[i])
              /\ \E e \in Entries, k \in RunIds : RunRecord(e, k)
<1> DEFINE Goal ==
        \/ status'[i] = status[i]
        \/ /\ status'[i] = UpsertStatus(status[i], "scheduled")
           /\ op = "schedule"
           /\ \E e \in Entries : ScheduleUpsert(e) /\ pc[e] = "saving" /\ eid[e] = i
        \/ status'[i] = MarkRemoved(status[i]) /\ op = "remove" /\ cur = i
        \/ \E t \in TerminalStates : status'[i] = MarkTerminal(status[i], t)
        \/ /\ status'[i] = MarkExecutionStart(status[i])
           /\ \E e \in Entries, k \in RunIds : RunStart(e, k)
        \/ /\ status'[i] = RecordExecutionResult(status[i])
           /\ \E e \in Entries, k \in RunIds : RunRecord(e, k)
<1> USE DEF TypeOK
<1>1. ASSUME NEW e \in Entries, ScheduleUpsert(e) PROVE Goal
  BY <1>1 DEF ScheduleUpsert
<1>2. ASSUME RemoveMark PROVE Goal
  BY <1>2 DEF RemoveMark
<1>3. ASSUME StopMark PROVE Goal
  BY <1>3 DEF StopMark, TerminalStates
<1>4. ASSUME NEW id \in Ids, ReconcileMark(id) PROVE Goal
  BY <1>4 DEF ReconcileMark, TerminalStates
<1>5. ASSUME NEW e \in Entries, Finalize(e) PROVE Goal
  BY <1>5 DEF Finalize
<1>6. ASSUME NEW e \in Entries, NEW k \in RunIds, RunStart(e, k) PROVE Goal
  <2>1. status'[i] \in {status[i], MarkExecutionStart(status[i])}
    BY <1>6 DEF RunStart
  <2> QED BY <1>6, <2>1
<1>7. ASSUME NEW e \in Entries, NEW k \in RunIds, RunRecord(e, k) PROVE Goal
  <2>1. status'[i] \in {status[i], RecordExecutionResult(status[i])}
    BY <1>7 DEF RunRecord
  <2> QED BY <1>7, <2>1
<1>8. ASSUME status' = status PROVE Goal
  BY <1>8
<1> HIDE DEF Goal, TypeOK
<1>9. ASSUME NEW e \in Entries,
             \/ \E id \in Ids, generated \in BOOLEAN : Schedule(e, id, generated)
             \/ ScheduleUpsertFails(e) \/ ScheduleRollback(e)
             \/ WaitUntil(e) \/ LoopCancelled(e) \/ LoopEnds(e) \/ LoopRuns(e) \/ Enqueue(e)
             \/ SelectDone(e) \/ SelectTick(e) \/ ReadStopped(e) \/ ReadState(e) \/ Cleanup(e)
             \/ CallerCancel(e) \/ \E k \in RunIds : RunFinish(e, k)
      PROVE  Goal
  <2>1. status' = status
    BY <1>9 DEF Schedule, ScheduleUpsertFails, ScheduleRollback, WaitUntil, LoopCancelled,
       LoopEnds, LoopRuns, Enqueue, SelectDone, SelectTick, ReadStopped, ReadState, Cleanup,
       CallerCancel, RunFinish, Goto
  <2> QED BY <1>8, <2>1
<1>10. ASSUME \/ \E id \in Ids : Remove(id) \/ StopEntry(id)
              \/ Stop \/ StopUnlock \/ StopReturn \/ ReconcileDelete \/ ReconcileDone
              \/ OutageBegins \/ OutageEnds \/ Crash \/ UNCHANGED vars
       PROVE  Goal
  <2>1. status' = status
    BY <1>10 DEF Remove, StopEntry, Stop, StopUnlock, StopReturn, ReconcileDelete,
       ReconcileDone, OutageBegins, OutageEnds, Crash, vars
  <2> QED BY <1>8, <2>1
<1>11. Goal
  BY <1>1, <1>2, <1>3, <1>4, <1>5, <1>6, <1>7, <1>9, <1>10 DEF Next, ApiStep, JobStep
<1> QED BY <1>11 DEF Goal

\* So every step keeps what is known and what is over.
LEMMA StatusMonotone ==
    ASSUME TypeOK, StoredInv, [Next]_vars, NEW i \in Ids
    PROVE  /\ status[i].known => status'[i].known
           /\ status[i].terminal => status'[i].terminal
           /\ status'[i].state \in TerminalStates => status'[i].terminal
<1>1. status[i] \in StatusEntry /\ (status[i].state \in TerminalStates => status[i].terminal)
  BY DEF TypeOK, StoredInv
<1>2. /\ status[i].known => status'[i].known
      /\ status[i].terminal => status'[i].terminal
      /\ (status[i].state \in TerminalStates => status[i].terminal)
            => (status'[i].state \in TerminalStates => status'[i].terminal)
  BY <1>1, StatusWritten, WritesKeep
<1> QED BY <1>1, <1>2

--------------------------------------------------------------------------------
(***************************************************************************)
(* Whatever fails                                                          *)
(***************************************************************************)
\* A step of a job or a run before its end.
LEMMA RowsUntouched ==
    ASSUME RegisteredRows, UNCHANGED <<jobs, rows, eid, op, todo>>,
           \A e \in Entries : pc'[e] = "saving" => pc[e] = "saving"
    PROVE  RegisteredRows'
BY DEF RegisteredRows, Untouched

\* Rows are saved before and deleted after the registration, by their owner.
LEMMA RowsStep ==
    ASSUME TypeOK, RegistrationInv, RegisteredRows, [Next]_vars
    PROVE  RegisteredRows'
<1> USE DEF apiVars, entryVars, envVars
<1>1. ASSUME NEW e \in Entries, NEW id \in Ids, NEW generated \in BOOLEAN,
             Schedule(e, id, generated)
      PROVE  RegisteredRows'
  <2>1. CASE Accepted(id)
    BY <1>1, <2>1 DEF Schedule, MuFree, TypeOK, RegisteredRows, Untouched
  <2>2. CASE ~Accepted(id)
    BY <1>1, <2>2, RowsUntouched DEF Schedule
  <2> QED BY <2>1, <2>2
<1>2. ASSUME NEW e \in Entries, ScheduleUpsert(e) PROVE RegisteredRows'
  BY <1>2 DEF ScheduleUpsert, TypeOK, RegisteredRows, Untouched, RegistrationInv
<1>3. ASSUME NEW e \in Entries, ScheduleUpsertFails(e) PROVE RegisteredRows'
  BY <1>3 DEF ScheduleUpsertFails, RegisteredRows, Untouched
<1>4. ASSUME NEW e \in Entries, ScheduleRollback(e) PROVE RegisteredRows'
  <2>1. /\ op = "rollback" /\ op' = "none" /\ UNCHANGED <<jobs, eid, todo>>
        /\ pc' = [pc EXCEPT ![e] = "done"]
        /\ rows \ {eid[e]} \subseteq rows'
    BY <1>4 DEF ScheduleRollback
  <2>2. jobs[eid[e]] = NoEntry /\ \A f \in Entries : pc'[f] # "saving"
    BY <1>4, <2>1 DEF ScheduleRollback, RegistrationInv, TypeOK
  <2> QED BY <2>1, <2>2 DEF RegisteredRows, Untouched
<1>5. ASSUME NEW id \in Ids, Remove(id) PROVE RegisteredRows'
  <2>1. /\ op = "none" /\ op' = "remove" /\ UNCHANGED <<eid, pc, todo>>
        /\ jobs' = [jobs EXCEPT ![id] = NoEntry] /\ rows \ {id} \subseteq rows'
    BY <1>5 DEF Remove, MuFree
  <2>2. \A f \in Entries : pc[f] # "saving"
    BY <2>1 DEF RegistrationInv
  <2> QED BY <2>1, <2>2 DEF RegisteredRows, Untouched, TypeOK
<1>6. ASSUME Stop PROVE RegisteredRows'
  <2>1. /\ op = "none" /\ op' = "stop" /\ UNCHANGED <<jobs, rows, eid, pc>>
        /\ \A f \in Entries : pc[f] # "saving"
    BY <1>6 DEF Stop, MuFree, RegistrationInv
  <2> QED BY <2>1 DEF RegisteredRows, Untouched
<1>7. ASSUME NEW id \in Ids, StopEntry(id) PROVE RegisteredRows'
  <2>1. /\ op = "stop" /\ op' = "stopMark" /\ UNCHANGED <<jobs, eid, pc>>
        /\ todo' = todo \ {id} /\ rows \ {id} \subseteq rows'
        /\ \A f \in Entries : pc[f] # "saving"
    BY <1>7 DEF StopEntry, RegistrationInv
  <2> QED BY <2>1 DEF RegisteredRows, Untouched
<1>8. ASSUME StopMark \/ RemoveMark PROVE RegisteredRows'
  BY <1>8 DEF StopMark, RemoveMark, RegisteredRows, Untouched
<1>9. ASSUME StopUnlock PROVE RegisteredRows'
  BY <1>9 DEF StopUnlock, RegisteredRows
<1>10. ASSUME \/ \E id \in Ids : ReconcileMark(id)
              \/ ReconcileDelete \/ ReconcileDone
       PROVE  RegisteredRows'
  <2>1. /\ op \in {"reconcile", "reconcileDelete"} /\ UNCHANGED <<jobs, eid, pc>>
        /\ op' \notin {"stop", "stopMark"}
    BY <1>10 DEF ReconcileMark, ReconcileDelete, ReconcileDone
  <2>2. \A f \in Entries : pc[f] # "saving"
    BY <2>1 DEF RegistrationInv
  <2> QED BY <2>1, <2>2 DEF RegisteredRows
<1>11. ASSUME NEW e \in Entries, Cleanup(e) PROVE RegisteredRows'
  <2>1. /\ op = "none" /\ UNCHANGED <<op, eid, todo>> /\ pc' = [pc EXCEPT ![e] = "done"]
        /\ \A f \in Entries : pc[f] # "saving"
    BY <1>11 DEF Cleanup, MuFree, RegistrationInv
  <2>2. \A i \in Ids : jobs'[i] # NoEntry => jobs[i] # NoEntry /\ (i \in rows => i \in rows')
    BY <1>11 DEF Cleanup, RowsWithout, TypeOK
  <2> QED BY <2>1, <2>2 DEF RegisteredRows, Untouched, TypeOK
<1>12. ASSUME Crash PROVE RegisteredRows'
  BY <1>12 DEF Crash, RegisteredRows
<1>13. ASSUME NEW e \in Entries,
              \/ WaitUntil(e) \/ LoopCancelled(e) \/ LoopEnds(e) \/ LoopRuns(e)
              \/ Enqueue(e) \/ SelectDone(e) \/ SelectTick(e) \/ ReadStopped(e)
              \/ ReadState(e) \/ Finalize(e) \/ CallerCancel(e)
              \/ \E k \in RunIds : RunStart(e, k) \/ RunRecord(e, k) \/ RunFinish(e, k)
       PROVE  RegisteredRows'
  BY <1>13, RowsUntouched DEF TypeOK, WaitUntil, LoopCancelled, LoopEnds, LoopRuns,
     Enqueue, SelectDone, SelectTick, ReadStopped, ReadState, Finalize, Goto, CallerCancel,
     RunStart, RunRecord, RunFinish
<1>14. ASSUME StopReturn \/ OutageBegins \/ OutageEnds \/ UNCHANGED vars
       PROVE  RegisteredRows'
  BY <1>14, RowsUntouched DEF StopReturn, OutageBegins, OutageEnds, vars
<1> QED BY <1>1, <1>2, <1>3, <1>4, <1>5, <1>6, <1>7, <1>8, <1>9, <1>10, <1>11, <1>12,
           <1>13, <1>14 DEF Next, ApiStep, JobStep

\* Only ScheduleUpsert adds to s.jobs.
LEMMA NewlyRegistered ==
    ASSUME TypeOK, [Next]_vars, NEW i \in Ids, jobs'[i] # NoEntry
    PROVE  \/ jobs[i] = jobs'[i]
           \/ \E e \in Entries : ScheduleUpsert(e) /\ eid[e] = i
<1> USE DEF apiVars, entryVars, envVars, TypeOK
<1>1. ASSUME NEW e \in Entries, ScheduleUpsert(e), eid[e] # i PROVE jobs[i] = jobs'[i]
  BY <1>1 DEF ScheduleUpsert
<1>2. ASSUME \/ \E e \in Entries : Cleanup(e)
             \/ \E id \in Ids : Remove(id)
             \/ StopUnlock \/ Crash
      PROVE  jobs[i] = jobs'[i]
  BY <1>2 DEF Cleanup, Remove, StopUnlock, Crash
<1> HIDE DEF TypeOK
<1>3. ASSUME NEW e \in Entries,
             \/ \E id \in Ids, generated \in BOOLEAN : Schedule(e, id, generated)
             \/ ScheduleUpsertFails(e) \/ ScheduleRollback(e)
             \/ WaitUntil(e) \/ LoopCancelled(e) \/ LoopEnds(e) \/ LoopRuns(e) \/ Enqueue(e)
             \/ SelectDone(e) \/ SelectTick(e) \/ ReadStopped(e) \/ ReadState(e)
             \/ Finalize(e) \/ CallerCancel(e)
             \/ \E k \in RunIds : RunStart(e, k) \/ RunRecord(e, k) \/ RunFinish(e, k)
      PROVE  jobs[i] = jobs'[i]
  BY <1>3 DEF Schedule, ScheduleUpsertFails, ScheduleRollback, WaitUntil, LoopCancelled,
     LoopEnds, LoopRuns, Enqueue, SelectDone, SelectTick, ReadStopped, ReadState, Finalize,
     CallerCancel, RunStart, RunRecord, RunFinish, Goto
<1>4. ASSUME \/ \E id \in Ids : StopEntry(id) \/ ReconcileMark(id)
             \/ RemoveMark \/ Stop \/ StopMark \/ StopReturn \/ ReconcileDelete
             \/ ReconcileDone \/ OutageBegins \/ OutageEnds \/ UNCHANGED vars
      PROVE  jobs[i] = jobs'[i]
  BY <1>4 DEF StopEntry, ReconcileMark, RemoveMark, Stop, StopMark, StopReturn,
     ReconcileDelete, ReconcileDone, OutageBegins, OutageEnds, vars
<1> QED BY <1>1, <1>2, <1>3, <1>4 DEF Next, ApiStep, JobStep

\* A new scheduler over an empty storage.
LEMMA InitStored == Init => StoredInv
BY EntriesAssumption
   DEF Init, StoredInv, RegisteredRows, NoStatus, TerminalStates

\* Every step keeps StoredInv.
LEMMA StoredStep == IInv /\ StoredInv /\ [Next]_vars => StoredInv'
<1> SUFFICES ASSUME IInv, StoredInv, [Next]_vars PROVE StoredInv'
  OBVIOUS
<1>1. TypeOK /\ RegistrationInv /\ RegisteredRows
  BY DEF IInv, StoredInv
<1>2. RegisteredRows'
  BY <1>1, RowsStep
<1>3. ASSUME NEW i \in Ids, jobs'[i] # NoEntry PROVE status'[i].known
  <2>1. CASE jobs[i] = jobs'[i]
    BY <1>1, <1>3, <2>1, StatusMonotone DEF StoredInv
  <2>2. ASSUME NEW e \in Entries, ScheduleUpsert(e), eid[e] = i PROVE status'[i].known
    BY <1>1, <2>2 DEF ScheduleUpsert, UpsertStatus, TypeOK, StatusEntry
  <2> QED BY <1>1, <1>3, <2>1, <2>2, NewlyRegistered
<1>4. ASSUME NEW i \in Ids PROVE status'[i].state \in TerminalStates => status'[i].terminal
  BY <1>1, StatusMonotone
<1> QED BY <1>2, <1>3, <1>4 DEF StoredInv

\* StoredInv is an invariant of the scheduler.
LEMMA Stored == Spec => []StoredInv
BY InitStored, StoredStep, Inductive, PTL DEF Spec

\* JobCount, JobIDs and JobStatus never miss a registered job, however many ids and jobs
\* there are, whichever storage writes fail and whenever the process restarts.
THEOREM RegisteredJobsStored == Spec => []RegisteredIsStored
<1>1. StoredInv => RegisteredIsStored
  BY DEF StoredInv, RegisteredRows, RegisteredIsStored, Registered, Untouched, MuFree
<1> QED BY <1>1, Stored, PTL

\* A late run or finalizer never overwrites the final state of a job: only Remove and a
\* new Schedule of the id do, whatever fails.
THEOREM FinalStatesSettled == Spec => TerminalSettled
<1>1. IInv /\ StoredInv /\ [Next]_vars =>
        [\A id \in Ids :
            status[id].state \in TerminalStates /\ status'[id].state # status[id].state =>
               \/ op = "remove" /\ cur = id
               \/ op = "schedule" /\ \E e \in Entries : pc[e] = "saving" /\ eid[e] = id]_vars
  <2> SUFFICES ASSUME IInv, StoredInv, [Next]_vars, NEW id \in Ids,
                      status[id].state \in TerminalStates, status'[id].state # status[id].state
               PROVE  \/ op = "remove" /\ cur = id
                      \/ op = "schedule" /\ \E e \in Entries : pc[e] = "saving" /\ eid[e] = id
    OBVIOUS
  <2>1. TypeOK /\ status[id] \in StatusEntry /\ status[id].terminal
    BY DEF IInv, TypeOK, StoredInv
  <2> QED BY <2>1, StatusWritten, TerminalKept
<1> QED BY <1>1, Inductive, Stored, PTL DEF Spec, TerminalSettled

--------------------------------------------------------------------------------
(***************************************************************************)
(* With a storage that does not fail                                       *)
(***************************************************************************)
\* A step of a job or a run before its end.
LEMMA OwnersUntouched ==
    ASSUME RowsInv, UNCHANGED <<jobs, rows, eid, op, cur, todo, outage>>,
           \A e \in Entries : pc'[e] = "saving" <=> pc[e] = "saving"
    PROVE  RowsInv'
BY DEF RowsInv

\* Every row that is saved is deleted, by the call that took its job out of s.jobs.
LEMMA OwnersStep ==
    ASSUME Dependable, TypeOK, RegistrationInv, RowsInv, [Next]_vars
    PROVE  RowsInv'
<1> USE DEF apiVars, entryVars, envVars
<1>1. Working /\ \A e \in Entries : Writable(e)
  BY DEF Dependable, RowsInv, Working, Writable
<1>2. op \notin {"schedule", "rollback"} => \A e \in Entries : pc[e] # "saving"
  BY DEF RegistrationInv
<1>3. ASSUME NEW e \in Entries, NEW id \in Ids, NEW generated \in BOOLEAN,
             Schedule(e, id, generated)
      PROVE  RowsInv'
  <2>1. CASE Accepted(id)
    BY <1>2, <1>3, <2>1 DEF Schedule, MuFree, TypeOK, RowsInv
  <2>2. CASE ~Accepted(id)
    BY <1>3, <2>2, OwnersUntouched DEF Schedule
  <2> QED BY <2>1, <2>2
<1>4. ASSUME NEW e \in Entries, ScheduleUpsert(e) PROVE RowsInv'
  <2>1. /\ op = "schedule" /\ op' = "none" /\ UNCHANGED <<rows, eid, outage>>
        /\ jobs' = [jobs EXCEPT ![eid[e]] = e] /\ pc[e] = "saving"
    BY <1>4 DEF ScheduleUpsert
  <2>2. ASSUME NEW i \in rows PROVE jobs'[i] # NoEntry
    <3>1. i \in Ids
      BY DEF TypeOK
    <3>2. CASE i = eid[e]
      BY <2>1, <3>1, <3>2, EntriesAssumption DEF TypeOK
    <3>3. CASE i # eid[e]
      BY <2>1, <3>1, <3>3 DEF TypeOK, RowsInv, RegistrationInv
    <3> QED BY <3>2, <3>3
  <2> QED BY <2>1, <2>2 DEF RowsInv
<1>5. ASSUME NEW e \in Entries, ScheduleUpsertFails(e) PROVE RowsInv'
  BY <1>1, <1>5 DEF ScheduleUpsertFails
<1>6. ASSUME NEW e \in Entries, ScheduleRollback(e) PROVE RowsInv'
  <2>1. /\ op = "rollback" /\ op' = "none" /\ UNCHANGED <<jobs, eid, outage>>
        /\ pc[e] = "saving" /\ rows' = rows \ {eid[e]}
    BY <1>1, <1>6 DEF ScheduleRollback
  <2>2. \A i \in rows' : jobs[i] # NoEntry
    BY <2>1 DEF RowsInv, RegistrationInv
  <2> QED BY <2>1, <2>2 DEF RowsInv
<1>7. ASSUME NEW id \in Ids, Remove(id) PROVE RowsInv'
  <2>1. /\ op = "none" /\ op' = "remove" /\ UNCHANGED outage
        /\ jobs' = [jobs EXCEPT ![id] = NoEntry] /\ rows' = rows \ {id}
    BY <1>1, <1>7 DEF Remove, MuFree
  <2>2. \A i \in rows' : jobs'[i] # NoEntry
    BY <1>2, <2>1 DEF RowsInv, TypeOK
  <2> QED BY <2>1, <2>2 DEF RowsInv
<1>8. ASSUME Stop PROVE RowsInv'
  BY <1>2, <1>8 DEF Stop, MuFree, RowsInv, TypeOK
<1>9. ASSUME NEW id \in Ids, StopEntry(id) PROVE RowsInv'
  BY <1>1, <1>2, <1>9 DEF StopEntry, RowsInv
<1>10. ASSUME StopMark PROVE RowsInv'
  BY <1>2, <1>10 DEF StopMark, RowsInv
<1>11. ASSUME RemoveMark PROVE RowsInv'
  BY <1>2, <1>11 DEF RemoveMark, RowsInv
<1>12. ASSUME StopUnlock PROVE RowsInv'
  BY <1>12 DEF StopUnlock, RowsInv
<1>13. ASSUME NEW id \in Ids, ReconcileMark(id) PROVE RowsInv'
  <2>1. /\ op = "reconcile" /\ op' = "reconcileDelete" /\ UNCHANGED <<jobs, rows, outage>>
        /\ cur' = id /\ todo' = todo \ {id}
    BY <1>1, <1>13 DEF ReconcileMark
  <2> QED BY <1>2, <2>1 DEF RowsInv
<1>14. ASSUME ReconcileDelete PROVE RowsInv'
  BY <1>1, <1>2, <1>14 DEF ReconcileDelete, RowsInv
<1>15. ASSUME ReconcileDone PROVE RowsInv'
  BY <1>2, <1>15 DEF ReconcileDone, RowsInv
<1>16. ASSUME NEW e \in Entries, Cleanup(e) PROVE RowsInv'
  <2>1. op = "none" /\ op' = "none" /\ UNCHANGED outage
    BY <1>16 DEF Cleanup, MuFree
  <2>2. \A i \in rows : jobs[i] # NoEntry
    BY <1>2, <2>1 DEF RowsInv
  <2>3. \A i \in rows' : jobs'[i] # NoEntry
    BY <1>1, <1>16, <2>2 DEF Cleanup, RowsWithout, TypeOK
  <2> QED BY <2>1, <2>3 DEF RowsInv
<1>17. ASSUME Crash PROVE RowsInv'
  BY <1>1, <1>17 DEF Crash, RowsInv
<1>18. ASSUME NEW e \in Entries,
              \/ WaitUntil(e) \/ LoopCancelled(e) \/ LoopEnds(e) \/ LoopRuns(e)
              \/ Enqueue(e) \/ SelectDone(e) \/ SelectTick(e) \/ ReadStopped(e)
              \/ ReadState(e) \/ Finalize(e) \/ CallerCancel(e)
              \/ \E k \in RunIds : RunStart(e, k) \/ RunRecord(e, k) \/ RunFinish(e, k)
       PROVE  RowsInv'
  BY <1>18, OwnersUntouched DEF TypeOK, WaitUntil, LoopCancelled, LoopEnds, LoopRuns,
     Enqueue, SelectDone, SelectTick, ReadStopped, ReadState, Finalize, Goto, CallerCancel,
     RunStart, RunRecord, RunFinish
<1>19. ASSUME StopReturn \/ OutageEnds \/ UNCHANGED vars PROVE RowsInv'
  BY <1>19, OwnersUntouched DEF StopReturn, OutageEnds, vars, RowsInv
<1>20. ASSUME OutageBegins PROVE RowsInv'
  BY <1>20 DEF OutageBegins, Dependable, TypeOK
<1> QED BY <1>3, <1>4, <1>5, <1>6, <1>7, <1>8, <1>9, <1>10, <1>11, <1>12, <1>13, <1>14,
           <1>15, <1>16, <1>17, <1>18, <1>19, <1>20 DEF Next, ApiStep, JobStep

\* A storage that does not fail keeps no row without an owner.
LEMMA Owned == Spec => [](Dependable => RowsInv)
<1>1. Init => (Dependable => RowsInv)
  BY DEF Init, RowsInv
<1>2. IInv /\ (Dependable => RowsInv) /\ [Next]_vars => (Dependable => RowsInv)'
  BY OwnersStep DEF IInv, Dependable
<1> QED BY <1>1, <1>2, Inductive, PTL DEF Spec

\* "JobCount returns the number of jobs currently registered in the scheduler": it is
\* exact for any number of jobs and ids, also after restarts, as long as no storage call
\* fails.
THEOREM JobCountMatches == Spec => [](Dependable => JobCountExact)
<1>1. IInv /\ StoredInv /\ (Dependable => RowsInv) => (Dependable => JobCountExact)
  BY DEF IInv, StoredInv, RegisteredRows, Untouched, RowsInv, RegistrationInv, JobCountExact,
         MuFree, Registered, TypeOK
<1> QED BY <1>1, Inductive, Stored, Owned, PTL

--------------------------------------------------------------------------------
(***************************************************************************)
(* With the storage in memory                                              *)
(***************************************************************************)
\* Nothing but Schedule makes a status that is not over.
LEMMA NoneRevived ==
    ASSUME TypeOK, StoredInv, [Next]_vars, NEW i \in Ids,
           \A e \in Entries : ~(ScheduleUpsert(e) /\ eid[e] = i),
           status'[i].known, ~status'[i].terminal
    PROVE  status[i].known /\ ~status[i].terminal
<1>1. status[i] \in StatusEntry
  BY DEF TypeOK
<1>2. ~status[i].terminal
  BY StatusMonotone
<1>3. CASE status'[i] = MarkRemoved(status[i])
  BY <1>1, <1>2, <1>3 DEF MarkRemoved, StatusEntry
<1>4. ASSUME NEW t \in TerminalStates, status'[i] = MarkTerminal(status[i], t)
      PROVE  status[i].known
  BY <1>1, <1>2, <1>4 DEF MarkTerminal, StatusEntry
<1>5. CASE status'[i] = MarkExecutionStart(status[i])
  BY <1>1, <1>2, <1>5 DEF MarkExecutionStart, StatusEntry
<1>6. CASE status'[i] = RecordExecutionResult(status[i])
  BY <1>1, <1>2, <1>6 DEF RecordExecutionResult, StatusEntry
<1> QED BY <1>2, <1>3, <1>4, <1>5, <1>6, StatusWritten

\* Neither the storage nor the process fails.
LEMMA NoFailures ==
    ASSUME InMemory, TypeOK, RowsInv
    PROVE  Working /\ (\A e \in Entries : Writable(e)) /\ ~Crash
BY DEF InMemory, Dependable, RowsInv, Working, Writable, Crash, TypeOK

\* Where an entry that is new to a place comes from.
LEMMA EntryMoves ==
    ASSUME TypeOK, RunsInOrder, RegistrationInv, [Next]_vars, ~Crash, NEW e \in Entries
    PROVE  /\ pc'[e] \in Live => \/ pc[e] \in Live /\ eid'[e] = eid[e]
                                 \/ ScheduleUpsert(e)
           /\ \A k \in RunIds : run'[e][k] # "none" =>
                 /\ eid'[e] = eid[e]
                 /\ run[e][k] # "none" \/ (pc[e] \in Live /\ status' = status)
           /\ pc'[e] = "cleanup" => \/ pc[e] = "cleanup" /\ eid'[e] = eid[e]
                                    \/ Finalize(e)
<1> DEFINE Goal ==
        /\ pc'[e] \in Live => \/ pc[e] \in Live /\ eid'[e] = eid[e]
                              \/ ScheduleUpsert(e)
        /\ \A k \in RunIds : run'[e][k] # "none" =>
              /\ eid'[e] = eid[e]
              /\ run[e][k] # "none" \/ (pc[e] \in Live /\ status' = status)
        /\ pc'[e] = "cleanup" => \/ pc[e] = "cleanup" /\ eid'[e] = eid[e]
                                 \/ Finalize(e)
<1> USE DEF apiVars, entryVars, envVars
<1>1. ASSUME NEW f \in Entries, NEW id \in Ids, NEW generated \in BOOLEAN,
             Schedule(f, id, generated)
      PROVE  Goal
  <2>1. pc[f] = "new" /\ \A k \in RunIds : run'[f][k] = "none"
    BY <1>1 DEF Schedule, RunsInOrder, RunIds
  <2> QED BY <1>1, <2>1 DEF Schedule, TypeOK, Live
<1>2. ASSUME NEW f \in Entries, ScheduleUpsert(f) PROVE Goal
  BY <1>2 DEF ScheduleUpsert, TypeOK, Live
<1>3. ASSUME NEW f \in Entries, ScheduleUpsertFails(f) \/ ScheduleRollback(f) \/ Cleanup(f)
      PROVE  Goal
  BY <1>3 DEF ScheduleUpsertFails, ScheduleRollback, Cleanup, TypeOK, Live
<1>4. ASSUME NEW f \in Entries, Enqueue(f) PROVE Goal
  BY <1>4 DEF Enqueue, TypeOK, Live
<1>5. ASSUME NEW f \in Entries, Finalize(f) PROVE Goal
  <2>1. f # e => pc'[e] = pc[e]
    BY <1>5 DEF Finalize
  <2> QED BY <1>5, <2>1 DEF Finalize, Live
<1>6. ASSUME NEW f \in Entries,
             \/ WaitUntil(f) \/ LoopCancelled(f) \/ LoopEnds(f) \/ LoopRuns(f)
             \/ SelectDone(f) \/ SelectTick(f) \/ ReadStopped(f) \/ ReadState(f)
      PROVE  Goal
  BY <1>6 DEF WaitUntil, LoopCancelled, LoopEnds, LoopRuns, SelectDone, SelectTick,
     ReadStopped, ReadState, Goto, TypeOK, Live
<1>7. ASSUME NEW f \in Entries, NEW j \in RunIds,
             RunStart(f, j) \/ RunRecord(f, j) \/ RunFinish(f, j)
      PROVE  Goal
  <2>1. /\ UNCHANGED <<pc, eid>>
        /\ \A k \in RunIds : run'[e][k] # "none" => run[e][k] # "none"
    BY <1>7, SMTT(30) DEF RunStart, RunRecord, RunFinish, TypeOK
  <2> QED BY <2>1
<1>8. ASSUME UNCHANGED <<pc, eid, run>> PROVE Goal
  BY <1>8
<1>9. ASSUME \/ \E id \in Ids : Remove(id) \/ StopEntry(id) \/ ReconcileMark(id)
             \/ RemoveMark \/ Stop \/ StopMark \/ StopUnlock \/ StopReturn
             \/ ReconcileDelete \/ ReconcileDone \/ OutageBegins \/ OutageEnds
             \/ UNCHANGED vars \/ \E f \in Entries : CallerCancel(f)
      PROVE  Goal
  <2>1. UNCHANGED <<pc, eid, run>>
    BY <1>9 DEF Remove, StopEntry, ReconcileMark, RemoveMark, Stop, StopMark, StopUnlock,
       StopReturn, ReconcileDelete, ReconcileDone, OutageBegins, OutageEnds, vars, CallerCancel
  <2> QED BY <1>8, <2>1
<1> HIDE DEF Goal
<1>10. Goal
  BY <1>1, <1>2, <1>3, <1>4, <1>5, <1>6, <1>7, <1>9 DEF Next, ApiStep, JobStep
<1> QED BY <1>10 DEF Goal

\* The status of a job or a run stays known.
LEMMA KnownStep ==
    ASSUME IInv, StoredInv, RunsKnown, [Next]_vars, ~Crash
    PROVE  RunsKnown'
<1>1. TypeOK /\ RunsInOrder /\ RegistrationInv
  BY DEF IInv
<1>2. ASSUME NEW e \in Entries, pc'[e] \in Live PROVE status'[eid'[e]].known
  <2>1. CASE pc[e] \in Live /\ eid'[e] = eid[e]
    <3>1. eid[e] \in Ids /\ status[eid[e]].known
      BY <1>1, <2>1 DEF RegistrationInv, RunsKnown
    <3> QED BY <1>1, <2>1, <3>1, StatusMonotone
  <2>2. CASE ScheduleUpsert(e)
    <3>1. eid[e] \in Ids /\ eid' = eid
      BY <1>1, <2>2 DEF ScheduleUpsert, RegistrationInv
    <3> QED BY <1>1, <2>2, <3>1 DEF ScheduleUpsert, UpsertStatus, TypeOK, StatusEntry
  <2> QED BY <1>1, <1>2, <2>1, <2>2, EntryMoves
<1>3. ASSUME NEW e \in Entries, NEW k \in RunIds, run'[e][k] # "none"
      PROVE  eid'[e] \in Ids /\ status'[eid'[e]].known
  <2>1. /\ eid'[e] = eid[e]
        /\ run[e][k] # "none" \/ (pc[e] \in Live /\ status' = status)
    BY <1>1, <1>3, EntryMoves
  <2>2. eid[e] \in Ids /\ status[eid[e]].known
    BY <1>1, <2>1 DEF RegistrationInv, RunsKnown
  <2> QED BY <1>1, <2>1, <2>2, StatusMonotone
<1> QED BY <1>2, <1>3 DEF RunsKnown

\* How far Stop is, action by action.
LEMMA StopStep ==
    ASSUME InMemory, IInv, RowsInv, StopInv, [Next]_vars
    PROVE  StopInv'
<1> USE DEF apiVars, entryVars, envVars
<1>1. TypeOK /\ Working /\ (\A e \in Entries : Writable(e)) /\ ~Crash
  BY NoFailures DEF IInv
<1>2. ASSUME UNCHANGED <<op, stop>>, stop \in {"no", "locked"} PROVE StopInv'
  BY <1>2 DEF StopInv
<1>3. ASSUME NEW e \in Entries, NEW id \in Ids, NEW generated \in BOOLEAN,
             Schedule(e, id, generated)
      PROVE  StopInv'
  BY <1>3 DEF Schedule, MuFree, StopInv
<1>4. ASSUME NEW e \in Entries,
             ScheduleUpsert(e) \/ ScheduleUpsertFails(e) \/ ScheduleRollback(e)
      PROVE  StopInv'
  <2>1. /\ op \in {"schedule", "rollback"} /\ op' \in {"none", "rollback"} /\ stop' = stop
    BY <1>4 DEF ScheduleUpsert, ScheduleUpsertFails, ScheduleRollback
  <2> QED BY <2>1 DEF StopInv
<1>5. ASSUME NEW id \in Ids, Remove(id) PROVE StopInv'
  BY <1>5 DEF Remove, MuFree, StopInv
<1>6. ASSUME RemoveMark PROVE StopInv'
  BY <1>6 DEF RemoveMark, StopInv
<1>7. ASSUME Stop PROVE StopInv'
  BY <1>7 DEF Stop, StopInv
<1>8. ASSUME NEW id \in Ids, StopEntry(id) PROVE StopInv'
  BY <1>8 DEF StopEntry, StopInv
<1>9. ASSUME StopMark PROVE StopInv'
  BY <1>9 DEF StopMark, StopInv
<1>10. ASSUME StopUnlock PROVE StopInv'
  BY <1>10 DEF StopUnlock, StopInv
<1>11. ASSUME StopReturn PROVE StopInv'
  BY <1>11 DEF StopReturn, StopInv, WaitGroupZero
<1>12. ASSUME \/ \E id \in Ids : ReconcileMark(id)
              \/ ReconcileDelete \/ ReconcileDone
       PROVE  StopInv'
  BY <1>12 DEF ReconcileMark, ReconcileDelete, ReconcileDone, StopInv
<1>13. ASSUME NEW e \in Entries,
              \/ WaitUntil(e) \/ LoopCancelled(e) \/ LoopEnds(e) \/ LoopRuns(e)
              \/ Enqueue(e) \/ SelectDone(e) \/ SelectTick(e) \/ ReadStopped(e)
              \/ ReadState(e) \/ Finalize(e) \/ Cleanup(e)
              \/ \E k \in RunIds : RunStart(e, k) \/ RunRecord(e, k) \/ RunFinish(e, k)
       PROVE  StopInv'
  <2>1. /\ UNCHANGED <<op, stop>>
        /\ \A i \in Ids : jobs[i] = NoEntry => jobs'[i] = NoEntry
    BY <1>1, <1>13 DEF WaitUntil, LoopCancelled, LoopEnds, LoopRuns, Enqueue, SelectDone,
       SelectTick, ReadStopped, ReadState, Finalize, Cleanup, Goto, RunStart, RunRecord,
       RunFinish, TypeOK
  <2>2. pc[e] \in Live \/ \E k \in RunIds : run[e][k] \in Running
    BY <1>13 DEF WaitUntil, LoopCancelled, LoopEnds, LoopRuns, Enqueue, SelectDone,
       SelectTick, ReadStopped, ReadState, Finalize, Cleanup, RunStart, RunRecord,
       RunFinish, Live, Running
  <2> QED BY <2>1, <2>2 DEF StopInv, WaitGroupZero
<1>14. ASSUME \/ OutageBegins \/ OutageEnds \/ UNCHANGED vars
              \/ \E e \in Entries : CallerCancel(e)
       PROVE  StopInv'
  BY <1>14 DEF OutageBegins, OutageEnds, vars, CallerCancel, StopInv, WaitGroupZero
<1> QED BY <1>1, <1>3, <1>4, <1>5, <1>6, <1>7, <1>8, <1>9, <1>10, <1>11, <1>12, <1>13,
           <1>14 DEF Next, ApiStep, JobStep

\* A job is marked before it leaves s.jobs for good: finalizeJobState before cleanupJob,
\* MarkTerminal before Stop's new map, MarkRemoved before Remove gives the lock back.
LEMMA LiveStatusStep ==
    ASSUME InMemory, IInv, StoredInv, RowsInv, RunsKnown, LiveStatus, StopInv, [Next]_vars
    PROVE  LiveStatus'
<1> USE DEF apiVars, entryVars, envVars
<1>1. /\ TypeOK /\ RunsInOrder /\ RegistrationInv
      /\ Working /\ (\A e \in Entries : Writable(e)) /\ ~Crash
  BY NoFailures DEF IInv
<1>2. ASSUME NEW e \in Entries, pc'[e] = "cleanup" PROVE status'[eid'[e]].terminal
  <2>1. CASE pc[e] = "cleanup" /\ eid'[e] = eid[e]
    <3>1. eid[e] \in Ids /\ status[eid[e]].terminal
      BY <1>1, <2>1 DEF RegistrationInv, LiveStatus, Live
    <3> QED BY <1>1, <2>1, <3>1, StatusMonotone
  <2>2. CASE Finalize(e)
    <3>1. /\ eid[e] \in Ids /\ status[eid[e]].known /\ eid' = eid
          /\ status' = [status EXCEPT ![eid[e]] = MarkTerminal(@, tstate[e])]
      BY <1>1, <2>2 DEF Finalize, RegistrationInv, RunsKnown, Live
    <3> QED BY <1>1, <3>1 DEF MarkTerminal, TypeOK, StatusEntry
  <2> QED BY <1>1, <1>2, <2>1, <2>2, EntryMoves
<1>3. ASSUME NEW i \in Ids, status'[i].known, ~status'[i].terminal
      PROVE  \/ jobs'[i] # NoEntry /\ (Untouched(i)' \/ (op' = "stopMark" /\ cur' = i))
             \/ op' = "remove" /\ cur' = i
  <2> DEFINE Goal ==
          \/ jobs'[i] # NoEntry /\ (Untouched(i)' \/ (op' = "stopMark" /\ cur' = i))
          \/ op' = "remove" /\ cur' = i
  <2>1. CASE \E e \in Entries : ScheduleUpsert(e) /\ eid[e] = i
    BY <1>1, <2>1, EntriesAssumption DEF ScheduleUpsert, TypeOK, Untouched
  <2>2. CASE \A e \in Entries : ~(ScheduleUpsert(e) /\ eid[e] = i)
    <3>1. status[i].known /\ ~status[i].terminal
      BY <1>1, <1>3, <2>2, NoneRevived
    <3>2. \/ jobs[i] # NoEntry /\ (Untouched(i) \/ (op = "stopMark" /\ cur = i))
          \/ op = "remove" /\ cur = i
      BY <3>1 DEF LiveStatus
    <3>3. ASSUME NEW e \in Entries, NEW id \in Ids, NEW generated \in BOOLEAN,
                 Schedule(e, id, generated)
          PROVE  Goal
      <4>1. op = "none" /\ op' \in {"none", "schedule"} /\ UNCHANGED jobs
        BY <3>3 DEF Schedule, MuFree
      <4> QED BY <3>2, <4>1 DEF Untouched
    <3>4. ASSUME NEW e \in Entries,
                 ScheduleUpsert(e) \/ ScheduleUpsertFails(e) \/ ScheduleRollback(e)
          PROVE  Goal
      <4>1. /\ op \in {"schedule", "rollback"} /\ op' \in {"none", "rollback"}
            /\ jobs'[i] = jobs[i]
        BY <1>1, <2>2, <3>4 DEF ScheduleUpsert, ScheduleUpsertFails, ScheduleRollback, TypeOK
      <4> QED BY <3>2, <4>1 DEF Untouched
    <3>5. ASSUME NEW id \in Ids, Remove(id) PROVE Goal
      BY <1>1, <3>2, <3>5 DEF Remove, MuFree, Untouched, TypeOK
    <3>6. ASSUME RemoveMark PROVE Goal
      <4>1. i # cur
        BY <1>1, <1>3, <3>1, <3>6 DEF RemoveMark, MarkRemoved, TypeOK, StatusEntry
      <4> QED BY <3>2, <3>6, <4>1 DEF RemoveMark, Untouched
    <3>7. ASSUME Stop PROVE Goal
      BY <3>2, <3>7 DEF Stop, MuFree, Untouched
    <3>8. ASSUME NEW id \in Ids, StopEntry(id) PROVE Goal
      BY <3>2, <3>8 DEF StopEntry, Untouched
    <3>9. ASSUME StopMark PROVE Goal
      <4>1. i # cur
        BY <1>1, <1>3, <3>1, <3>9 DEF StopMark, MarkTerminal, TypeOK, StatusEntry
      <4> QED BY <3>2, <3>9, <4>1 DEF StopMark, Untouched
    <3>10. ASSUME StopUnlock PROVE Goal
      BY <3>2, <3>10 DEF StopUnlock, Untouched
    <3>11. ASSUME \/ \E id \in Ids : ReconcileMark(id)
                  \/ ReconcileDelete \/ ReconcileDone
           PROVE  Goal
      BY <3>11 DEF ReconcileMark, ReconcileDelete, ReconcileDone, StopInv
    <3>12. ASSUME NEW e \in Entries, Cleanup(e) PROVE Goal
      <4>1. jobs[i] # NoEntry /\ op' = "none"
        BY <3>2, <3>12 DEF Cleanup, MuFree
      <4>2. Owns(e) => eid[e] # i
        BY <3>1, <3>12 DEF Cleanup, LiveStatus
      <4>3. jobs'[i] = jobs[i]
        BY <1>1, <3>12, <4>2 DEF Cleanup, TypeOK
      <4> QED BY <4>1, <4>3 DEF Untouched
    <3>13. ASSUME UNCHANGED <<jobs, op, todo, cur>> PROVE Goal
      BY <3>2, <3>13 DEF Untouched
    <3>14. ASSUME NEW e \in Entries,
                  \/ WaitUntil(e) \/ LoopCancelled(e) \/ LoopEnds(e) \/ LoopRuns(e)
                  \/ Enqueue(e) \/ SelectDone(e) \/ SelectTick(e) \/ ReadStopped(e)
                  \/ ReadState(e) \/ Finalize(e) \/ CallerCancel(e)
                  \/ \E k \in RunIds : RunStart(e, k) \/ RunRecord(e, k) \/ RunFinish(e, k)
           PROVE  Goal
      <4>1. UNCHANGED <<jobs, op, todo, cur>>
        BY <3>14 DEF WaitUntil, LoopCancelled, LoopEnds, LoopRuns, Enqueue, SelectDone,
           SelectTick, ReadStopped, ReadState, Finalize, CallerCancel, Goto, RunStart,
           RunRecord, RunFinish
      <4> QED BY <3>13, <4>1
    <3>15. ASSUME StopReturn \/ OutageBegins \/ OutageEnds \/ UNCHANGED vars PROVE Goal
      <4>1. UNCHANGED <<jobs, op, todo, cur>>
        BY <3>15 DEF StopReturn, OutageBegins, OutageEnds, vars
      <4> QED BY <3>13, <4>1
    <3> HIDE DEF Goal
    <3>16. Goal
      BY <1>1, <3>3, <3>4, <3>5, <3>6, <3>7, <3>8, <3>9, <3>10, <3>11, <3>12, <3>14, <3>15
         DEF Next, ApiStep, JobStep
    <3> QED BY <3>16 DEF Goal
  <2> QED BY <2>1, <2>2
<1> QED BY <1>2, <1>3 DEF LiveStatus

\* The runs of an id, counted.
LEMMA RunsOfFinite ==
    ASSUME NEW id, NEW phases
    PROVE  /\ IsFiniteSet(RunsOf(id, phases)) /\ Cardinality(RunsOf(id, phases)) \in Nat
           /\ Cardinality(RunsOf(id, phases)) = 0 <=> RunsOf(id, phases) = {}
<1>1. RunsOf(id, phases) \in SUBSET (Entries \X RunIds)
  BY DEF RunsOf
<1>2. IsFiniteSet(RunsOf(id, phases))
  BY <1>1, RunsFinite, FS_Subset
<1> QED BY <1>2, FS_CardinalityType, FS_EmptySet

\* The phases that count as active, and as recorded.
Executing == {"exec"}
Recorded == {"callback", "finished"}

SameRuns(id) == /\ RunsOf(id, Executing)' = RunsOf(id, Executing)
                /\ RunsOf(id, Recorded)' = RunsOf(id, Recorded)

\* Runs that neither move nor change hands.
LEMMA RunsStay ==
    ASSUME NEW id,
           \A e \in Entries, k \in RunIds :
              /\ eid'[e] = id /\ run'[e][k] \in Executing
                    <=> eid[e] = id /\ run[e][k] \in Executing
              /\ eid'[e] = id /\ run'[e][k] \in Recorded
                    <=> eid[e] = id /\ run[e][k] \in Recorded
    PROVE  SameRuns(id)
BY DEF SameRuns, RunsOf, Executing, Recorded

\* Only the start and the result of a run move it between the counts.
LEMMA RunsMoved ==
    ASSUME IInv, [Next]_vars, ~Crash, NEW id \in Ids
    PROVE  \/ \E e \in Entries, k \in RunIds : RunStart(e, k) \/ RunRecord(e, k)
           \/ SameRuns(id)
<1> USE DEF apiVars, entryVars, envVars
<1>1. TypeOK /\ RunsInOrder
  BY DEF IInv
<1>2. ASSUME NEW e \in Entries, NEW i \in Ids, NEW generated \in BOOLEAN,
             Schedule(e, i, generated)
      PROVE  SameRuns(id)
  <2>1. \A k \in RunIds : run[e][k] = "none"
    BY <1>1, <1>2 DEF Schedule, RunsInOrder, RunIds
  <2>2. run' = run /\ \A f \in Entries \ {e} : eid'[f] = eid[f]
    BY <1>1, <1>2 DEF Schedule, TypeOK
  <2> QED BY <2>1, <2>2, RunsStay DEF Executing, Recorded
<1>3. ASSUME NEW e \in Entries, Enqueue(e) PROVE SameRuns(id)
  <2>1. /\ eid' = eid /\ runs[e] \in RunIds /\ run[e][runs[e]] = "none"
        /\ run' = [run EXCEPT ![e][runs[e]] = "spawned"]
    BY <1>1, <1>3 DEF Enqueue, RunsInOrder
  <2>2. \A f \in Entries, k \in RunIds :
           run'[f][k] = run[f][k] \/ (run[f][k] = "none" /\ run'[f][k] = "spawned")
    BY <1>1, <2>1 DEF TypeOK
  <2> QED BY <2>1, <2>2, RunsStay DEF Executing, Recorded
<1>4. ASSUME NEW e \in Entries, NEW k \in RunIds, RunFinish(e, k) PROVE SameRuns(id)
  <2>1. /\ eid' = eid
        /\ \A f \in Entries, j \in RunIds :
              run'[f][j] = run[f][j] \/ (run[f][j] = "callback" /\ run'[f][j] = "finished")
    BY <1>1, <1>4 DEF RunFinish, TypeOK
  <2> QED BY <2>1, RunsStay DEF Executing, Recorded
<1>5. ASSUME UNCHANGED <<eid, run>> PROVE SameRuns(id)
  BY <1>5, RunsStay
<1>6. ASSUME NEW e \in Entries,
             \/ ScheduleUpsert(e) \/ ScheduleUpsertFails(e) \/ ScheduleRollback(e)
             \/ WaitUntil(e) \/ LoopCancelled(e) \/ LoopEnds(e) \/ LoopRuns(e)
             \/ SelectDone(e) \/ SelectTick(e) \/ ReadStopped(e) \/ ReadState(e)
             \/ Finalize(e) \/ Cleanup(e) \/ CallerCancel(e)
      PROVE  SameRuns(id)
  <2>1. UNCHANGED <<eid, run>>
    BY <1>6 DEF ScheduleUpsert, ScheduleUpsertFails, ScheduleRollback, WaitUntil,
       LoopCancelled, LoopEnds, LoopRuns, SelectDone, SelectTick, ReadStopped, ReadState,
       Finalize, Cleanup, CallerCancel, Goto
  <2> QED BY <1>5, <2>1
<1>7. ASSUME \/ \E i \in Ids : Remove(i) \/ StopEntry(i) \/ ReconcileMark(i)
             \/ RemoveMark \/ Stop \/ StopMark \/ StopUnlock \/ StopReturn
             \/ ReconcileDelete \/ ReconcileDone \/ OutageBegins \/ OutageEnds
             \/ UNCHANGED vars
      PROVE  SameRuns(id)
  <2>1. UNCHANGED <<eid, run>>
    BY <1>7 DEF Remove, StopEntry, ReconcileMark, RemoveMark, Stop, StopMark, StopUnlock,
       StopReturn, ReconcileDelete, ReconcileDone, OutageBegins, OutageEnds, vars
  <2> QED BY <1>5, <2>1
<1> QED BY <1>2, <1>3, <1>4, <1>6, <1>7 DEF Next, ApiStep, JobStep

\* The counters of an entry that no run writes to, and the state of one that is over.
LEMMA CountsKept ==
    ASSUME NEW s \in StatusEntry, NEW t,
           \/ t = s \/ t = UpsertStatus(s, "scheduled") \/ t = MarkRemoved(s)
           \/ \E x \in TerminalStates : t = MarkTerminal(s, x)
    PROVE  t.active = s.active /\ t.seq = s.seq
<1> USE DEF StatusEntry
<1>1. CASE t = UpsertStatus(s, "scheduled")
  BY <1>1 DEF UpsertStatus
<1>2. CASE t = MarkRemoved(s)
  BY <1>2 DEF MarkRemoved
<1>3. ASSUME NEW x \in TerminalStates, t = MarkTerminal(s, x)
      PROVE  t.active = s.active /\ t.seq = s.seq
  BY <1>3 DEF MarkTerminal
<1> QED BY <1>1, <1>2, <1>3

\* The accounting, for one id.
Accounted(id) ==
    /\ status[id].active = Cardinality(RunsOf(id, Executing))
    /\ status[id].seq = Cardinality(RunsOf(id, Recorded))
    /\ status[id].known /\ ~status[id].terminal =>
          status[id].state = (IF RunsOf(id, Executing) # {} THEN "running" ELSE "scheduled")

\* RunAccounting and RunningIffActive, id by id.
LEMMA AccountedAll == RunAccounting /\ RunningIffActive <=> \A id \in Ids : Accounted(id)
BY DEF RunAccounting, RunningIffActive, Accounted, Executing, Recorded

\* A run starts.
LEMMA StartAccounted ==
    ASSUME TypeOK, RunsKnown, NEW id \in Ids, Accounted(id), NEW e \in Entries,
           NEW k \in RunIds, Writable(e), RunStart(e, k)
    PROVE  Accounted(id)'
<1>1. /\ run[e][k] = "spawned" /\ eid' = eid /\ eid[e] \in Ids /\ status[eid[e]].known
      /\ status' = [status EXCEPT ![eid[e]] = MarkExecutionStart(@)]
      /\ run' = [run EXCEPT ![e][k] = "exec"]
  BY DEF RunStart, entryVars, RunsKnown
<1>2. /\ run'[e][k] = "exec"
      /\ \A f \in Entries, j \in RunIds : <<f, j>> # <<e, k>> => run'[f][j] = run[f][j]
  BY <1>1 DEF TypeOK
<1>3. CASE id # eid[e]
  <2>1. status'[id] = status[id]
    BY <1>1, <1>3 DEF TypeOK
  <2>2. SameRuns(id)
    BY <1>1, <1>2, <1>3, RunsStay
  <2> QED BY <2>1, <2>2 DEF Accounted, SameRuns
<1>4. CASE id = eid[e]
  <2> DEFINE s == status[id]
             t == status'[id]
             A == RunsOf(id, Executing)
  <2>1. A' = A \cup {<<e, k>>} /\ <<e, k>> \notin A
    BY <1>1, <1>2, <1>4 DEF RunsOf, Executing
  <2>2. RunsOf(id, Recorded)' = RunsOf(id, Recorded)
    BY <1>1, <1>2, <1>4 DEF RunsOf, Recorded
  <2>3. t = MarkExecutionStart(s) /\ s \in StatusEntry /\ s.known
    BY <1>1, <1>4 DEF TypeOK
  <2>4. /\ t.active = s.active + 1 /\ t.seq = s.seq
        /\ ~t.terminal => t.state = "running"
    <3> HIDE DEF s, t
    <3>1. CASE s.terminal
      BY <2>3, <3>1 DEF MarkExecutionStart, StatusEntry
    <3>2. CASE ~s.terminal
      BY <2>3, <3>2 DEF MarkExecutionStart, StatusEntry
    <3> QED BY <3>1, <3>2
  <2>5. Cardinality(A') = Cardinality(A) + 1 /\ A' # {}
    BY <2>1, RunsOfFinite, FS_AddElement
  <2> QED BY <2>2, <2>4, <2>5 DEF Accounted
<1> QED BY <1>3, <1>4

\* A run ends: it was counted as active.
LEMMA RecordAccounted ==
    ASSUME TypeOK, RunsKnown, NEW id \in Ids, Accounted(id), NEW e \in Entries,
           NEW k \in RunIds, Writable(e), RunRecord(e, k)
    PROVE  Accounted(id)'
<1>1. /\ run[e][k] = "exec" /\ eid' = eid /\ eid[e] \in Ids /\ status[eid[e]].known
      /\ status' = [status EXCEPT ![eid[e]] = RecordExecutionResult(@)]
      /\ run' = [run EXCEPT ![e][k] = "callback"]
  BY DEF RunRecord, entryVars, RunsKnown
<1>2. /\ run'[e][k] = "callback"
      /\ \A f \in Entries, j \in RunIds : <<f, j>> # <<e, k>> => run'[f][j] = run[f][j]
  BY <1>1 DEF TypeOK
<1>3. CASE id # eid[e]
  <2>1. status'[id] = status[id]
    BY <1>1, <1>3 DEF TypeOK
  <2>2. SameRuns(id)
    BY <1>1, <1>2, <1>3, RunsStay
  <2> QED BY <2>1, <2>2 DEF Accounted, SameRuns
<1>4. CASE id = eid[e]
  <2> DEFINE s == status[id]
             t == status'[id]
             A == RunsOf(id, Executing)
             R == RunsOf(id, Recorded)
  <2>1. A' = A \ {<<e, k>>} /\ <<e, k>> \in A
    BY <1>1, <1>2, <1>4 DEF RunsOf, Executing
  <2>2. R' = R \cup {<<e, k>>} /\ <<e, k>> \notin R
    BY <1>1, <1>2, <1>4 DEF RunsOf, Recorded
  <2>3. /\ Cardinality(A') = Cardinality(A) - 1 /\ Cardinality(R') = Cardinality(R) + 1
        /\ Cardinality(A) \in Nat \ {0}
    <3>1. /\ IsFiniteSet(A) /\ IsFiniteSet(R) /\ Cardinality(A) \in Nat
          /\ Cardinality(A) = 0 <=> A = {}
      BY RunsOfFinite
    <3> HIDE DEF A, R
    <3>2. Cardinality(A \ {<<e, k>>}) = Cardinality(A) - 1
      BY <2>1, <3>1, FS_RemoveElement
    <3>3. Cardinality(R \cup {<<e, k>>}) = Cardinality(R) + 1
      BY <2>2, <3>1, FS_AddElement
    <3> QED BY <2>1, <2>2, <3>1, <3>2, <3>3
  <2>4. A' # {} <=> Cardinality(A) - 1 > 0
    <3>1. IsFiniteSet(A')
      BY <2>1, RunsOfFinite, FS_Subset
    <3>2. Cardinality(A') = 0 <=> A' = {}
      BY <3>1, FS_EmptySet
    <3> QED BY <2>3, <3>2
  <2>5. t = RecordExecutionResult(s) /\ s \in StatusEntry /\ s.known
    BY <1>1, <1>4 DEF TypeOK
  <2>6. s.active = Cardinality(A) /\ s.seq = Cardinality(R)
    BY DEF Accounted
  <2>7. Ended(s.active) = Cardinality(A) - 1
    BY <2>3, <2>6 DEF Ended
  <2> HIDE DEF s, t
  <2>8. /\ t.active = Ended(s.active) /\ t.seq = s.seq + 1
        /\ ~t.terminal => t.state = (IF Ended(s.active) > 0 THEN "running" ELSE "scheduled")
    <3>1. CASE s.terminal
      BY <2>5, <3>1 DEF RecordExecutionResult, StatusEntry
    <3>2. CASE ~s.terminal
      BY <2>5, <3>2 DEF RecordExecutionResult, StatusEntry
    <3> QED BY <3>1, <3>2
  <2> HIDE DEF A, R
  <2>9. /\ t.active = Cardinality(A') /\ t.seq = Cardinality(R')
        /\ ~t.terminal => t.state = (IF A' # {} THEN "running" ELSE "scheduled")
    BY <2>3, <2>4, <2>6, <2>7, <2>8
  <2> QED BY <2>9 DEF Accounted, s, t, A, R
<1> QED BY <1>3, <1>4

\* Anything else leaves the counters alone, and a status that is not over as it is: when
\* Schedule resets a state, no run of the id is being executed, or the job is over.
LEMMA RestAccounted ==
    ASSUME IInv, StoredInv, RunsKnown, LiveStatus, [Next]_vars, NEW id \in Ids,
           Accounted(id), SameRuns(id),
           \/ status'[id] = status[id]
           \/ /\ status'[id] = UpsertStatus(status[id], "scheduled")
              /\ op = "schedule" /\ \E e \in Entries : pc[e] = "saving" /\ eid[e] = id
           \/ status'[id] = MarkRemoved(status[id])
           \/ \E t \in TerminalStates : status'[id] = MarkTerminal(status[id], t)
    PROVE  Accounted(id)'
<1> DEFINE s == status[id]
           t == status'[id]
<1>1. s \in StatusEntry
  BY DEF IInv, TypeOK
<1>2. t.active = s.active /\ t.seq = s.seq
  BY <1>1, CountsKept
<1>3. ASSUME t.known, ~t.terminal
      PROVE  t.state = (IF RunsOf(id, Executing) # {} THEN "running" ELSE "scheduled")
  <2>1. CASE t = s
    BY <1>3, <2>1 DEF Accounted
  <2>2. CASE /\ t = UpsertStatus(s, "scheduled")
             /\ op = "schedule" /\ \E e \in Entries : pc[e] = "saving" /\ eid[e] = id
    <3>1. t.state = "scheduled" /\ ~s.terminal
      BY <1>1, <1>3, <2>2 DEF UpsertStatus, StatusEntry
    <3>2. jobs[id] = NoEntry
      BY <2>2 DEF IInv, RegistrationInv
    <3>3. ~s.known
      BY <2>2, <3>1, <3>2 DEF LiveStatus
    <3>4. RunsOf(id, Executing) = {}
      BY <3>3 DEF RunsKnown, RunsOf, Executing
    <3> QED BY <3>1, <3>4
  <2>3. CASE t = MarkRemoved(s)
    BY <1>1, <1>3, <2>3 DEF MarkRemoved, StatusEntry, Accounted
  <2>4. ASSUME NEW x \in TerminalStates, t = MarkTerminal(s, x) PROVE t = s
    BY <1>1, <1>3, <2>4 DEF MarkTerminal, StatusEntry
  <2> QED BY <2>1, <2>2, <2>3, <2>4
<1> QED BY <1>2, <1>3 DEF Accounted, SameRuns

\* The accounting is kept by every step.
LEMMA AccountingStep ==
    ASSUME InMemory, IInv, StoredInv, RowsInv, MemoryInv, [Next]_vars
    PROVE  RunAccounting' /\ RunningIffActive'
<1>1. /\ TypeOK /\ RunsKnown /\ LiveStatus /\ \A id \in Ids : Accounted(id)
      /\ (\A e \in Entries : Writable(e)) /\ ~Crash
  BY AccountedAll, NoFailures DEF IInv, MemoryInv
<1>2. ASSUME NEW id \in Ids PROVE Accounted(id)'
  <2>1. ASSUME NEW e \in Entries, NEW k \in RunIds, RunStart(e, k) PROVE Accounted(id)'
    BY <1>1, <2>1, StartAccounted
  <2>2. ASSUME NEW e \in Entries, NEW k \in RunIds, RunRecord(e, k) PROVE Accounted(id)'
    BY <1>1, <2>2, RecordAccounted
  <2>3. CASE \A e \in Entries, k \in RunIds : ~RunStart(e, k) /\ ~RunRecord(e, k)
    <3>1. SameRuns(id)
      BY <1>1, <2>3, RunsMoved
    <3>2. \/ status'[id] = status[id]
          \/ /\ status'[id] = UpsertStatus(status[id], "scheduled")
             /\ op = "schedule" /\ \E e \in Entries : pc[e] = "saving" /\ eid[e] = id
          \/ status'[id] = MarkRemoved(status[id])
          \/ \E t \in TerminalStates : status'[id] = MarkTerminal(status[id], t)
      BY <1>1, <2>3, StatusWritten
    <3> QED BY <1>1, <3>1, <3>2, RestAccounted
  <2> QED BY <2>1, <2>2, <2>3
<1> QED BY <1>2, AccountedAll DEF RunAccounting, RunningIffActive, Accounted, Executing, Recorded

\* The storage in memory keeps MemoryInv.
LEMMA Memory == Spec => [](InMemory => MemoryInv)
<1>1. Init => (InMemory => MemoryInv)
  <2> SUFFICES ASSUME Init PROVE MemoryInv
    OBVIOUS
  <2> USE DEF Init
  <2>1. RunsKnown /\ LiveStatus /\ StopInv
    BY DEF RunsKnown, LiveStatus, StopInv, NoStatus, Live
  <2>2. \A id \in Ids, P \in {Executing, Recorded} : RunsOf(id, P) = {}
    BY DEF RunsOf, Executing, Recorded
  <2>3. \A id \in Ids : Accounted(id)
    BY <2>2, FS_EmptySet DEF Accounted, NoStatus
  <2> QED BY <2>1, <2>3, AccountedAll DEF MemoryInv
<1>2. /\ IInv /\ StoredInv /\ (Dependable => RowsInv) /\ (InMemory => MemoryInv)
      /\ [Next]_vars
      => (InMemory => MemoryInv)'
  <2> SUFFICES ASSUME IInv, StoredInv, Dependable => RowsInv, InMemory, MemoryInv, [Next]_vars
               PROVE  MemoryInv'
    BY DEF InMemory, Dependable
  <2>1. RowsInv /\ RunsKnown /\ LiveStatus /\ StopInv
    BY DEF InMemory, MemoryInv
  <2>2. ~Crash
    BY <2>1, NoFailures DEF IInv
  <2> QED BY <2>1, <2>2, KnownStep, LiveStatusStep, StopStep, AccountingStep DEF MemoryInv
<1> QED BY <1>1, <1>2, Inductive, Stored, Owned, PTL DEF Spec

\* ActiveRuns and Runs of JobStatus are exact, also when several jobs have used the id
\* and their runs overlap, for any number of jobs, runs and slots.
THEOREM RunsCounted == Spec => [](InMemory => RunAccounting)
<1>1. (InMemory => MemoryInv) => (InMemory => RunAccounting)
  BY DEF MemoryInv
<1> QED BY <1>1, Memory, PTL

\* A job that is not over is reported as running exactly while it runs.
THEOREM RunningExact == Spec => [](InMemory => RunningIffActive)
<1>1. (InMemory => MemoryInv) => (InMemory => RunningIffActive)
  BY DEF MemoryInv
<1> QED BY <1>1, Memory, PTL

\* Stop returns to a quiet scheduler: no run under way or counted as active, no job
\* registered or stored, and every status final.
THEOREM StopLeavesNothing == Spec => [](InMemory => StopQuiescence)
<1>1. IInv /\ (Dependable => RowsInv) /\ (InMemory => MemoryInv)
        => (InMemory => StopQuiescence)
  <2> SUFFICES ASSUME IInv, Dependable => RowsInv, InMemory, MemoryInv, stop = "returned"
               PROVE  /\ \A e \in Entries, k \in RunIds : run[e][k] \notin Running
                      /\ Registered = {} /\ rows = {}
                      /\ \A id \in Ids : /\ status[id].active = 0
                                         /\ status[id].known => status[id].terminal
    BY DEF StopQuiescence
  <2>1. /\ op = "none" /\ (\A i \in Ids : jobs[i] = NoEntry)
        /\ \A e \in Entries, k \in RunIds : run[e][k] \notin Running
    BY DEF MemoryInv, StopInv, WaitGroupZero
  <2>2. Registered = {}
    BY <2>1 DEF Registered
  <2>3. rows = {}
    BY <2>1 DEF IInv, RegistrationInv, TypeOK, RowsInv, InMemory
  <2>4. ASSUME NEW id \in Ids PROVE status[id].active = 0
    <3>1. RunsOf(id, {"exec"}) = {}
      BY <2>1 DEF RunsOf, Running
    <3> QED BY <3>1, FS_EmptySet DEF MemoryInv, RunAccounting
  <2>5. ASSUME NEW id \in Ids, status[id].known PROVE status[id].terminal
    BY <2>1, <2>5 DEF MemoryInv, LiveStatus
  <2> QED BY <2>1, <2>2, <2>3, <2>4, <2>5
<1> QED BY <1>1, Inductive, Owned, Memory, PTL
================================================================================
