---------------------------- MODULE SchedulerProofs ----------------------------
(***************************************************************************)
(* Theorems about Scheduler, for every set of ids and jobs, every limit    *)
(* and every number of storage failures and restarts: type correctness,    *)
(* the semaphore, and the registration of live jobs.                       *)
(***************************************************************************)
EXTENDS Scheduler, TLAPS, FiniteSetTheorems, SequenceTheorems

(***************************************************************************)
(* The inductive invariant                                                 *)
(***************************************************************************)
\* The runs of an entry are started in order, and no more than RunBound.
RunsInOrder ==
    \A e \in Entries :
       /\ pc[e] \in {"new", "saving"} => runs[e] = 0
       /\ pc[e] \in {"start", "loop"} => runs[e] < RunBound \/ LastRunDone(e)
       /\ pc[e] = "enqueue" => runs[e] \in RunIds /\ run[e][runs[e]] = "none"
       /\ \A k \in RunIds : k > runs[e] => run[e][k] = "none"

\* A slot is taken exactly while a run is under way.
SlotsCounted == sem = IF Limit = 0 THEN 0 ELSE Cardinality(RunsUnderWay)
SlotsBounded == Limit > 0 => sem <= Limit

\* Who is in s.jobs, and what the call that holds s.mu has done so far.
RegistrationInv ==
    /\ \A e \in Entries : pc[e] \in Live \cup {"saving"} => eid[e] \in Ids
    /\ LiveIsRegistered
    /\ \A e \in Entries : pc[e] = "saving" =>
          op \in {"schedule", "rollback"} /\ jobs[eid[e]] = NoEntry
    /\ \A e, f \in Entries : pc[e] = "saving" /\ pc[f] = "saving" => e = f
    /\ op \in {"stop", "stopMark"} =>
          \A i \in Ids \ todo : jobs[i] # NoEntry => cancelled[jobs[i]]

IInv == TypeOK /\ RunsInOrder /\ SlotsCounted /\ SlotsBounded /\ RegistrationInv

--------------------------------------------------------------------------------
(***************************************************************************)
(* The storage writes keep a status entry well formed                      *)
(***************************************************************************)
\* A trimmed history is a history.
LEMMA TrimType == ASSUME NEW h \in Seq(Nat) PROVE Trim(h) \in Seq(Nat)
<1>1. CASE Len(h) > HistoryLimit
  <2>1. Len(h) \in Nat /\ Len(h) - HistoryLimit + 1 \in 1 .. Len(h)
    BY <1>1, HistoryLimitAssumption
  <2>2. SubSeq(h, Len(h) - HistoryLimit + 1, Len(h)) \in Seq(Nat)
    BY <2>1, SubSeqProperties
  <2> QED BY <1>1, <2>2 DEF Trim
<1>2. CASE ~(Len(h) > HistoryLimit)
  BY <1>2 DEF Trim
<1> QED BY <1>1, <1>2

\* Every write of JobsStorage turns a status entry into a status entry.
LEMMA StatusTypes ==
    ASSUME NEW s \in StatusEntry
    PROVE  /\ UpsertStatus(s, "scheduled") \in StatusEntry
           /\ MarkRemoved(s) \in StatusEntry
           /\ \A t \in TerminalStates : MarkTerminal(s, t) \in StatusEntry
           /\ MarkExecutionStart(s) \in StatusEntry
           /\ RecordExecutionResult(s) \in StatusEntry
<1> USE DEF StatusEntry, JobStates, LiveStates, TerminalStates
<1>1. UpsertStatus(s, "scheduled") \in StatusEntry
  BY DEF UpsertStatus
<1>2. MarkRemoved(s) \in StatusEntry
  BY DEF MarkRemoved
<1>3. \A t \in TerminalStates : MarkTerminal(s, t) \in StatusEntry
  BY DEF MarkTerminal
<1>4. MarkExecutionStart(s) \in StatusEntry
  <2>1. s.active + 1 \in Nat
    OBVIOUS
  <2>2. CASE s.known /\ s.terminal
    BY <2>1, <2>2 DEF MarkExecutionStart
  <2>3. CASE s.known /\ ~s.terminal
    BY <2>1, <2>3 DEF MarkExecutionStart
  <2>4. CASE ~s.known
    BY <2>4 DEF MarkExecutionStart
  <2> QED BY <2>2, <2>3, <2>4
<1>5. RecordExecutionResult(s) \in StatusEntry
  <2>1. s.seq + 1 \in Nat /\ s.history \in Seq(Nat) /\ Ended(s.active) \in Nat
    BY DEF Ended
  <2>2. Trim(Append(s.history, s.seq + 1)) \in Seq(Nat)
    BY <2>1, TrimType, AppendProperties
  <2> QED BY <2>1, <2>2 DEF RecordExecutionResult
<1> QED BY <1>1, <1>2, <1>3, <1>4, <1>5

\* A new scheduler over an empty storage.
LEMMA InitIInv == Init => IInv
<1> SUFFICES ASSUME Init PROVE IInv
  OBVIOUS
<1> USE DEF Init
<1>1. TypeOK
  <2>1. NoStatus \in StatusEntry
    BY DEF NoStatus, StatusEntry, JobStates, LiveStates, TerminalStates
  <2>2. status \in [Ids -> StatusEntry]
    BY <2>1
  <2>3. /\ cancelled \in [Entries -> BOOLEAN] /\ outage \in BOOLEAN
    BY Zenon
  <2>4. runs \in [Entries -> 0 .. RunBound]
    BY BoundsAssumption
  <2> QED BY <2>2, <2>3, <2>4 DEF TypeOK, Ops, Phases, Live, TerminalStates, Running
<1>2. RunsInOrder
  BY DEF RunsInOrder
<1>3. SlotsCounted /\ SlotsBounded
  <2>1. RunsUnderWay = {}
    BY DEF RunsUnderWay, Running
  <2> QED BY <2>1, FS_EmptySet, BoundsAssumption DEF SlotsCounted, SlotsBounded
<1>4. RegistrationInv
  BY EntriesAssumption DEF RegistrationInv, LiveIsRegistered, Live
<1> QED BY <1>1, <1>2, <1>3, <1>4 DEF IInv

--------------------------------------------------------------------------------
(***************************************************************************)
(* Type correctness                                                        *)
(***************************************************************************)
\* Each write to the storage under an id, done or refused.
LEMMA StatusStep ==
    ASSUME TypeOK, NEW id \in Ids \cup {0}, NEW s,
           status[id] \in StatusEntry => s \in StatusEntry
    PROVE  [status EXCEPT ![id] = s] \in [Ids -> StatusEntry]
BY DEF TypeOK

\* The steps of the API calls.
ApiCall ==
    \/ \E e \in Entries, id \in Ids, generated \in BOOLEAN : Schedule(e, id, generated)
    \/ \E id \in Ids : Remove(id)
    \/ Stop \/ StopReturn \/ ApiStep

\* Schedule, Remove, Stop and the reconciliation keep the types.
LEMMA ApiTypes ==
    ASSUME TypeOK, ApiCall
    PROVE  TypeOK'
<1> USE DEF TypeOK, Ops, Phases, Live, entryVars, envVars
<1>1. ASSUME NEW e \in Entries, NEW id \in Ids, NEW generated \in BOOLEAN,
             Schedule(e, id, generated) PROVE TypeOK'
  <2>1. counter' \in Nat
    BY <1>1 DEF Schedule
  <2>2. CASE Accepted(id)
    BY <1>1, <2>1, <2>2, ZenonT(30) DEF Schedule
  <2>3. CASE ~Accepted(id)
    BY <1>1, <2>1, <2>3 DEF Schedule
  <2> QED BY <2>2, <2>3
<1>2. ASSUME NEW e \in Entries, ScheduleUpsert(e) PROVE TypeOK'
  <2>1. status' \in [Ids -> StatusEntry]
    BY <1>2, StatusStep, StatusTypes DEF ScheduleUpsert
  <2> QED BY <1>2, <2>1 DEF ScheduleUpsert
<1>3. ASSUME NEW e \in Entries, ScheduleUpsertFails(e) PROVE TypeOK'
  BY <1>3 DEF ScheduleUpsertFails
<1>4. ASSUME NEW e \in Entries, ScheduleRollback(e) PROVE TypeOK'
  BY <1>4 DEF ScheduleRollback
<1>5. ASSUME NEW id \in Ids, Remove(id) PROVE TypeOK'
  BY <1>5 DEF Remove
<1>6. ASSUME RemoveMark PROVE TypeOK'
  <2>1. status' \in [Ids -> StatusEntry]
    BY <1>6, StatusStep, StatusTypes DEF RemoveMark
  <2> QED BY <1>6, <2>1 DEF RemoveMark
<1>7. ASSUME Stop PROVE TypeOK'
  BY <1>7 DEF Stop
<1>8. ASSUME NEW id \in Ids, StopEntry(id) PROVE TypeOK'
  BY <1>8 DEF StopEntry
<1>9. ASSUME StopMark PROVE TypeOK'
  <2>1. status' \in [Ids -> StatusEntry]
    BY <1>9, StatusStep, StatusTypes DEF StopMark, TerminalStates
  <2> QED BY <1>9, <2>1 DEF StopMark
<1>10. ASSUME StopUnlock PROVE TypeOK'
  BY <1>10 DEF StopUnlock
<1>11. ASSUME StopReturn PROVE TypeOK'
  BY <1>11 DEF StopReturn
<1>12. ASSUME NEW id \in Ids, ReconcileMark(id) PROVE TypeOK'
  <2>1. status' \in [Ids -> StatusEntry]
    BY <1>12, StatusStep, StatusTypes DEF ReconcileMark, TerminalStates
  <2> QED BY <1>12, <2>1 DEF ReconcileMark
<1>13. ASSUME ReconcileDelete PROVE TypeOK'
  BY <1>13 DEF ReconcileDelete
<1>14. ASSUME ReconcileDone PROVE TypeOK'
  BY <1>14 DEF ReconcileDone
<1> QED BY <1>1, <1>2, <1>3, <1>4, <1>5, <1>6, <1>7, <1>8, <1>9, <1>10, <1>11, <1>12,
           <1>13, <1>14 DEF ApiCall, ApiStep

\* The goroutine of a job keeps the types: RunsInOrder bounds its runs.
LEMMA JobTypes ==
    ASSUME TypeOK, RunsInOrder, NEW e \in Entries, JobStep(e)
    PROVE  TypeOK'
<1> USE DEF TypeOK, Phases, Live, apiVars, envVars, Running
<1>1. ASSUME WaitUntil(e) PROVE TypeOK'
  BY <1>1 DEF WaitUntil, Goto
<1>2. ASSUME LoopCancelled(e) PROVE TypeOK'
  BY <1>2 DEF LoopCancelled, Goto
<1>3. ASSUME LoopEnds(e) PROVE TypeOK'
  BY <1>3 DEF LoopEnds, Goto
<1>4. ASSUME LoopRuns(e) PROVE TypeOK'
  <2>1. runs[e] < RunBound
    BY <1>4 DEF LoopRuns, RunsInOrder
  <2>2. runs' \in [Entries -> 0 .. RunBound]
    BY <1>4, <2>1, BoundsAssumption DEF LoopRuns
  <2> QED BY <1>4, <2>2 DEF LoopRuns
<1>5. ASSUME Enqueue(e) PROVE TypeOK'
  <2>1. sem' \in Nat
    BY <1>5 DEF Enqueue
  <2>2. run' \in [Entries -> [RunIds -> {"none", "finished"} \cup Running]]
    BY <1>5 DEF Enqueue
  <2> QED BY <1>5, <2>1, <2>2 DEF Enqueue
<1>6. ASSUME SelectDone(e) PROVE TypeOK'
  BY <1>6 DEF SelectDone, Goto
<1>7. ASSUME SelectTick(e) PROVE TypeOK'
  BY <1>7 DEF SelectTick, Goto
<1>8. ASSUME ReadStopped(e) PROVE TypeOK'
  BY <1>8 DEF ReadStopped, TerminalStates
<1>9. ASSUME ReadState(e) PROVE TypeOK'
  BY <1>9 DEF ReadState, TerminalStates
<1>10. ASSUME Finalize(e) PROVE TypeOK'
  <2>1. status' \in [Ids -> StatusEntry]
    BY <1>10, StatusStep, StatusTypes DEF Finalize
  <2> QED BY <1>10, <2>1 DEF Finalize
<1>11. ASSUME Cleanup(e) PROVE TypeOK'
  BY <1>11 DEF Cleanup, RowsWithout
<1> QED BY <1>1, <1>2, <1>3, <1>4, <1>5, <1>6, <1>7, <1>8, <1>9, <1>10, <1>11 DEF JobStep

\* There are finitely many runs ...
LEMMA RunsFinite == IsFiniteSet(Entries \X RunIds)
<1>1. IsFiniteSet(RunIds)
  BY BoundsAssumption, FS_Interval DEF RunIds
<1> QED BY <1>1, EntriesAssumption, FS_Product

\* ... so those under way can be counted.
LEMMA UnderWayFinite == IsFiniteSet(RunsUnderWay) /\ Cardinality(RunsUnderWay) \in Nat
<1>1. RunsUnderWay \in SUBSET (Entries \X RunIds)
  BY DEF RunsUnderWay
<1>2. IsFiniteSet(RunsUnderWay)
  BY <1>1, RunsFinite, FS_Subset
<1> QED BY <1>2, FS_CardinalityType

\* A run under way holds a slot: giving it back leaves a natural number.
LEMMA SlotHeld ==
    ASSUME SlotsCounted, NEW e \in Entries, NEW k \in RunIds, run[e][k] \in Running
    PROVE  Limit > 0 => sem \in Nat \ {0}
<1>1. <<e, k>> \in RunsUnderWay
  BY DEF RunsUnderWay
<1>2. Cardinality(RunsUnderWay) # 0
  BY <1>1, UnderWayFinite, FS_EmptySet
<1> QED BY <1>2, UnderWayFinite, BoundsAssumption DEF SlotsCounted

\* The goroutine of a run keeps the types: it gives back a slot it holds.
LEMMA RunTypes ==
    ASSUME TypeOK, SlotsCounted, NEW e \in Entries, NEW k \in RunIds,
           RunStart(e, k) \/ RunRecord(e, k) \/ RunFinish(e, k)
    PROVE  TypeOK'
<1> USE DEF TypeOK, Running, apiVars, entryVars, envVars
<1>1. ASSUME RunStart(e, k) PROVE TypeOK'
  <2>1. status' \in [Ids -> StatusEntry]
    BY <1>1, StatusStep, StatusTypes DEF RunStart
  <2> QED BY <1>1, <2>1 DEF RunStart
<1>2. ASSUME RunRecord(e, k) PROVE TypeOK'
  <2>1. status' \in [Ids -> StatusEntry]
    BY <1>2, StatusStep, StatusTypes DEF RunRecord
  <2> QED BY <1>2, <2>1 DEF RunRecord
<1>3. ASSUME RunFinish(e, k) PROVE TypeOK'
  <2>1. sem' \in Nat
    BY <1>3, SlotHeld, BoundsAssumption DEF RunFinish
  <2> QED BY <1>3, <2>1 DEF RunFinish
<1> QED BY <1>1, <1>2, <1>3

\* Type correctness, action by action.
LEMMA TypeOKStep == TypeOK /\ RunsInOrder /\ SlotsCounted /\ [Next]_vars => TypeOK'
<1> SUFFICES ASSUME TypeOK, RunsInOrder, SlotsCounted, [Next]_vars PROVE TypeOK'
  OBVIOUS
<1>1. ASSUME NEW e \in Entries, CallerCancel(e) PROVE TypeOK'
  BY <1>1 DEF CallerCancel, TypeOK, apiVars, envVars
<1>2. ASSUME OutageBegins PROVE TypeOK'
  <2>1. outage' \in BOOLEAN /\ outages' \in Nat
    BY <1>2 DEF OutageBegins, TypeOK
  <2> QED BY <1>2, <2>1 DEF OutageBegins, TypeOK, apiVars, entryVars
<1>5. ASSUME OutageEnds PROVE TypeOK'
  <2>1. outage' \in BOOLEAN
    BY <1>5 DEF OutageEnds
  <2> QED BY <1>5, <2>1 DEF OutageEnds, TypeOK, apiVars, entryVars
<1>3. ASSUME Crash PROVE TypeOK'
  <2>1. cancelled' \in [Entries -> BOOLEAN]
    BY <1>3 DEF Crash
  <2>2. /\ pc' \in [Entries -> Phases]
        /\ run' \in [Entries -> [RunIds -> {"none", "finished"} \cup Running]]
    BY <1>3 DEF Crash, TypeOK, Phases
  <2> QED BY <1>3, <2>1, <2>2 DEF Crash, TypeOK, Ops
<1>4. ASSUME UNCHANGED vars PROVE TypeOK'
  BY <1>4 DEF vars, TypeOK, apiVars, entryVars, envVars
<1> QED BY <1>1, <1>2, <1>3, <1>4, <1>5, ApiTypes, JobTypes, RunTypes DEF Next, ApiCall

--------------------------------------------------------------------------------
(***************************************************************************)
(* The runs of a job                                                       *)
(***************************************************************************)
\* A step that touches neither runs nor counters, and moves no entry to a place
\* RunsInOrder speaks of, keeps it.
LEMMA OrderUntouched ==
    ASSUME RunsInOrder, UNCHANGED <<plan, runs, run>>,
           \A e \in Entries : \/ pc'[e] = pc[e]
                              \/ pc'[e] \notin {"new", "saving", "start", "loop", "enqueue"}
                              \/ pc[e] \in {"new", "saving"} /\ pc'[e] # "enqueue"
                              \/ pc[e] = "start" /\ pc'[e] = "loop"
    PROVE  RunsInOrder'
BY BoundsAssumption DEF RunsInOrder, LastRunDone

\* Only LoopRuns counts a run and only Enqueue starts the run it counted.
LEMMA OrderStep == TypeOK /\ RunsInOrder /\ [Next]_vars => RunsInOrder'
<1> SUFFICES ASSUME TypeOK, RunsInOrder, [Next]_vars PROVE RunsInOrder'
  OBVIOUS
<1> USE DEF TypeOK, apiVars, entryVars, envVars
<1>1. ASSUME ApiCall PROVE RunsInOrder'
  BY <1>1, OrderUntouched DEF ApiCall, ApiStep, Schedule, ScheduleUpsert,
     ScheduleUpsertFails, ScheduleRollback, Remove, RemoveMark, Stop, StopEntry,
     StopMark, StopUnlock, StopReturn, ReconcileMark, ReconcileDelete, ReconcileDone
<1>2. ASSUME NEW e \in Entries, LoopRuns(e) PROVE RunsInOrder'
  <2>1. runs[e] \in 0 .. RunBound /\ runs[e] < RunBound /\ runs[e] + 1 \in RunIds
    BY <1>2, BoundsAssumption DEF LoopRuns, RunsInOrder, RunIds
  <2>2. run[e][runs[e] + 1] = "none"
    BY <2>1 DEF RunsInOrder
  <2>3. /\ runs' = [runs EXCEPT ![e] = runs[e] + 1] /\ pc' = [pc EXCEPT ![e] = "enqueue"]
        /\ UNCHANGED <<plan, run>>
    BY <1>2 DEF LoopRuns
  <2>4. \A k \in RunIds : k > runs[e] + 1 => k > runs[e]
    BY <2>1 DEF RunIds
  <2> QED BY <2>1, <2>2, <2>3, <2>4 DEF RunsInOrder, LastRunDone
<1>3. ASSUME NEW e \in Entries, Enqueue(e) PROVE RunsInOrder'
  <2>1. runs[e] \in RunIds
    BY <1>3 DEF Enqueue, RunsInOrder
  <2>2. \A f \in Entries, k \in RunIds :
           k > runs[f] => run'[f][k] = run[f][k]
    BY <1>3, <2>1 DEF Enqueue, RunIds
  <2>3. \A f \in Entries : f # e => run'[f] = run[f] /\ pc'[f] = pc[f]
    BY <1>3 DEF Enqueue
  <2>4. pc'[e] = "select" /\ UNCHANGED <<plan, runs>>
    BY <1>3 DEF Enqueue
  <2> QED BY <2>2, <2>3, <2>4 DEF RunsInOrder, LastRunDone
<1>4. ASSUME NEW e \in Entries, SelectTick(e) PROVE RunsInOrder'
  BY <1>4 DEF SelectTick, Goto, RunsInOrder, LastRunDone
<1>5. ASSUME NEW e \in Entries,
             \/ WaitUntil(e) \/ LoopCancelled(e) \/ LoopEnds(e) \/ SelectDone(e)
             \/ ReadStopped(e) \/ ReadState(e) \/ Finalize(e) \/ Cleanup(e)
             \/ CallerCancel(e)
      PROVE  RunsInOrder'
  BY <1>5, OrderUntouched DEF WaitUntil, LoopCancelled, LoopEnds, SelectDone,
     ReadStopped, ReadState, Finalize, Cleanup, CallerCancel, Goto
<1>6. ASSUME NEW e \in Entries, NEW k \in RunIds,
             RunStart(e, k) \/ RunRecord(e, k) \/ RunFinish(e, k)
      PROVE  RunsInOrder'
  <2>1. /\ run[e][k] \in Running
        /\ \A f \in Entries, j \in RunIds : run[f][j] = "none" => run'[f][j] = "none"
        /\ UNCHANGED <<plan, pc, runs>>
    BY <1>6 DEF RunStart, RunRecord, RunFinish, Running
  <2> QED BY <2>1 DEF RunsInOrder, LastRunDone
<1>7. ASSUME Crash PROVE RunsInOrder'
  <2>1. \A f \in Entries, j \in RunIds : run[f][j] = "none" => run'[f][j] = "none"
    BY <1>7 DEF Crash, Running
  <2>2. /\ \A f \in Entries : pc'[f] \in {pc[f], "done"} /\ pc'[f] \in {"new", "done"}
        /\ UNCHANGED <<plan, runs>>
    BY <1>7 DEF Crash
  <2> QED BY <2>1, <2>2 DEF RunsInOrder, LastRunDone
<1>8. ASSUME OutageBegins \/ OutageEnds \/ UNCHANGED vars PROVE RunsInOrder'
  BY <1>8, OrderUntouched DEF OutageBegins, OutageEnds, vars
<1> QED BY <1>1, <1>2, <1>3, <1>4, <1>5, <1>6, <1>7, <1>8 DEF Next, ApiCall, JobStep

--------------------------------------------------------------------------------
(***************************************************************************)
(* The semaphore                                                           *)
(***************************************************************************)
\* A step that leaves the runs under way and the tokens alone.
LEMMA SlotsUntouched ==
    ASSUME SlotsCounted, SlotsBounded, UNCHANGED <<sem, run>>
    PROVE  SlotsCounted' /\ SlotsBounded'
BY DEF SlotsCounted, SlotsBounded, RunsUnderWay

\* Enqueue takes a slot for a run that was not under way, RunFinish gives it back.
LEMMA SlotsStep ==
    TypeOK /\ RunsInOrder /\ SlotsCounted /\ SlotsBounded /\ [Next]_vars
      => SlotsCounted' /\ SlotsBounded'
<1> SUFFICES ASSUME TypeOK, RunsInOrder, SlotsCounted, SlotsBounded, [Next]_vars
             PROVE  SlotsCounted' /\ SlotsBounded'
  OBVIOUS
<1>1. ASSUME NEW e \in Entries, Enqueue(e) PROVE SlotsCounted' /\ SlotsBounded'
  <2> DEFINE k == runs[e]
  <2>1. k \in RunIds /\ run[e][k] = "none" /\ <<e, k>> \in Entries \X RunIds
    BY <1>1 DEF Enqueue, RunsInOrder
  <2>2. /\ run'[e][k] = "spawned"
        /\ \A f \in Entries, j \in RunIds : <<f, j>> # <<e, k>> => run'[f][j] = run[f][j]
    BY <1>1, <2>1 DEF Enqueue, TypeOK
  <2>3. RunsUnderWay' = RunsUnderWay \cup {<<e, k>>} /\ <<e, k>> \notin RunsUnderWay
    <3> HIDE DEF k
    <3> QED BY <2>1, <2>2 DEF RunsUnderWay, Running
  <2>4. Cardinality(RunsUnderWay') = Cardinality(RunsUnderWay) + 1
    <3> HIDE DEF k
    <3> QED BY <2>3, UnderWayFinite, FS_AddElement
  <2>5. CASE Limit = 0
    BY <1>1, <2>5 DEF Enqueue, SlotsCounted, SlotsBounded
  <2>6. CASE Limit # 0
    BY <1>1, <2>4, <2>6, BoundsAssumption, UnderWayFinite
       DEF Enqueue, SlotFree, SlotsCounted, SlotsBounded
  <2> QED BY <2>5, <2>6
<1>2. ASSUME NEW e \in Entries, NEW k \in RunIds, RunFinish(e, k)
      PROVE  SlotsCounted' /\ SlotsBounded'
  <2>1. /\ run[e][k] = "callback" /\ run'[e][k] = "finished"
        /\ \A f \in Entries, j \in RunIds : <<f, j>> # <<e, k>> => run'[f][j] = run[f][j]
    BY <1>2 DEF RunFinish, TypeOK
  <2>2. RunsUnderWay' = RunsUnderWay \ {<<e, k>>} /\ <<e, k>> \in RunsUnderWay
    BY <2>1 DEF RunsUnderWay, Running
  <2>3. Cardinality(RunsUnderWay') = Cardinality(RunsUnderWay) - 1
    BY <2>2, UnderWayFinite, FS_RemoveElement
  <2> QED BY <1>2, <2>3, BoundsAssumption, UnderWayFinite
          DEF RunFinish, SlotsCounted, SlotsBounded
<1>3. ASSUME NEW e \in Entries, NEW k \in RunIds, RunStart(e, k) \/ RunRecord(e, k)
      PROVE  SlotsCounted' /\ SlotsBounded'
  <2>1. \A f \in Entries, j \in RunIds : run'[f][j] \in Running <=> run[f][j] \in Running
    BY <1>3 DEF RunStart, RunRecord, TypeOK, Running
  <2>2. RunsUnderWay' = RunsUnderWay
    BY <2>1 DEF RunsUnderWay
  <2>3. sem' = sem
    BY <1>3 DEF RunStart, RunRecord
  <2> QED BY <2>2, <2>3 DEF SlotsCounted, SlotsBounded
<1>4. ASSUME Crash PROVE SlotsCounted' /\ SlotsBounded'
  <2>1. \A f \in Entries, j \in RunIds : run'[f][j] \notin Running
    BY <1>4 DEF Crash, Running
  <2>2. RunsUnderWay' = {}
    BY <2>1 DEF RunsUnderWay
  <2>3. sem' = 0
    BY <1>4 DEF Crash
  <2> QED BY <2>2, <2>3, FS_EmptySet, BoundsAssumption DEF SlotsCounted, SlotsBounded
<1>5. ASSUME ApiCall PROVE SlotsCounted' /\ SlotsBounded'
  BY <1>5, SlotsUntouched DEF ApiCall, ApiStep, Schedule, ScheduleUpsert,
     ScheduleUpsertFails, ScheduleRollback, Remove, RemoveMark, Stop, StopEntry,
     StopMark, StopUnlock, StopReturn, ReconcileMark, ReconcileDelete, ReconcileDone
<1>6. ASSUME NEW e \in Entries,
             \/ WaitUntil(e) \/ LoopCancelled(e) \/ LoopEnds(e) \/ LoopRuns(e)
             \/ SelectDone(e) \/ SelectTick(e) \/ ReadStopped(e) \/ ReadState(e)
             \/ Finalize(e) \/ Cleanup(e) \/ CallerCancel(e)
      PROVE  SlotsCounted' /\ SlotsBounded'
  BY <1>6, SlotsUntouched DEF WaitUntil, LoopCancelled, LoopEnds, LoopRuns, SelectDone,
     SelectTick, ReadStopped, ReadState, Finalize, Cleanup, CallerCancel, Goto
<1>7. ASSUME OutageBegins \/ OutageEnds \/ UNCHANGED vars
      PROVE  SlotsCounted' /\ SlotsBounded'
  BY <1>7, SlotsUntouched DEF OutageBegins, OutageEnds, vars
<1> QED BY <1>1, <1>2, <1>3, <1>4, <1>5, <1>6, <1>7 DEF Next, ApiCall, JobStep

--------------------------------------------------------------------------------
(***************************************************************************)
(* The registration of jobs                                                *)
(***************************************************************************)
\* A step of a job or a run that neither starts nor ends a job.
LEMMA RegistrationUntouched ==
    ASSUME TypeOK, RegistrationInv, UNCHANGED <<jobs, eid, cancelled, op, todo>>,
           \A e \in Entries : pc'[e] = pc[e] \/ (pc[e] \in Live /\ pc'[e] \in Live)
    PROVE  RegistrationInv'
<1>1. \A e \in Entries : /\ pc'[e] \in Live <=> pc[e] \in Live
                         /\ pc'[e] = "saving" <=> pc[e] = "saving"
  BY DEF Live
<1>2. \A i \in Ids : jobs[i] # NoEntry => pc'[jobs[i]] \in Live
  BY <1>1 DEF TypeOK, RegistrationInv, LiveIsRegistered
<1> QED BY <1>1, <1>2 DEF RegistrationInv, LiveIsRegistered

\* Every action that registers, cancels or ends a job keeps s.jobs and the jobs that
\* run in step with each other.
LEMMA RegistrationStep == TypeOK /\ RegistrationInv /\ [Next]_vars => RegistrationInv'
<1> SUFFICES ASSUME TypeOK, RegistrationInv, [Next]_vars PROVE RegistrationInv'
  OBVIOUS
<1> USE DEF apiVars, entryVars, envVars
<1>1. ASSUME NEW e \in Entries, NEW id \in Ids, NEW generated \in BOOLEAN,
             Schedule(e, id, generated)
      PROVE  RegistrationInv'
  <2>1. /\ op = "none" /\ pc[e] = "new" /\ \A f \in Entries : pc[f] # "saving"
    BY <1>1 DEF Schedule, MuFree, RegistrationInv
  <2>2. CASE Accepted(id)
    <3>1. /\ jobs[id] = NoEntry /\ UNCHANGED <<jobs, cancelled>> /\ op' = "schedule"
          /\ pc' = [pc EXCEPT ![e] = "saving"] /\ eid' = [eid EXCEPT ![e] = id]
      BY <1>1, <2>2 DEF Schedule, Accepted
    <3>2. \A i \in Ids : jobs[i] # NoEntry => jobs[i] \in Entries \ {e}
      BY <2>1 DEF TypeOK, RegistrationInv, LiveIsRegistered, Live
    <3>3. LiveIsRegistered'
      BY <3>1, <3>2 DEF TypeOK, RegistrationInv, LiveIsRegistered, Live
    <3> QED BY <2>1, <3>1, <3>3 DEF TypeOK, RegistrationInv, Live
  <2>3. CASE ~Accepted(id)
    BY <1>1, <2>3, RegistrationUntouched DEF Schedule
  <2> QED BY <2>2, <2>3
<1>2. ASSUME NEW e \in Entries, ScheduleUpsert(e) PROVE RegistrationInv'
  BY <1>2, EntriesAssumption
     DEF ScheduleUpsert, TypeOK, RegistrationInv, LiveIsRegistered, Live
<1>3. ASSUME NEW e \in Entries, ScheduleUpsertFails(e) PROVE RegistrationInv'
  BY <1>3 DEF ScheduleUpsertFails, RegistrationInv, LiveIsRegistered
<1>4. ASSUME NEW e \in Entries, ScheduleRollback(e) PROVE RegistrationInv'
  BY <1>4 DEF ScheduleRollback, TypeOK, RegistrationInv, LiveIsRegistered, Live
<1>5. ASSUME NEW id \in Ids, Remove(id) PROVE RegistrationInv'
  BY <1>5, EntriesAssumption
     DEF Remove, MuFree, TypeOK, RegistrationInv, LiveIsRegistered
<1>6. ASSUME Stop PROVE RegistrationInv'
  BY <1>6 DEF Stop, MuFree, TypeOK, RegistrationInv, LiveIsRegistered
<1>7. ASSUME NEW id \in Ids, StopEntry(id) PROVE RegistrationInv'
  BY <1>7 DEF StopEntry, TypeOK, RegistrationInv, LiveIsRegistered
<1>8. ASSUME StopUnlock PROVE RegistrationInv'
  BY <1>8, EntriesAssumption DEF StopUnlock, TypeOK, RegistrationInv, LiveIsRegistered
<1>9. ASSUME \/ RemoveMark \/ StopMark \/ ReconcileDelete \/ ReconcileDone
             \/ \E id \in Ids : ReconcileMark(id)
      PROVE  RegistrationInv'
  <2>1. /\ UNCHANGED <<jobs, eid, cancelled, pc>>
        /\ op \notin {"schedule", "rollback"}
        /\ op' \in {"stop", "stopMark"} => op = "stopMark" /\ todo' = todo
    BY <1>9 DEF RemoveMark, StopMark, ReconcileDelete, ReconcileDone, ReconcileMark
  <2> QED BY <2>1 DEF RegistrationInv, LiveIsRegistered
<1>10. ASSUME NEW e \in Entries, Cleanup(e) PROVE RegistrationInv'
  BY <1>10, EntriesAssumption
     DEF Cleanup, Owns, MuFree, TypeOK, RegistrationInv, LiveIsRegistered, Live
<1>11. ASSUME NEW e \in Entries, CallerCancel(e) PROVE RegistrationInv'
  BY <1>11 DEF CallerCancel, TypeOK, RegistrationInv, LiveIsRegistered
<1>12. ASSUME Crash PROVE RegistrationInv'
  BY <1>12 DEF Crash, TypeOK, RegistrationInv, LiveIsRegistered, Live
<1>13. ASSUME NEW e \in Entries,
              \/ WaitUntil(e) \/ LoopCancelled(e) \/ LoopEnds(e) \/ LoopRuns(e)
              \/ Enqueue(e) \/ SelectDone(e) \/ SelectTick(e) \/ ReadStopped(e)
              \/ ReadState(e) \/ Finalize(e)
              \/ \E k \in RunIds : RunStart(e, k) \/ RunRecord(e, k) \/ RunFinish(e, k)
       PROVE  RegistrationInv'
  BY <1>13, RegistrationUntouched DEF TypeOK, WaitUntil, LoopCancelled, LoopEnds, LoopRuns,
     Enqueue, SelectDone, SelectTick, ReadStopped, ReadState, Finalize, Goto, Live,
     RunStart, RunRecord, RunFinish
<1>14. ASSUME StopReturn \/ OutageBegins \/ OutageEnds \/ UNCHANGED vars
       PROVE  RegistrationInv'
  BY <1>14, RegistrationUntouched DEF StopReturn, OutageBegins, OutageEnds, vars
<1> QED BY <1>1, <1>2, <1>3, <1>4, <1>5, <1>6, <1>7, <1>8, <1>9, <1>10, <1>11, <1>12,
           <1>13, <1>14 DEF Next, ApiStep, JobStep

--------------------------------------------------------------------------------
(***************************************************************************)
(* The theorems                                                            *)
(***************************************************************************)
\* IInv, which the other theorems project from, is an invariant of the scheduler.
THEOREM Inductive == Spec => []IInv
<1>1. IInv /\ [Next]_vars => IInv'
  BY TypeOKStep, OrderStep, SlotsStep, RegistrationStep DEF IInv
<1> QED BY InitIInv, <1>1, PTL DEF Spec

\* Every variable of the scheduler keeps its type: in particular the semaphore is
\* never released below zero and no run is started beyond the last run of its job.
THEOREM TypeCorrect == Spec => []TypeOK
<1>1. IInv => TypeOK
  BY DEF IInv
<1> QED BY Inductive, <1>1, PTL

\* WithConcurrency(n) of scheduler.go: never more than n runs are under way, over all
\* jobs, and no slot leaks, whatever is canceled, removed, stopped or fails.
THEOREM SemaphoreRespected == Spec => []SemaphoreBound
<1>1. IInv => SemaphoreBound
  BY UnderWayFinite, BoundsAssumption DEF IInv, SlotsCounted, SlotsBounded, SemaphoreBound
<1> QED BY Inductive, <1>1, PTL

\* Schedule, Remove, Stop and cleanupJob agree on s.jobs: a job that runs and was not
\* canceled is where Remove and Stop find it, and they find nothing else.
THEOREM LiveJobsRegistered == Spec => []LiveIsRegistered
<1>1. IInv => LiveIsRegistered
  BY DEF IInv, RegistrationInv
<1> QED BY Inductive, <1>1, PTL
================================================================================
