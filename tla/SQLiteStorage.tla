----------------------------- MODULE SQLiteStorage -----------------------------
(***************************************************************************)
(* storage_sqlite.go: goroutines that write to one SQLiteJobsStorage.  A   *)
(* write takes writeMu, reads the status row in a transaction, changes it  *)
(* in memory, writes it back and commits; recording a run inserts into and *)
(* prunes the history table in the same transaction.  A statement that     *)
(* fails (a done ctx, a full disk) rolls the transaction back, and so does *)
(* a crash.                                                                *)
(*                                                                         *)
(* Data abstraction: a row holds what JobsStorage keeps of a status entry, *)
(* a history row its sequence number and finish time; time is a clock.     *)
(***************************************************************************)
EXTENDS JobsStorage, FiniteSets

CONSTANTS Ids,          \* job ids
          Writers,      \* the goroutines that write
          NoWriter,
          Retentions,   \* SQLiteHistoryRetentionOptions in use; 0 for no limit
          EndStates,    \* the states that MarkTerminal is called with
          MaxSeq,       \* bounds the runs of an id
          MaxActive,    \* bounds the runs that a start adds to
          MaxTime       \* bounds the clock

ASSUME WritersAssumption == NoWriter \notin Writers
ASSUME EndStatesAssumption == EndStates \subseteq TerminalStates
ASSUME RetentionsAssumption == Retentions \subseteq [maxAge : Nat, maxRows : Nat]
ASSUME StorageBoundsAssumption == MaxSeq \in Nat /\ MaxActive \in Nat /\ MaxTime \in Nat \ {0}

VARIABLES jobsT, statusT, historyT,     \* the tables, as committed
          retention,                    \* s.historyRetention
          clock,
          writeMu,                      \* the writer that holds it
          wpc, call,                    \* where a writer is, and in which call
          record,                       \* the status row the holder has read
          txStatus, txHistory           \* the tables as its transaction sees them

tables == <<jobsT, statusT, historyT>>
txVars == <<record, txStatus, txHistory>>
vars == <<tables, retention, clock, writeMu, wpc, call, txVars>>

Row == [id : Ids, seq : Nat, at : Nat]

StatusOps == {"upsert", "remove", "terminal", "start", "record"}

\* The calls of the interface.  A run has finished when its result is recorded, or has
\* no finish time; PruneHistory returns at once when there is no limit to apply.
Calls == [op : {"save", "delete", "upsert", "remove", "start"}, id : Ids]
         \cup [op : {"terminal"}, id : Ids, state : EndStates]
         \cup [op : {"record"}, id : Ids, at : {0, clock}]
         \cup [op : {"prune"}, keep : {k \in Retentions : k.maxAge > 0 \/ k.maxRows > 0}]

NoCall == [op |-> "none"]

Init ==
    /\ jobsT = {} /\ statusT = [i \in Ids |-> NoStatus] /\ historyT = {}
    /\ retention \in Retentions
    /\ clock = 1
    /\ writeMu = NoWriter
    /\ wpc = [w \in Writers |-> "idle"]
    /\ call = [w \in Writers |-> NoCall]
    /\ record = NoStatus /\ txStatus = statusT /\ txHistory = historyT

--------------------------------------------------------------------------------
(***************************************************************************)
(* The statements                                                          *)
(***************************************************************************)
\* The smaller of the limits that are set; the scheduler's always is.
mergeHistoryLimit(limit, maxRows) == IF 0 < maxRows /\ maxRows < limit THEN maxRows ELSE limit

EffectiveLimit == mergeHistoryLimit(HistoryLimit, retention.maxRows)

\* Mutant: one row too many is trimmed.
trimHistoryEager(rows, id, seq) == {r \in rows : ~(r.id = id /\ r.seq <= seq - EffectiveLimit + 1)}

trimHistory(rows, id, seq) == {r \in rows : ~(r.id = id /\ r.seq <= seq - EffectiveLimit)}

\* Finished before the cutoff; 0 is a run without a finish time.
TooOld(r, maxAge) == maxAge > 0 /\ r.at > 0 /\ r.at < clock - maxAge

pruneHistoryOlderThanForJob(rows, id, maxAge) == {r \in rows : ~(r.id = id /\ TooOld(r, maxAge))}

pruneHistoryOlderThan(rows, maxAge) == {r \in rows : ~TooOld(r, maxAge)}

\* The position of r in its job's history, newest first.
RowNumber(rows, r) == Cardinality({q \in rows : q.id = r.id /\ q.seq >= r.seq})

pruneHistoryMaxRowsPerJob(rows, maxRows) ==
    IF maxRows > 0 THEN {r \in rows : RowNumber(rows, r) <= maxRows} ELSE rows

\* record.activeRuns and record.status.State after a result.
applyExecutionResult(r) ==
    LET active == IF r.active > 0 THEN r.active - 1 ELSE 0 IN
    [r EXCEPT !.active = active,
              !.state = IF r.terminal THEN @ ELSE IF active > 0 THEN "running" ELSE "scheduled"]

\* What the call c makes of the row it has read.
Changed(c, r) ==
    CASE c.op = "upsert"   -> [r EXCEPT !.known = TRUE, !.state = "scheduled"]
      [] c.op = "remove"   -> [r EXCEPT !.terminal = TRUE, !.state = "removed"]
      [] c.op = "terminal" -> [r EXCEPT !.terminal = TRUE, !.state = c.state]
      [] c.op = "start"    -> [r EXCEPT !.active = @ + 1,
                                        !.state = IF r.terminal THEN @ ELSE "running"]
      [] c.op = "record"   -> applyExecutionResult(r)

\* A missing row, or one that is terminal already, ends the call early.
NothingToDo(c, r) == (~r.known /\ c.op # "upsert") \/ (c.op = "terminal" /\ r.terminal)

--------------------------------------------------------------------------------
(***************************************************************************)
(* A write                                                                 *)
(***************************************************************************)
Goto(w, next) == wpc' = [wpc EXCEPT ![w] = next]

\* A call begins, and waits for its turn.
Call(w, c) ==
    /\ wpc[w] = "idle"
    /\ c.op = "start" => statusT[c.id].active < MaxActive
    /\ c.op = "record" => statusT[c.id].seq < MaxSeq
    /\ call' = [call EXCEPT ![w] = c]
    /\ Goto(w, "lock")
    /\ UNCHANGED <<tables, retention, clock, writeMu, txVars>>

\* Mutant: the write does not wait for the one under way.
LockAnyway(w) ==
    /\ wpc[w] = "lock"
    /\ writeMu' = w
    /\ Goto(w, "locked")
    /\ UNCHANGED <<tables, retention, clock, call, txVars>>

Lock(w) ==
    /\ wpc[w] = "lock" /\ writeMu = NoWriter
    /\ writeMu' = w
    /\ Goto(w, "locked")
    /\ UNCHANGED <<tables, retention, clock, call, txVars>>

\* No transaction is open: one that begins sees the tables as committed.
NoTx == record' = NoStatus /\ txStatus' = statusT' /\ txHistory' = historyT'

\* The end of a call, done or failed.
Unlock(w) ==
    /\ NoTx
    /\ writeMu' = NoWriter
    /\ Goto(w, "idle") /\ call' = [call EXCEPT ![w] = NoCall]
    /\ UNCHANGED <<retention, clock>>

\* The primary key refuses a second row.
Save(w) ==
    /\ wpc[w] = "locked" /\ call[w].op = "save"
    /\ jobsT' = jobsT \cup {call[w].id}
    /\ UNCHANGED <<statusT, historyT>>
    /\ Unlock(w)

Delete(w) ==
    /\ wpc[w] = "locked" /\ call[w].op = "delete"
    /\ jobsT' = jobsT \ {call[w].id}
    /\ UNCHANGED <<statusT, historyT>>
    /\ Unlock(w)

\* BeginTx and loadStatusRecordTx.
Load(w) ==
    /\ wpc[w] = "locked" /\ call[w].op \in StatusOps
    /\ record' = statusT[call[w].id]
    /\ txStatus' = statusT /\ txHistory' = historyT
    /\ Goto(w, CASE NothingToDo(call[w], record') -> "commit"
                 [] ~NothingToDo(call[w], record') /\ call[w].op = "record" -> "history"
                 [] OTHER -> "write")
    /\ UNCHANGED <<tables, retention, clock, writeMu, call>>

\* The history table after the run with sequence number seq is recorded.
Recorded(rows, c, seq) ==
    pruneHistoryOlderThanForJob(
        trimHistory(rows \cup {[id |-> c.id, seq |-> seq, at |-> c.at]}, c.id, seq),
        c.id, retention.maxAge)

\* Mutant: the history is written with s.db instead of tx.
RecordHistoryOutside(w) ==
    /\ wpc[w] = "history"
    /\ record' = [record EXCEPT !.seq = @ + 1]
    /\ historyT' = Recorded(historyT, call[w], record.seq + 1) /\ txHistory' = historyT'
    /\ Goto(w, "write")
    /\ UNCHANGED <<jobsT, statusT, retention, clock, writeMu, call, txStatus>>

\* insertHistoryTx, trimHistoryTx and the age-based retention.
RecordHistory(w) ==
    /\ wpc[w] = "history"
    /\ record' = [record EXCEPT !.seq = @ + 1]
    /\ txHistory' = Recorded(txHistory, call[w], record.seq + 1)
    /\ Goto(w, "write")
    /\ UNCHANGED <<tables, retention, clock, writeMu, call, txStatus>>

\* upsertStatusRecordTx.
WriteStatus(w) ==
    /\ wpc[w] = "write"
    /\ txStatus' = [txStatus EXCEPT ![call[w].id] = Changed(call[w], record)]
    /\ Goto(w, "commit")
    /\ UNCHANGED <<tables, retention, clock, writeMu, call, record, txHistory>>

\* PruneHistoryWithRetention up to its commit.
PruneHistory(w) ==
    /\ wpc[w] = "locked" /\ call[w].op = "prune"
    /\ LET keep == call[w].keep IN
       txHistory' = pruneHistoryMaxRowsPerJob(pruneHistoryOlderThan(historyT, keep.maxAge),
                                              keep.maxRows)
    /\ txStatus' = statusT
    /\ Goto(w, "commit")
    /\ UNCHANGED <<tables, retention, clock, writeMu, call, record>>

Commit(w) ==
    /\ wpc[w] = "commit"
    /\ statusT' = txStatus /\ historyT' = txHistory
    /\ Unlock(w)
    /\ UNCHANGED jobsT

\* A statement fails: rollbackTx, and the error is returned.
Fail(w) ==
    /\ wpc[w] \in {"locked", "history", "write", "commit"}
    /\ UNCHANGED tables
    /\ Unlock(w)

\* The process dies; the next one opens the file with options of its own.
Crash ==
    /\ UNCHANGED <<tables, clock>>
    /\ NoTx
    /\ wpc' = [w \in Writers |-> "idle"] /\ call' = [w \in Writers |-> NoCall]
    /\ writeMu' = NoWriter
    /\ retention' \in Retentions

Tick ==
    /\ clock < MaxTime
    /\ clock' = clock + 1
    /\ UNCHANGED <<tables, retention, writeMu, wpc, call, txVars>>

Next ==
    \/ \E w \in Writers :
          \/ \E c \in Calls : Call(w, c)
          \/ Lock(w) \/ Save(w) \/ Delete(w) \/ Load(w) \/ RecordHistory(w)
          \/ WriteStatus(w) \/ PruneHistory(w) \/ Commit(w) \/ Fail(w)
    \/ Crash \/ Tick

Spec == Init /\ [][Next]_vars

--------------------------------------------------------------------------------
\* The history and the status, written to two tables, never disagree, whatever fails
\* and whenever the process dies: a run in the history has been counted by
\* last_sequence, and no two runs of a job have the same number.
HistoryMatchesStatus ==
    \A r \in historyT :
       /\ r.seq \in 1 .. statusT[r.id].seq
       /\ \A q \in historyT : q.id = r.id /\ q.seq = r.seq => q = r

\* "MaxAge keeps runs newer than now-MaxAge", "MaxRowsPerJob keeps only the latest N
\* runs per job": a run leaves the history only when it is too old, or when as many
\* newer runs have been recorded as the limits in force keep.
NoRunLostEarly ==
    [][\A r \in historyT \ historyT' :
          LET c == call[writeMu]
              newer == statusT'[r.id].seq - r.seq
          IN IF c.op = "prune"
               THEN TooOld(r, c.keep.maxAge) \/ (c.keep.maxRows > 0 /\ newer >= c.keep.maxRows)
               ELSE TooOld(r, retention.maxAge) \/ newer >= EffectiveLimit]_vars

Contract == INSTANCE StorageContract WITH
    stored <- jobsT, status <- statusT,
    history <- [i \in Ids |-> {r.seq : r \in {q \in historyT : q.id = i}}]

\* SQLite keeps the contract that Scheduler is written against: whatever fails and
\* whenever the process dies, a call is one atomic write or nothing.
ImplementsContract == Contract!Spec
================================================================================
