-------------------------- MODULE SQLiteStorageProofs --------------------------
(***************************************************************************)
(* Theorems about SQLiteStorage, for any number of writers, ids and runs:  *)
(* status and history agree, no run leaves the history before a retention  *)
(* limit says so, and every call is one atomic step of StorageContract or  *)
(* none, whatever fails and whenever the process dies.                     *)
(***************************************************************************)
EXTENDS SQLiteStorage, TLAPS, FiniteSetTheorems

(***************************************************************************)
(* The inductive invariant                                                 *)
(***************************************************************************)
\* A status row; the history is in a table of its own.
StatusRow == [known : BOOLEAN, state : JobStates, active : Nat, terminal : BOOLEAN,
              seq : Nat, history : {<<>>}]

Keeps == [maxAge : Nat, maxRows : Nat]

\* A call, begun at any time.
AnyCall == [op : {"save", "delete", "upsert", "remove", "start"}, id : Ids]
           \cup [op : {"terminal"}, id : Ids, state : TerminalStates]
           \cup [op : {"record"}, id : Ids, at : Nat]
           \cup [op : {"prune"}, keep : Keeps]
           \cup {NoCall}

\* The places of a writer that holds writeMu.
Busy == {"locked", "history", "write", "commit"}

StorageTypeOK ==
    /\ jobsT \in SUBSET Ids
    /\ statusT \in [Ids -> StatusRow]
    /\ historyT \in SUBSET Row /\ IsFiniteSet(historyT)
    /\ retention \in Keeps
    /\ clock \in Nat
    /\ wpc \in [Writers -> Busy \cup {"idle", "lock"}]
    /\ call \in [Writers -> AnyCall]

\* writeMu lets in one writer at a time.
OneWriter == \A w \in Writers : wpc[w] \in Busy <=> writeMu = w

\* The transaction of a result, once the history is written: one row more, and none
\* less that the retention keeps.
RecordTx(w) ==
    LET id  == call[w].id
        new == statusT[id].seq + 1
    IN  /\ txHistory \subseteq historyT \cup {[id |-> id, seq |-> new, at |-> call[w].at]}
        /\ \A r \in historyT \ txHistory :
              /\ r.id = id
              /\ TooOld(r, retention.maxAge) \/ new - r.seq >= EffectiveLimit

\* The transaction of PruneHistory: none less that its retention keeps.
PruneTx(w) ==
    LET keep == call[w].keep
    IN  /\ txStatus = statusT /\ txHistory \subseteq historyT
        /\ \A r \in historyT \ txHistory :
              \/ TooOld(r, keep.maxAge)
              \/ keep.maxRows > 0 /\ statusT[r.id].seq - r.seq >= keep.maxRows

\* The call changes the row it has read: what it changes, and what the transaction has
\* made of the history.
Changes(w) == call[w].op \in StatusOps /\ ~NothingToDo(call[w], statusT[call[w].id])
Source(w) ==
    LET row == statusT[call[w].id]
    IN  IF call[w].op = "record" THEN [row EXCEPT !.seq = @ + 1] ELSE row
HistoryTx(w) == IF call[w].op = "record" THEN RecordTx(w) ELSE txHistory = historyT

\* What the transaction of a writer has done so far to the tables as they are committed.
TxOK(w) ==
    /\ wpc[w] = "history" =>
          /\ call[w].op = "record" /\ Changes(w)
          /\ record = statusT[call[w].id] /\ txStatus = statusT /\ txHistory = historyT
    /\ wpc[w] = "write" =>
          Changes(w) /\ record = Source(w) /\ txStatus = statusT /\ HistoryTx(w)
    /\ wpc[w] = "commit" =>
          \/ txStatus = statusT /\ txHistory = historyT
          \/ call[w].op = "prune" /\ PruneTx(w)
          \/ /\ Changes(w) /\ HistoryTx(w)
             /\ txStatus = [statusT EXCEPT ![call[w].id] = Changed(call[w], Source(w))]

TxInv == \A w \in Writers : TxOK(w)

IInv == StorageTypeOK /\ OneWriter /\ TxInv /\ HistoryMatchesStatus

--------------------------------------------------------------------------------
\* The parts that a call of each kind has.
LEMMA CallFacts ==
    ASSUME NEW c \in AnyCall
    PROVE  /\ c.op \in StatusOps \cup {"save", "delete", "prune", "none"}
           /\ c.op \in StatusOps \cup {"save", "delete"} => c.id \in Ids
           /\ c.op = "terminal" => c.state \in TerminalStates
           /\ c.op = "record" => c.at \in Nat
           /\ c.op = "prune" => c.keep \in Keeps
BY DEF AnyCall, NoCall, StatusOps

\* What the program may call is a call.
LEMMA CallsAreCalls == ASSUME clock \in Nat, NEW c \in Calls PROVE c \in AnyCall
<1>1. ASSUME NEW k \in Retentions PROVE k \in Keeps
  BY RetentionsAssumption DEF Keeps
<1> QED BY <1>1, EndStatesAssumption DEF Calls, AnyCall

\* upsertStatusRecordTx writes a status row, and leaves last_sequence alone.
LEMMA ChangedRow ==
    ASSUME NEW c \in AnyCall, c.op \in StatusOps, NEW s \in StatusRow
    PROVE  Changed(c, s) \in StatusRow /\ Changed(c, s).seq = s.seq
<1> USE DEF StatusRow, JobStates, LiveStates, TerminalStates
<1>1. CASE c.op = "upsert"
  BY <1>1 DEF Changed
<1>2. CASE c.op = "remove"
  BY <1>2 DEF Changed
<1>3. CASE c.op = "terminal"
  BY <1>3, CallFacts DEF Changed
<1>4. CASE c.op = "start"
  <2>1. s.active + 1 \in Nat
    OBVIOUS
  <2>2. CASE s.terminal
    BY <1>4, <2>1, <2>2 DEF Changed
  <2>3. CASE ~s.terminal
    BY <1>4, <2>1, <2>3 DEF Changed
  <2> QED BY <2>2, <2>3
<1>5. CASE c.op = "record"
  <2> DEFINE active == IF s.active > 0 THEN s.active - 1 ELSE 0
  <2>1. active \in Nat
    OBVIOUS
  <2>2. Changed(c, s) = [s EXCEPT !.active = active,
                            !.state = IF s.terminal THEN s.state
                                      ELSE IF active > 0 THEN "running" ELSE "scheduled"]
    BY <1>5 DEF Changed, applyExecutionResult
  <2> HIDE DEF active
  <2>3. CASE s.terminal
    BY <2>1, <2>2, <2>3
  <2>4. CASE ~s.terminal
    BY <2>1, <2>2, <2>4
  <2> QED BY <2>3, <2>4
<1> QED BY <1>1, <1>2, <1>3, <1>4, <1>5 DEF StatusOps

\* The limit in force is positive.
LEMMA LimitPositive == ASSUME retention \in Keeps PROVE EffectiveLimit \in Nat \ {0}
BY HistoryLimitAssumption DEF EffectiveLimit, mergeHistoryLimit, Keeps

\* A run that is too old stays so.
LEMMA AgeGrows ==
    ASSUME NEW r \in Row, NEW maxAge \in Nat, clock \in Nat, clock' \in Nat, clock <= clock',
           TooOld(r, maxAge)
    PROVE  TooOld(r, maxAge)'
BY DEF TooOld, Row

\* A new database.
LEMMA InitIInv == Init => IInv
<1> SUFFICES ASSUME Init PROVE IInv
  OBVIOUS
<1> USE DEF Init
<1>1. StorageTypeOK
  <2>1. NoStatus \in StatusRow
    BY DEF NoStatus, StatusRow, JobStates, LiveStates
  <2>2. retention \in Keeps
    BY RetentionsAssumption DEF Keeps
  <2>3. NoCall \in AnyCall
    BY DEF AnyCall
  <2>4. IsFiniteSet(historyT)
    BY FS_EmptySet
  <2> QED BY <2>1, <2>2, <2>3, <2>4 DEF StorageTypeOK
<1>2. OneWriter
  BY WritersAssumption DEF OneWriter, Busy
<1>3. TxInv /\ HistoryMatchesStatus
  BY DEF TxInv, TxOK, HistoryMatchesStatus
<1> QED BY <1>1, <1>2, <1>3 DEF IInv

--------------------------------------------------------------------------------
(***************************************************************************)
(* The transaction                                                         *)
(***************************************************************************)
\* Whoever has no transaction has nothing to keep.
LEMMA NoTransaction ==
    ASSUME NEW w, wpc'[w] \notin {"history", "write", "commit"}
    PROVE  TxOK(w)'
BY DEF TxOK

\* A transaction does not depend on what other writers do meanwhile, nor on the time.
LEMMA TxUntouched ==
    ASSUME StorageTypeOK, NEW w \in Writers, TxOK(w), UNCHANGED <<tables, retention, txVars>>,
           clock' \in Nat, clock <= clock', wpc'[w] = wpc[w], call'[w] = call[w]
    PROVE  TxOK(w)'
<1> USE DEF tables, txVars
<1>1. call[w] \in AnyCall /\ clock \in Nat /\ historyT \subseteq Row /\ retention.maxAge \in Nat
  BY DEF StorageTypeOK, Keeps
<1>2. EffectiveLimit' = EffectiveLimit
  BY DEF EffectiveLimit
<1>3. RecordTx(w) => RecordTx(w)'
  BY <1>1, <1>2, AgeGrows DEF RecordTx
<1>4. call[w].op = "prune" /\ PruneTx(w) => PruneTx(w)'
  <2>1. call[w].op = "prune" => call[w].keep.maxAge \in Nat
    BY <1>1, CallFacts DEF Keeps
  <2> QED BY <1>1, <2>1, AgeGrows DEF PruneTx
<1>5. /\ Changes(w)' <=> Changes(w)
      /\ Source(w)' = Source(w)
      /\ HistoryTx(w) => HistoryTx(w)'
  BY <1>3 DEF Changes, Source, HistoryTx
<1> QED BY <1>4, <1>5 DEF TxOK

\* The row that a transaction read is in the table.
LEMMA SourceRow ==
    ASSUME StorageTypeOK, NEW w \in Writers, Changes(w)
    PROVE  /\ call[w] \in AnyCall /\ call[w].id \in Ids /\ Source(w) \in StatusRow
           /\ Source(w).seq = statusT[call[w].id].seq + (IF call[w].op = "record" THEN 1 ELSE 0)
           /\ statusT[call[w].id].seq \in Nat
           /\ call[w].op = "record" => call[w].at \in Nat
<1>1. /\ call[w] \in AnyCall /\ call[w].id \in Ids
      /\ call[w].op = "record" => call[w].at \in Nat
  BY CallFacts DEF StorageTypeOK, Changes
<1>2. statusT[call[w].id] \in StatusRow
  BY <1>1 DEF StorageTypeOK
<1>3. CASE call[w].op = "record"
  BY <1>1, <1>2, <1>3 DEF Source, StatusRow
<1>4. CASE call[w].op # "record"
  BY <1>1, <1>2, <1>4 DEF Source, StatusRow
<1> QED BY <1>3, <1>4

\* What Commit writes: well-formed tables whose history the status counts.
LEMMA CommitTables ==
    ASSUME IInv, NEW w \in Writers, wpc[w] = "commit"
    PROVE  /\ txStatus \in [Ids -> StatusRow]
           /\ txHistory \in SUBSET Row /\ IsFiniteSet(txHistory)
           /\ \A r \in txHistory :
                 /\ r.seq \in 1 .. txStatus[r.id].seq
                 /\ \A q \in txHistory : q.id = r.id /\ q.seq = r.seq => q = r
<1>1. /\ StorageTypeOK /\ TxOK(w) /\ HistoryMatchesStatus
      /\ statusT \in [Ids -> StatusRow] /\ historyT \in SUBSET Row /\ IsFiniteSet(historyT)
  BY DEF IInv, TxInv, StorageTypeOK
<1>2. CASE txStatus = statusT /\ txHistory \subseteq historyT
  <2>1. IsFiniteSet(txHistory)
    BY <1>1, <1>2, FS_Subset
  <2> QED BY <1>1, <1>2, <2>1 DEF HistoryMatchesStatus
<1>3. CASE /\ Changes(w) /\ HistoryTx(w)
           /\ txStatus = [statusT EXCEPT ![call[w].id] = Changed(call[w], Source(w))]
  <2> DEFINE id == call[w].id
             row == Changed(call[w], Source(w))
  <2>1. /\ id \in Ids /\ row \in StatusRow /\ row.seq = Source(w).seq
        /\ call[w].op = "record" => call[w].at \in Nat
        /\ statusT[id].seq \in Nat
        /\ Source(w).seq = statusT[id].seq + (IF call[w].op = "record" THEN 1 ELSE 0)
    BY <1>1, <1>3, SourceRow, ChangedRow DEF Changes
  <2> HIDE DEF row
  <2>2. txStatus \in [Ids -> StatusRow]
    BY <1>1, <1>3, <2>1 DEF row
  <2>3. txStatus[id] = row /\ \A i \in Ids \ {id} : txStatus[i] = statusT[i]
    BY <1>1, <1>3, <2>1 DEF row
  <2>4. ASSUME NEW r \in historyT
        PROVE  /\ r \in Row /\ r.seq \in 1 .. statusT[r.id].seq
               /\ r.seq \in 1 .. txStatus[r.id].seq
    <3>1. r \in Row /\ r.id \in Ids /\ r.seq \in 1 .. statusT[r.id].seq
      BY <1>1 DEF HistoryMatchesStatus, Row
    <3> QED BY <2>1, <2>3, <3>1 DEF StatusRow
  <2>5. CASE call[w].op # "record"
    <3>1. txHistory = historyT
      BY <1>3, <2>5 DEF HistoryTx
    <3> QED BY <1>1, <2>2, <2>4, <3>1 DEF HistoryMatchesStatus
  <2>6. CASE call[w].op = "record"
    <3> DEFINE new == [id |-> id, seq |-> statusT[id].seq + 1, at |-> call[w].at]
    <3>1. txHistory \subseteq historyT \cup {new}
      BY <1>3, <2>6 DEF HistoryTx, RecordTx
    <3>2. new \in Row /\ new.id = id /\ new.seq = statusT[id].seq + 1
      BY <2>1, <2>6 DEF Row
    <3> HIDE DEF new
    <3>3. IsFiniteSet(txHistory)
      BY <1>1, <3>1, FS_AddElement, FS_Subset
    <3>4. new.seq \in 1 .. txStatus[new.id].seq
      BY <2>1, <2>3, <2>6, <3>2
    <3>5. ASSUME NEW r \in historyT, r.id = id PROVE r.seq # new.seq
      BY <2>1, <2>4, <3>2, <3>5
    <3>6. \A r \in txHistory : r.seq \in 1 .. txStatus[r.id].seq
      BY <2>4, <3>1, <3>4
    <3>7. \A r, q \in txHistory : q.id = r.id /\ q.seq = r.seq => q = r
      BY <1>1, <3>1, <3>2, <3>5 DEF HistoryMatchesStatus
    <3> QED BY <1>1, <2>2, <3>1, <3>2, <3>3, <3>6, <3>7
  <2> QED BY <2>5, <2>6
<1> QED BY <1>1, <1>2, <1>3 DEF TxOK, PruneTx

\* A statement of a transaction touches no other writer's.
LEMMA InTransaction ==
    ASSUME IInv, NEW w \in Writers, wpc[w] \in Busy, NEW next \in Busy, Goto(w, next),
           UNCHANGED <<tables, retention, clock, writeMu, call>>, TxOK(w)'
    PROVE  IInv'
<1> USE DEF tables
<1>1. /\ StorageTypeOK /\ OneWriter /\ HistoryMatchesStatus
      /\ wpc \in [Writers -> Busy \cup {"idle", "lock"}] /\ wpc' = [wpc EXCEPT ![w] = next]
  BY DEF IInv, StorageTypeOK, Goto
<1>2. StorageTypeOK'
  BY <1>1 DEF StorageTypeOK
<1>3. OneWriter'
  BY <1>1 DEF OneWriter
<1>4. ASSUME NEW v \in Writers PROVE TxOK(v)'
  <2>1. CASE v = w
    BY <2>1
  <2>2. CASE v # w
    BY <1>1, <2>2, NoTransaction DEF OneWriter, Busy
  <2> QED BY <2>1, <2>2
<1>5. HistoryMatchesStatus'
  BY <1>1 DEF HistoryMatchesStatus
<1> QED BY <1>2, <1>3, <1>4, <1>5 DEF IInv, TxInv

\* The end of a call leaves no transaction open.
LEMMA AfterUnlock ==
    ASSUME IInv, NEW w \in Writers, wpc[w] \in Busy, Unlock(w)
    PROVE  /\ OneWriter' /\ TxInv'
           /\ (retention \in Keeps)' /\ (clock \in Nat)'
           /\ (wpc \in [Writers -> Busy \cup {"idle", "lock"}])'
           /\ (call \in [Writers -> AnyCall])'
<1>1. /\ StorageTypeOK /\ OneWriter
      /\ wpc \in [Writers -> Busy \cup {"idle", "lock"}] /\ wpc' = [wpc EXCEPT ![w] = "idle"]
      /\ call \in [Writers -> AnyCall] /\ call' = [call EXCEPT ![w] = NoCall]
      /\ writeMu' = NoWriter /\ UNCHANGED <<retention, clock>>
  BY DEF IInv, StorageTypeOK, Unlock, Goto
<1>2. ASSUME NEW v \in Writers PROVE wpc'[v] \in {"idle", "lock"}
  BY <1>1 DEF OneWriter
<1>3. OneWriter'
  BY <1>1, <1>2, WritersAssumption DEF OneWriter, Busy
<1>4. TxInv'
  BY <1>2, NoTransaction DEF TxInv
<1>5. NoCall \in AnyCall
  BY DEF AnyCall
<1> QED BY <1>1, <1>3, <1>4, <1>5 DEF StorageTypeOK

\* A result: the history with the new row, pruned by the retention of the storage.
LEMMA RecordedHistory ==
    ASSUME IInv, NEW w \in Writers, Changes(w), call[w].op = "record"
    PROVE  LET id  == call[w].id
               new == statusT[id].seq + 1
               h   == Recorded(historyT, call[w], new)
           IN  /\ h \subseteq historyT \cup {[id |-> id, seq |-> new, at |-> call[w].at]}
               /\ \A r \in historyT \ h :
                     r.id = id /\ (TooOld(r, retention.maxAge) \/ new - r.seq >= EffectiveLimit)
<1> DEFINE id  == call[w].id
           new == statusT[id].seq + 1
           h   == Recorded(historyT, call[w], new)
           row == [id |-> id, seq |-> new, at |-> call[w].at]
<1>1. statusT[id].seq \in Nat /\ historyT \subseteq Row /\ EffectiveLimit \in Nat
  BY SourceRow, LimitPositive DEF IInv, StorageTypeOK
<1>2. h = {r \in {q \in historyT \cup {row} : ~(q.id = id /\ q.seq <= new - EffectiveLimit)} :
              ~(r.id = id /\ TooOld(r, retention.maxAge))}
  BY DEF Recorded, trimHistory, pruneHistoryOlderThanForJob
<1> HIDE DEF h, row
<1>3. h \subseteq historyT \cup {row}
  BY <1>2
<1>4. ASSUME NEW r \in historyT \ h
      PROVE  r.id = id /\ (TooOld(r, retention.maxAge) \/ new - r.seq >= EffectiveLimit)
  <2>1. r.seq \in Nat /\ new \in Nat
    BY <1>1 DEF Row
  <2>2. r.id = id /\ (TooOld(r, retention.maxAge) \/ r.seq <= new - EffectiveLimit)
    BY <1>2
  <2> QED BY <1>1, <2>1, <2>2
<1> QED BY <1>3, <1>4 DEF h, row

\* ROW_NUMBER counts newer runs: sequence numbers are distinct, and none is above
\* last_sequence, so a row past the limit has as many newer runs as the limit.
LEMMA RowsAreNewer ==
    ASSUME IInv, NEW rows \in SUBSET historyT, NEW r \in rows, NEW maxRows \in Nat,
           ~(RowNumber(rows, r) <= maxRows)
    PROVE  statusT[r.id].seq - r.seq >= maxRows
<1> DEFINE Q == {q \in rows : q.id = r.id /\ q.seq >= r.seq}
           last == statusT[r.id].seq
           f == [q \in Q |-> q.seq]
<1>1. /\ r.id \in Ids /\ r.seq \in Nat /\ last \in Nat /\ r.seq <= last
  BY DEF IInv, StorageTypeOK, Row, StatusRow, HistoryMatchesStatus
<1>2. f \in Injection(Q, r.seq .. last)
  <2>1. ASSUME NEW q \in Q PROVE q.seq \in r.seq .. last
    BY <1>1 DEF IInv, StorageTypeOK, Row, HistoryMatchesStatus
  <2>2. ASSUME NEW p \in Q, NEW q \in Q, f[p] = f[q] PROVE p = q
    BY <2>2 DEF IInv, HistoryMatchesStatus
  <2> QED BY <2>1, <2>2 DEF Injection, IsInjective
<1>3. IsFiniteSet(r.seq .. last) /\ Cardinality(r.seq .. last) = last - r.seq + 1
  <2>1. r.seq \in Int /\ last \in Int /\ ~(r.seq > last)
    BY <1>1
  <2> HIDE DEF last
  <2>2. /\ IsFiniteSet(r.seq .. last)
        /\ Cardinality(r.seq .. last) = IF r.seq > last THEN 0 ELSE last - r.seq + 1
    BY <2>1, FS_Interval, Zenon
  <2> QED BY <2>1, <2>2
<1>4. IsFiniteSet(Q) /\ Cardinality(Q) <= last - r.seq + 1
  BY <1>2, <1>3, FS_Injection
<1>5. Cardinality(Q) \in Nat
  BY <1>4, FS_CardinalityType
<1>6. RowNumber(rows, r) = Cardinality(Q)
  BY DEF RowNumber
<1> HIDE DEF Q
<1> QED BY <1>1, <1>4, <1>5, <1>6

--------------------------------------------------------------------------------
(***************************************************************************)
(* Every action keeps the invariant                                        *)
(***************************************************************************)
\* A new call waits; it has no transaction yet.
LEMMA CallIInv ==
    ASSUME IInv, NEW w \in Writers, NEW c \in Calls, Call(w, c) PROVE IInv'
<1>1. /\ StorageTypeOK /\ OneWriter /\ TxInv /\ HistoryMatchesStatus
      /\ wpc \in [Writers -> Busy \cup {"idle", "lock"}] /\ wpc' = [wpc EXCEPT ![w] = "lock"]
      /\ call \in [Writers -> AnyCall] /\ call' = [call EXCEPT ![w] = c]
      /\ wpc[w] = "idle" /\ UNCHANGED <<tables, retention, clock, writeMu, txVars>>
  BY DEF IInv, StorageTypeOK, Call, Goto
<1>2. StorageTypeOK'
  BY <1>1, CallsAreCalls DEF StorageTypeOK, tables
<1>3. OneWriter'
  BY <1>1 DEF OneWriter, Busy
<1>4. ASSUME NEW v \in Writers PROVE TxOK(v)'
  <2>1. CASE v = w
    BY <1>1, <2>1, NoTransaction
  <2>2. CASE v # w
    BY <1>1, <2>2, TxUntouched DEF TxInv, StorageTypeOK
  <2> QED BY <2>1, <2>2
<1>5. HistoryMatchesStatus'
  BY <1>1 DEF HistoryMatchesStatus, tables
<1> QED BY <1>2, <1>3, <1>4, <1>5 DEF IInv, TxInv

\* writeMu is taken only when nobody holds it.
LEMMA LockIInv ==
    ASSUME IInv, NEW w \in Writers, Lock(w) PROVE IInv'
<1>1. /\ StorageTypeOK /\ OneWriter /\ TxInv /\ HistoryMatchesStatus
      /\ wpc \in [Writers -> Busy \cup {"idle", "lock"}] /\ wpc' = [wpc EXCEPT ![w] = "locked"]
      /\ wpc[w] = "lock" /\ writeMu = NoWriter /\ writeMu' = w
      /\ UNCHANGED <<tables, retention, clock, call, txVars>>
  BY DEF IInv, StorageTypeOK, Lock, Goto
<1>2. StorageTypeOK'
  BY <1>1 DEF StorageTypeOK, tables, Busy
<1>3. OneWriter'
  BY <1>1, WritersAssumption DEF OneWriter, Busy
<1>4. ASSUME NEW v \in Writers PROVE TxOK(v)'
  <2>1. CASE v = w
    BY <1>1, <2>1, NoTransaction
  <2>2. CASE v # w
    BY <1>1, <2>2, TxUntouched DEF TxInv, StorageTypeOK
  <2> QED BY <2>1, <2>2
<1>5. HistoryMatchesStatus'
  BY <1>1 DEF HistoryMatchesStatus, tables
<1> QED BY <1>2, <1>3, <1>4, <1>5 DEF IInv, TxInv

\* The jobs table has nothing to do with the others.
LEMMA JobsIInv ==
    ASSUME IInv, NEW w \in Writers, Save(w) \/ Delete(w) PROVE IInv'
<1>1. /\ StorageTypeOK /\ HistoryMatchesStatus /\ wpc[w] \in Busy /\ Unlock(w)
      /\ UNCHANGED <<statusT, historyT>>
  BY DEF IInv, Save, Delete, Busy
<1>2. jobsT' \subseteq Ids
  <2>1. call[w].op \in {"save", "delete"} => call[w].id \in Ids
    BY <1>1, CallFacts DEF StorageTypeOK
  <2> QED BY <1>1, <2>1 DEF Save, Delete, StorageTypeOK
<1>3. HistoryMatchesStatus'
  BY <1>1 DEF HistoryMatchesStatus
<1>4. StorageTypeOK'
  BY <1>1, <1>2, AfterUnlock DEF StorageTypeOK
<1> QED BY <1>1, <1>3, <1>4, AfterUnlock DEF IInv

\* The transaction begins with the tables as committed.
LEMMA LoadIInv ==
    ASSUME IInv, NEW w \in Writers, Load(w) PROVE IInv'
<1> DEFINE c == call[w]
           row == statusT[c.id]
           next == CASE NothingToDo(c, row) -> "commit"
                     [] ~NothingToDo(c, row) /\ c.op = "record" -> "history"
                     [] OTHER -> "write"
<1>1. /\ wpc[w] \in Busy /\ c.op \in StatusOps /\ Goto(w, next)
      /\ record' = row /\ txStatus' = statusT /\ txHistory' = historyT
      /\ UNCHANGED <<tables, retention, clock, writeMu, call>>
  BY DEF Load, Busy
<1>2. next \in Busy /\ wpc'[w] = next
  BY <1>1 DEF Busy, IInv, StorageTypeOK, Goto
<1>3. /\ statusT' = statusT /\ historyT' = historyT /\ call' = call
      /\ txStatus' = statusT' /\ txHistory' = historyT'
  BY <1>1 DEF tables
<1>4. TxOK(w)'
  <2>1. CASE next = "commit"
    BY <1>2, <1>3, <2>1 DEF TxOK
  <2>2. CASE next = "history"
    <3>1. c.op = "record" /\ ~NothingToDo(c, row)
      BY <2>2
    <3>2. Changes(w)'
      BY <1>1, <1>3, <3>1 DEF Changes
    <3> QED BY <1>1, <1>2, <1>3, <2>2, <3>1, <3>2 DEF TxOK
  <2>3. CASE next = "write"
    <3>1. c.op # "record" /\ ~NothingToDo(c, row)
      BY <2>3
    <3>2. Changes(w)' /\ HistoryTx(w)' /\ Source(w)' = row
      BY <1>1, <1>3, <3>1 DEF Changes, HistoryTx, Source
    <3> QED BY <1>1, <1>2, <1>3, <2>3, <3>2 DEF TxOK
  <2> QED BY <1>2, <2>1, <2>2, <2>3
<1> HIDE DEF next
<1> QED BY <1>1, <1>2, <1>4, InTransaction

\* The history of the transaction takes the new run.
LEMMA RecordHistoryIInv ==
    ASSUME IInv, NEW w \in Writers, RecordHistory(w) PROVE IInv'
<1> DEFINE c == call[w]
           row == statusT[c.id]
<1>1. /\ wpc[w] = "history" /\ wpc[w] \in Busy /\ Goto(w, "write") /\ "write" \in Busy
      /\ UNCHANGED <<tables, retention, clock, writeMu, call>> /\ txStatus' = txStatus
  BY DEF RecordHistory, Busy
<1>2. /\ c.op = "record" /\ Changes(w) /\ record = row
      /\ txStatus = statusT /\ txHistory = historyT
  BY <1>1 DEF IInv, TxInv, TxOK
<1>3. /\ record' = [row EXCEPT !.seq = @ + 1]
      /\ txHistory' = Recorded(historyT, c, row.seq + 1)
  BY <1>2 DEF RecordHistory
<1>4. /\ statusT' = statusT /\ historyT' = historyT /\ call' = call
      /\ clock' = clock /\ retention' = retention
  BY <1>1 DEF tables
<1>5. RecordTx(w)'
  BY <1>2, <1>3, <1>4, RecordedHistory DEF RecordTx, TooOld, EffectiveLimit
<1>6. Changes(w)' /\ record' = Source(w)' /\ HistoryTx(w)'
  BY <1>2, <1>3, <1>4, <1>5 DEF Changes, Source, HistoryTx
<1>7. TxOK(w)'
  <2>1. wpc'[w] = "write"
    BY <1>1 DEF IInv, StorageTypeOK, Goto
  <2> QED BY <1>1, <1>2, <1>4, <1>6, <2>1 DEF TxOK
<1> QED BY <1>1, <1>7, InTransaction

\* The status row of the transaction takes the change.
LEMMA WriteStatusIInv ==
    ASSUME IInv, NEW w \in Writers, WriteStatus(w) PROVE IInv'
<1>1. /\ wpc[w] = "write" /\ wpc[w] \in Busy /\ Goto(w, "commit") /\ "commit" \in Busy
      /\ UNCHANGED <<tables, retention, clock, writeMu, call, txHistory>>
      /\ txStatus' = [txStatus EXCEPT ![call[w].id] = Changed(call[w], record)]
  BY DEF WriteStatus, Busy
<1>2. Changes(w) /\ record = Source(w) /\ txStatus = statusT /\ HistoryTx(w)
  BY <1>1 DEF IInv, TxInv, TxOK
<1>3. /\ statusT' = statusT /\ historyT' = historyT /\ call' = call
      /\ clock' = clock /\ retention' = retention /\ txHistory' = txHistory
  BY <1>1 DEF tables
<1>4. Changes(w)' /\ Source(w)' = Source(w)
  BY <1>2, <1>3 DEF Changes, Source
<1>5. HistoryTx(w)'
  BY <1>2, <1>3 DEF HistoryTx, RecordTx, TooOld, EffectiveLimit
<1>6. TxOK(w)'
  <2>1. wpc'[w] = "commit"
    BY <1>1 DEF IInv, StorageTypeOK, Goto
  <2> QED BY <1>1, <1>2, <1>3, <1>4, <1>5, <2>1 DEF TxOK
<1> QED BY <1>1, <1>6, InTransaction

\* What PruneHistory deletes is too old, or past the limit.
LEMMA PrunedHistory ==
    ASSUME IInv, NEW keep \in Keeps
    PROVE  LET h == pruneHistoryMaxRowsPerJob(pruneHistoryOlderThan(historyT, keep.maxAge),
                                              keep.maxRows)
           IN  /\ h \subseteq historyT
               /\ \A r \in historyT \ h :
                     \/ TooOld(r, keep.maxAge)
                     \/ keep.maxRows > 0 /\ statusT[r.id].seq - r.seq >= keep.maxRows
<1> DEFINE rows == pruneHistoryOlderThan(historyT, keep.maxAge)
           h == pruneHistoryMaxRowsPerJob(rows, keep.maxRows)
<1>1. /\ rows \subseteq historyT
      /\ \A r \in historyT \ rows : TooOld(r, keep.maxAge)
  BY DEF pruneHistoryOlderThan
<1> HIDE DEF rows
<1>2. CASE keep.maxRows > 0
  <2>1. h = {r \in rows : RowNumber(rows, r) <= keep.maxRows}
    BY <1>2 DEF pruneHistoryMaxRowsPerJob
  <2> HIDE DEF h
  <2>2. ASSUME NEW r \in rows \ h PROVE statusT[r.id].seq - r.seq >= keep.maxRows
    <3>1. ~(RowNumber(rows, r) <= keep.maxRows)
      BY <2>1
    <3> QED BY <1>1, <3>1, RowsAreNewer DEF Keeps
  <2>3. h \subseteq historyT
    BY <1>1, <2>1
  <2> QED BY <1>1, <1>2, <2>2, <2>3 DEF rows, h
<1>3. CASE ~(keep.maxRows > 0)
  <2>1. h = rows
    BY <1>3 DEF pruneHistoryMaxRowsPerJob
  <2> QED BY <1>1, <2>1 DEF rows
<1> QED BY <1>2, <1>3

\* PruneHistory leaves the status alone.
LEMMA PruneHistoryIInv ==
    ASSUME IInv, NEW w \in Writers, PruneHistory(w) PROVE IInv'
<1> DEFINE keep == call[w].keep
<1>1. /\ wpc[w] \in Busy /\ Goto(w, "commit") /\ "commit" \in Busy /\ call[w].op = "prune"
      /\ UNCHANGED <<tables, retention, clock, writeMu, call>>
      /\ txStatus' = statusT
      /\ txHistory' = pruneHistoryMaxRowsPerJob(pruneHistoryOlderThan(historyT, keep.maxAge),
                                                keep.maxRows)
  BY DEF PruneHistory, Busy
<1>2. keep \in Keeps
  BY <1>1, CallFacts DEF IInv, StorageTypeOK
<1>3. statusT' = statusT /\ historyT' = historyT /\ call' = call /\ clock' = clock
  BY <1>1 DEF tables
<1>4. /\ txHistory' \subseteq historyT
      /\ \A r \in historyT \ txHistory' :
            \/ TooOld(r, keep.maxAge)
            \/ keep.maxRows > 0 /\ statusT[r.id].seq - r.seq >= keep.maxRows
  BY <1>1, <1>2, PrunedHistory
<1>5. PruneTx(w)'
  BY <1>1, <1>3, <1>4 DEF PruneTx, TooOld
<1>6. TxOK(w)'
  <2>1. wpc'[w] = "commit"
    BY <1>1 DEF IInv, StorageTypeOK, Goto
  <2> QED BY <1>1, <1>3, <1>5, <2>1 DEF TxOK
<1> QED BY <1>1, <1>6, InTransaction

\* The tables take what the transaction has made of them.
LEMMA CommitIInv ==
    ASSUME IInv, NEW w \in Writers, Commit(w) PROVE IInv'
<1>1. /\ wpc[w] = "commit" /\ wpc[w] \in Busy /\ Unlock(w)
      /\ statusT' = txStatus /\ historyT' = txHistory /\ jobsT' = jobsT
  BY DEF Commit, Busy
<1>2. StorageTypeOK'
  BY <1>1, CommitTables, AfterUnlock DEF StorageTypeOK, IInv
<1>3. HistoryMatchesStatus'
  BY <1>1, CommitTables DEF HistoryMatchesStatus
<1> QED BY <1>1, <1>2, <1>3, AfterUnlock DEF IInv

\* A failure rolls the transaction back.
LEMMA FailIInv ==
    ASSUME IInv, NEW w \in Writers, Fail(w) PROVE IInv'
<1>1. /\ wpc[w] \in Busy /\ Unlock(w) /\ UNCHANGED <<jobsT, statusT, historyT>>
  BY DEF Fail, Busy, tables
<1>2. StorageTypeOK'
  BY <1>1, AfterUnlock DEF StorageTypeOK, IInv
<1>3. HistoryMatchesStatus'
  BY <1>1 DEF HistoryMatchesStatus, IInv
<1> QED BY <1>1, <1>2, <1>3, AfterUnlock DEF IInv

\* A crash loses every transaction, and the lock.
LEMMA CrashIInv ==
    ASSUME IInv, Crash PROVE IInv'
<1>1. /\ StorageTypeOK /\ HistoryMatchesStatus /\ UNCHANGED <<jobsT, statusT, historyT, clock>>
      /\ wpc' = [w \in Writers |-> "idle"] /\ call' = [w \in Writers |-> NoCall]
      /\ writeMu' = NoWriter /\ retention' \in Retentions
  BY DEF IInv, Crash, tables
<1>2. retention' \in Keeps /\ NoCall \in AnyCall
  BY <1>1, RetentionsAssumption DEF Keeps, AnyCall
<1>3. StorageTypeOK'
  BY <1>1, <1>2 DEF StorageTypeOK
<1>4. OneWriter'
  BY <1>1, WritersAssumption DEF OneWriter, Busy
<1>5. TxInv'
  BY <1>1, NoTransaction DEF TxInv
<1>6. HistoryMatchesStatus'
  BY <1>1 DEF HistoryMatchesStatus
<1> QED BY <1>3, <1>4, <1>5, <1>6 DEF IInv

\* Time passes for open transactions too.
LEMMA TickIInv ==
    ASSUME IInv, Tick PROVE IInv'
<1>1. /\ StorageTypeOK /\ OneWriter /\ TxInv /\ HistoryMatchesStatus
      /\ clock \in Nat /\ clock' = clock + 1
      /\ UNCHANGED <<tables, retention, writeMu, wpc, call, txVars>>
  BY DEF IInv, StorageTypeOK, Tick
<1>2. clock' \in Nat /\ clock <= clock'
  BY <1>1
<1>3. StorageTypeOK'
  BY <1>1, <1>2 DEF StorageTypeOK, tables
<1>4. OneWriter'
  BY <1>1 DEF OneWriter
<1>5. TxInv'
  BY <1>1, <1>2, TxUntouched DEF TxInv
<1>6. HistoryMatchesStatus'
  BY <1>1 DEF HistoryMatchesStatus, tables
<1> QED BY <1>3, <1>4, <1>5, <1>6 DEF IInv

\* A step that changes nothing, or any action.
LEMMA NextIInv == IInv /\ [Next]_vars => IInv'
<1> SUFFICES ASSUME IInv, [Next]_vars PROVE IInv'
  OBVIOUS
<1>1. ASSUME NEW w \in Writers, NEW c \in Calls, Call(w, c) PROVE IInv'
  BY <1>1, CallIInv
<1>2. ASSUME NEW w \in Writers, Lock(w) PROVE IInv'
  BY <1>2, LockIInv
<1>3. ASSUME NEW w \in Writers, Save(w) \/ Delete(w) PROVE IInv'
  BY <1>3, JobsIInv
<1>4. ASSUME NEW w \in Writers, Load(w) PROVE IInv'
  BY <1>4, LoadIInv
<1>5. ASSUME NEW w \in Writers, RecordHistory(w) PROVE IInv'
  BY <1>5, RecordHistoryIInv
<1>6. ASSUME NEW w \in Writers, WriteStatus(w) PROVE IInv'
  BY <1>6, WriteStatusIInv
<1>7. ASSUME NEW w \in Writers, PruneHistory(w) PROVE IInv'
  BY <1>7, PruneHistoryIInv
<1>8. ASSUME NEW w \in Writers, Commit(w) PROVE IInv'
  BY <1>8, CommitIInv
<1>9. ASSUME NEW w \in Writers, Fail(w) PROVE IInv'
  BY <1>9, FailIInv
<1>10. CASE Crash
  BY <1>10, CrashIInv
<1>11. CASE Tick
  BY <1>11, TickIInv
<1>12. CASE UNCHANGED vars
  <2>1. /\ UNCHANGED <<jobsT, statusT, historyT, retention, clock, writeMu, wpc, call>>
        /\ UNCHANGED <<tables, txVars>>
    BY <1>12 DEF vars, tables
  <2>2. StorageTypeOK' /\ OneWriter' /\ HistoryMatchesStatus'
    BY <2>1 DEF IInv, StorageTypeOK, OneWriter, HistoryMatchesStatus
  <2>3. TxInv'
    BY <2>1, TxUntouched DEF IInv, TxInv, StorageTypeOK
  <2> QED BY <2>2, <2>3 DEF IInv
<1> QED
  BY <1>1, <1>2, <1>3, <1>4, <1>5, <1>6, <1>7, <1>8, <1>9, <1>10, <1>11, <1>12 DEF Next

\* The inductive invariant holds throughout.
LEMMA Inductive == Spec => []IInv
BY InitIInv, NextIInv, PTL DEF Spec

\* The two tables never disagree: every run in the history has been counted by
\* last_sequence and no two runs of a job share a number, for any number of writers,
\* whatever statement fails and whenever the process dies.
THEOREM HistoryAgreesWithStatus == Spec => []HistoryMatchesStatus
<1>1. IInv => HistoryMatchesStatus
  BY DEF IInv
<1> QED BY <1>1, Inductive, PTL

--------------------------------------------------------------------------------
(***************************************************************************)
(* What leaves the history                                                 *)
(***************************************************************************)
\* Only Commit writes the status and the history.
LEMMA OnlyCommitWrites ==
    ASSUME [Next]_vars
    PROVE  \/ UNCHANGED <<statusT, historyT>>
           \/ \E w \in Writers : Commit(w)
BY DEF Next, vars, tables, Call, Lock, Save, Delete, Load, RecordHistory, WriteStatus,
       PruneHistory, Fail, Crash, Tick

\* A run that a committed transaction no longer has is past a limit in force.
LEMMA CommitLosesNoneEarly ==
    ASSUME IInv, NEW w \in Writers, Commit(w), NEW r \in historyT \ historyT'
    PROVE  LET c == call[writeMu]
               newer == statusT'[r.id].seq - r.seq
           IN IF c.op = "prune"
                THEN TooOld(r, c.keep.maxAge) \/ (c.keep.maxRows > 0 /\ newer >= c.keep.maxRows)
                ELSE TooOld(r, retention.maxAge) \/ newer >= EffectiveLimit
<1>1. /\ wpc[w] = "commit" /\ statusT' = txStatus /\ historyT' = txHistory
      /\ StorageTypeOK /\ TxOK(w) /\ statusT \in [Ids -> StatusRow]
  BY DEF Commit, IInv, TxInv, StorageTypeOK
<1>2. /\ writeMu = w /\ r \in Row /\ r.seq \in Nat /\ statusT[r.id].seq \in Nat
      /\ EffectiveLimit \in Nat /\ retention.maxAge \in Nat /\ clock \in Nat /\ r.at \in Nat
  BY <1>1, LimitPositive DEF IInv, OneWriter, Busy, StorageTypeOK, Row, StatusRow, Keeps
<1>3. CASE call[w].op = "prune" /\ PruneTx(w)
  BY <1>1, <1>2, <1>3 DEF PruneTx
<1>4. CASE /\ Changes(w) /\ HistoryTx(w)
           /\ txStatus = [statusT EXCEPT ![call[w].id] = Changed(call[w], Source(w))]
  <2>1. call[w].op = "record"
    BY <1>1, <1>4 DEF HistoryTx
  <2>2. /\ r.id = call[w].id
        /\ \/ TooOld(r, retention.maxAge)
           \/ statusT[r.id].seq + 1 - r.seq >= EffectiveLimit
    <3>1. RecordTx(w) /\ r \in historyT \ txHistory
      BY <1>1, <1>4, <2>1 DEF HistoryTx
    <3>2. /\ r.id = call[w].id
          /\ \/ TooOld(r, retention.maxAge)
             \/ statusT[call[w].id].seq + 1 - r.seq >= EffectiveLimit
      BY <1>2, <3>1 DEF RecordTx, TooOld
    <3> QED BY <3>2
  <2>3. statusT'[r.id].seq = statusT[r.id].seq + 1
    <3>1. /\ call[w] \in AnyCall /\ call[w].id \in Ids /\ Source(w) \in StatusRow
          /\ Source(w).seq = statusT[call[w].id].seq + 1
      BY <1>1, <1>4, <2>1, SourceRow
    <3>2. Changed(call[w], Source(w)).seq = Source(w).seq
      BY <1>4, <3>1, ChangedRow DEF Changes
    <3>3. statusT'[call[w].id] = Changed(call[w], Source(w))
      BY <1>1, <1>4, <3>1
    <3> QED BY <2>2, <3>1, <3>2, <3>3
  <2>4. TooOld(r, retention.maxAge) \/ statusT'[r.id].seq - r.seq >= EffectiveLimit
    BY <1>2, <2>2, <2>3 DEF TooOld
  <2>5. call[writeMu].op # "prune"
    BY <1>2, <2>1
  <2> QED BY <2>4, <2>5, Zenon
<1> QED BY <1>1, <1>3, <1>4 DEF TxOK

\* "MaxAge keeps runs newer than now-MaxAge", "MaxRowsPerJob keeps only the latest N
\* runs per job": no history, whatever its length, loses a run that the limits in force
\* still keep.
THEOREM RetentionLosesNoneEarly == Spec => NoRunLostEarly
<1> DEFINE Lost(r) ==
        LET c == call[writeMu]
            newer == statusT'[r.id].seq - r.seq
        IN IF c.op = "prune"
             THEN TooOld(r, c.keep.maxAge) \/ (c.keep.maxRows > 0 /\ newer >= c.keep.maxRows)
             ELSE TooOld(r, retention.maxAge) \/ newer >= EffectiveLimit
<1>1. IInv /\ [Next]_vars => [\A r \in historyT \ historyT' : Lost(r)]_vars
  <2> SUFFICES ASSUME IInv, [Next]_vars, NEW r \in historyT \ historyT' PROVE Lost(r)
    OBVIOUS
  <2>1. PICK w \in Writers : Commit(w)
    BY OnlyCommitWrites
  <2> QED BY <2>1, CommitLosesNoneEarly
<1> QED BY <1>1, Inductive, PTL DEF Spec, NoRunLostEarly

--------------------------------------------------------------------------------
(***************************************************************************)
(* The refinement                                                          *)
(***************************************************************************)
\* The history of a job, as the contract sees it.
Numbers == [i \in Ids |-> {r.seq : r \in {q \in historyT : q.id = i}}]

\* The contract speaks of the same writes.
LEMMA SameWrites ==
    ASSUME NEW s, NEW t
    PROVE  /\ Contract!NoStatus = NoStatus /\ Contract!TerminalStates = TerminalStates
           /\ Contract!UpsertStatus(s, t) = UpsertStatus(s, t)
           /\ Contract!MarkRemoved(s) = MarkRemoved(s)
           /\ Contract!MarkTerminal(s, t) = MarkTerminal(s, t)
           /\ Contract!MarkExecutionStart(s) = MarkExecutionStart(s)
           /\ Contract!RecordExecutionResult(s) = RecordExecutionResult(s)
<1>1. /\ Contract!Ended(s.active) = Ended(s.active)
      /\ Contract!Trim(Append(s.history, s.seq + 1)) = Trim(Append(s.history, s.seq + 1))
  BY DEF Contract!Ended, Ended, Contract!Trim, Trim
<1>2. Contract!RecordExecutionResult(s) = RecordExecutionResult(s)
  BY <1>1, Zenon DEF Contract!RecordExecutionResult, RecordExecutionResult
<1> QED
  BY <1>2
  DEF Contract!NoStatus, NoStatus, Contract!TerminalStates, TerminalStates,
      Contract!UpsertStatus, UpsertStatus, Contract!MarkRemoved, MarkRemoved,
      Contract!MarkTerminal, MarkTerminal, Contract!MarkExecutionStart, MarkExecutionStart

\* What the transaction makes of the row is what the storage in memory makes of it.
LEMMA ChangedIsWrite ==
    ASSUME NEW c \in AnyCall, NEW s \in StatusRow, c.op \in StatusOps, ~NothingToDo(c, s)
    PROVE  /\ c.op = "upsert" => Changed(c, s) = UpsertStatus(s, "scheduled")
           /\ c.op = "remove" => Changed(c, s) = MarkRemoved(s)
           /\ c.op = "terminal" => Changed(c, s) = MarkTerminal(s, c.state)
           /\ c.op = "start" => Changed(c, s) = MarkExecutionStart(s)
           /\ c.op = "record" =>
                 Changed(c, [s EXCEPT !.seq = @ + 1]) = Contract!Bare(RecordExecutionResult(s))
<1> USE DEF StatusOps
<1>1. CASE c.op = "upsert"
  BY <1>1 DEF Changed, UpsertStatus
<1>2. CASE c.op = "remove"
  BY <1>2 DEF Changed, MarkRemoved, NothingToDo
<1>3. CASE c.op = "terminal"
  BY <1>3 DEF Changed, MarkTerminal, NothingToDo
<1>4. CASE c.op = "start"
  BY <1>4 DEF Changed, MarkExecutionStart, NothingToDo
<1>5. CASE c.op = "record"
  <2>1. s.known
    BY <1>5 DEF NothingToDo
  <2> DEFINE counted == [s EXCEPT !.seq = @ + 1]
  <2>2. /\ counted.active = s.active /\ counted.terminal = s.terminal
        /\ counted.state = s.state /\ counted \in StatusRow
    BY DEF StatusRow
  <2>3. Changed(c, counted) = applyExecutionResult(counted)
    BY <1>5 DEF Changed
  <2>4. CASE s.terminal
    <3>1. applyExecutionResult(counted) = [counted EXCEPT !.active = Ended(s.active)]
      BY <2>2, <2>4 DEF applyExecutionResult, Ended, StatusRow
    <3>2. RecordExecutionResult(s) =
              [s EXCEPT !.seq = @ + 1, !.history = Trim(Append(@, s.seq + 1)),
                        !.active = Ended(@)]
      BY <2>1, <2>4 DEF RecordExecutionResult, StatusRow
    <3>3. Contract!Bare(RecordExecutionResult(s)) = [counted EXCEPT !.active = Ended(s.active)]
      BY <3>2 DEF Contract!Bare, StatusRow
    <3> QED BY <1>5, <2>3, <3>1, <3>3
  <2>5. CASE ~s.terminal
    <3> DEFINE state == IF Ended(s.active) > 0 THEN "running" ELSE "scheduled"
    <3>1. applyExecutionResult(counted) =
              [counted EXCEPT !.active = Ended(s.active), !.state = state]
      BY <2>2, <2>5 DEF applyExecutionResult, Ended
    <3>2. RecordExecutionResult(s) =
              [s EXCEPT !.seq = @ + 1, !.history = Trim(Append(@, s.seq + 1)),
                        !.active = Ended(@), !.state = state]
      BY <2>1, <2>5 DEF RecordExecutionResult
    <3> HIDE DEF state
    <3>3. Contract!Bare(RecordExecutionResult(s)) =
              [counted EXCEPT !.active = Ended(s.active), !.state = state]
      BY <3>2 DEF Contract!Bare, StatusRow
    <3> QED BY <1>5, <2>3, <3>1, <3>3
  <2> QED BY <2>4, <2>5
<1> QED BY <1>1, <1>2, <1>3, <1>4, <1>5

\* A transaction that commits is one write of the contract, or none.
LEMMA CommitIsWrite ==
    ASSUME IInv, NEW w \in Writers, Commit(w)
    PROVE  [Contract!Next]_Contract!vars
<1> DEFINE c == call[w]
           id == c.id
<1>1. /\ wpc[w] = "commit" /\ statusT' = txStatus /\ historyT' = txHistory /\ jobsT' = jobsT
      /\ StorageTypeOK /\ TxOK(w) /\ statusT \in [Ids -> StatusRow] /\ historyT \subseteq Row
      /\ historyT' \subseteq Row
  BY CommitTables DEF Commit, IInv, TxInv, StorageTypeOK
<1>2. Numbers \in [Ids -> SUBSET Nat] /\ Numbers' \in [Ids -> SUBSET Nat]
  BY <1>1 DEF Numbers, Row
<1>3. CASE txStatus = statusT /\ txHistory = historyT
  BY <1>1, <1>3 DEF Contract!vars
<1>4. CASE c.op = "prune" /\ PruneTx(w)
  <2>1. UNCHANGED <<jobsT, statusT>> /\ historyT' \subseteq historyT
    BY <1>1, <1>4 DEF PruneTx
  <2>2. \A i \in Ids : Numbers'[i] \subseteq Numbers[i]
    BY <2>1 DEF Numbers
  <2>3. Contract!Forget
    BY <1>2, <2>1, <2>2 DEF Contract!Forget, Numbers
  <2> QED BY <2>3 DEF Contract!Next
<1>5. CASE /\ Changes(w) /\ HistoryTx(w)
           /\ txStatus = [statusT EXCEPT ![id] = Changed(c, Source(w))]
  <2> DEFINE row == statusT[id]
  <2>1. /\ c \in AnyCall /\ id \in Ids /\ c.op \in StatusOps /\ row \in StatusRow
        /\ ~NothingToDo(c, row)
        /\ statusT' = [statusT EXCEPT ![id] = Changed(c, Source(w))]
    BY <1>1, <1>5, SourceRow DEF Changes
  <2>2. CASE c.op # "record"
    <3>1. statusT' = [statusT EXCEPT ![id] = Changed(c, row)] /\ historyT' = historyT
      BY <1>1, <1>5, <2>1, <2>2 DEF Source, HistoryTx
    <3>2. \/ statusT' = [statusT EXCEPT ![id] = UpsertStatus(row, "scheduled")]
          \/ statusT' = [statusT EXCEPT ![id] = MarkRemoved(row)]
          \/ \E t \in TerminalStates : statusT' = [statusT EXCEPT ![id] = MarkTerminal(row, t)]
          \/ statusT' = [statusT EXCEPT ![id] = MarkExecutionStart(row)]
      <4>1. CASE c.op = "upsert"
        BY <2>1, <3>1, <4>1, ChangedIsWrite
      <4>2. CASE c.op = "remove"
        BY <2>1, <3>1, <4>2, ChangedIsWrite
      <4>3. CASE c.op = "terminal"
        <5>1. c.state \in TerminalStates /\ Changed(c, row) = MarkTerminal(row, c.state)
          BY <2>1, <4>3, ChangedIsWrite, CallFacts
        <5> QED BY <3>1, <5>1
      <4>4. CASE c.op = "start"
        BY <2>1, <3>1, <4>4, ChangedIsWrite
      <4> QED BY <2>1, <2>2, <4>1, <4>2, <4>3, <4>4 DEF StatusOps
    <3>3. PICK i \in Ids : i = id
      BY <2>1
    <3>4. UNCHANGED <<jobsT, Numbers>>
      BY <1>1, <3>1 DEF Numbers
    <3>5. Contract!Write(i)
      BY <3>2, <3>3, <3>4, SameWrites, SMTT(60) DEF Contract!Write, Numbers
    <3> QED BY <3>5 DEF Contract!Next
  <2>3. CASE c.op = "record"
    <3> DEFINE new == row.seq + 1
    <3>1. /\ row.known
          /\ statusT' = [statusT EXCEPT ![id] = Contract!Bare(RecordExecutionResult(row))]
      BY <2>1, <2>3, ChangedIsWrite DEF Source, NothingToDo
    <3>2. historyT' \subseteq historyT \cup {[id |-> id, seq |-> new, at |-> c.at]}
      BY <1>1, <1>5, <2>3 DEF HistoryTx, RecordTx
    <3> HIDE DEF new
    <3>3. ASSUME NEW i \in Ids
          PROVE  Numbers'[i] \subseteq Numbers[i] \cup (IF i = id THEN {new} ELSE {})
      <4>1. ASSUME NEW r \in historyT', r.id = i, r \notin historyT PROVE i = id /\ r.seq = new
        BY <3>2, <4>1
      <4> QED BY <4>1 DEF Numbers
    <3>4. PICK i \in Ids : i = id
      BY <2>1
    <3>5. Contract!Record(i)
      BY <1>1, <1>2, <3>1, <3>3, <3>4, SameWrites DEF Contract!Record, Numbers, new
    <3> QED BY <3>5 DEF Contract!Next
  <2> QED BY <2>2, <2>3
<1> QED BY <1>1, <1>3, <1>4, <1>5 DEF TxOK

\* Every step writes as the contract says, or writes nothing.
LEMMA StepIsContract ==
    ASSUME IInv, [Next]_vars PROVE [Contract!Next]_Contract!vars
<1>1. CASE \E w \in Writers : Commit(w)
  BY <1>1, CommitIsWrite
<1>2. CASE UNCHANGED <<jobsT, statusT, historyT>>
  BY <1>2 DEF Contract!vars
<1>3. CASE \E w \in Writers : Save(w) \/ Delete(w)
  <2>1. PICK w \in Writers : Save(w) \/ Delete(w)
    BY <1>3
  <2>2. call[w].id \in Ids /\ UNCHANGED <<statusT, historyT>>
    BY <2>1, CallFacts DEF Save, Delete, IInv, StorageTypeOK
  <2>3. CASE Save(w)
    <3>1. CASE call[w].id \in jobsT
      BY <2>2, <2>3, <3>1 DEF Save, Contract!vars
    <3>2. CASE call[w].id \notin jobsT
      <4>1. Contract!Save(call[w].id)
        BY <2>2, <2>3, <3>2 DEF Save, Contract!Save
      <4> QED BY <2>2, <4>1 DEF Contract!Next
    <3> QED BY <3>1, <3>2
  <2>4. CASE Delete(w)
    <3>1. Contract!Delete(call[w].id)
      BY <2>2, <2>4 DEF Delete, Contract!Delete
    <3> QED BY <2>2, <3>1 DEF Contract!Next
  <2> QED BY <2>1, <2>3, <2>4
<1> QED
  BY <1>1, <1>2, <1>3
  DEF Next, vars, tables, Call, Lock, Load, RecordHistory, WriteStatus, PruneHistory, Fail,
      Crash, Tick

\* SQLiteJobsStorage keeps the contract that the scheduler is written against: whatever
\* fails and whenever the process dies, a call is one atomic write or nothing, with any
\* number of concurrent writers.
THEOREM SQLiteImplementsContract == Spec => ImplementsContract
<1>1. Init => Contract!Init
  BY SameWrites DEF Init, Contract!Init
<1>2. IInv /\ [Next]_vars => [Contract!Next]_Contract!vars
  BY StepIsContract
<1> QED BY <1>1, <1>2, Inductive, PTL DEF Spec, ImplementsContract, Contract!Spec
================================================================================
