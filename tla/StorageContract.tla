---------------------------- MODULE StorageContract ----------------------------
(***************************************************************************)
(* What the scheduler relies on when it writes to a JobsStorage (storage.  *)
(* go): every write is one atomic step on the entry of its id.  The status *)
(* is exact; of the history only this much is promised, that it holds runs *)
(* that were recorded, each under the sequence number it was given: how    *)
(* long it holds them is up to the storage.                                *)
(***************************************************************************)
EXTENDS JobsStorage

CONSTANT Ids

VARIABLES stored,       \* the ids that Save has stored
          status,       \* the status entries, their history left empty
          history       \* the sequence numbers in the history of an id

vars == <<stored, status, history>>

\* An entry apart from its history.
Bare(s) == [s EXCEPT !.history = <<>>]

Init ==
    /\ stored = {}
    /\ status = [i \in Ids |-> NoStatus]
    /\ history = [i \in Ids |-> {}]

Save(id) == id \notin stored /\ stored' = stored \cup {id} /\ UNCHANGED <<status, history>>

Delete(id) == stored' = stored \ {id} /\ UNCHANGED <<status, history>>

Write(id) ==
    /\ \/ status' = [status EXCEPT ![id] = UpsertStatus(@, "scheduled")]
       \/ status' = [status EXCEPT ![id] = MarkRemoved(@)]
       \/ \E t \in TerminalStates : status' = [status EXCEPT ![id] = MarkTerminal(@, t)]
       \/ status' = [status EXCEPT ![id] = MarkExecutionStart(@)]
    /\ UNCHANGED <<stored, history>>

Record(id) ==
    /\ status[id].known
    /\ status' = [status EXCEPT ![id] = Bare(RecordExecutionResult(@))]
    /\ history' \in [Ids -> SUBSET Nat]
    /\ \A i \in Ids : history'[i] \subseteq history[i] \cup (IF i = id THEN {status[id].seq + 1} ELSE {})
    /\ UNCHANGED stored

\* Runs are dropped from the history.
Forget ==
    /\ history' \in [Ids -> SUBSET Nat]
    /\ \A i \in Ids : history'[i] \subseteq history[i]
    /\ UNCHANGED <<stored, status>>

Next ==
    \/ \E id \in Ids : Save(id) \/ Delete(id) \/ Write(id) \/ Record(id)
    \/ Forget

Spec == Init /\ [][Next]_vars
================================================================================
