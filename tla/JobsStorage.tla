------------------------------ MODULE JobsStorage ------------------------------
(***************************************************************************)
(* The status entry a JobsStorage keeps per job id (jobStatusEntry of      *)
(* storage.go, the scheduler_job_status and scheduler_job_history rows of  *)
(* storage_sqlite.go), and what each write does to it.  The in-memory      *)
(* storage runs a write under its mutex, SQLite under writeMu and in one   *)
(* transaction, so a write is one step.                                    *)
(*                                                                         *)
(* Data abstraction: a JobRun is its Sequence; timestamps and payloads are *)
(* left out.  status.ActiveRuns and status.Runs always equal activeRuns    *)
(* and lastSequence and are not kept twice.                                *)
(***************************************************************************)
EXTENDS Integers, Sequences

CONSTANT HistoryLimit   \* the retained history length; WithHistoryLimit keeps it positive

ASSUME HistoryLimitAssumption == HistoryLimit \in Nat \ {0}

LiveStates     == {"scheduled", "running"}
TerminalStates == {"completed", "canceled", "removed", "stopped"}
JobStates      == LiveStates \cup TerminalStates

StatusEntry == [known    : BOOLEAN,     \* there is an entry for the id
                state    : JobStates,
                active   : Nat,         \* activeRuns
                terminal : BOOLEAN,
                seq      : Nat,         \* lastSequence
                history  : Seq(Nat)]

NoStatus == [known |-> FALSE, state |-> "scheduled", active |-> 0,
             terminal |-> FALSE, seq |-> 0, history |-> <<>>]

\* Creates the entry or overwrites its state; an existing entry keeps the rest,
\* its terminal flag and its counters included.
UpsertStatus(s, state) == [s EXCEPT !.known = TRUE, !.state = state]

MarkRemoved(s) ==
    IF s.known THEN [s EXCEPT !.terminal = TRUE, !.state = "removed"] ELSE s

\* Mutant: a terminal entry is marked again.
MarkTerminalAgain(s, state) ==
    IF s.known THEN [s EXCEPT !.terminal = TRUE, !.state = state] ELSE s

MarkTerminal(s, state) ==
    IF s.known /\ ~s.terminal THEN [s EXCEPT !.terminal = TRUE, !.state = state] ELSE s

\* Mutant: a run of a job that is over is not counted.
MarkExecutionStartLive(s) ==
    IF s.known /\ ~s.terminal
      THEN [s EXCEPT !.active = @ + 1, !.state = "running"] ELSE s

MarkExecutionStart(s) ==
    IF s.known
      THEN [s EXCEPT !.active = @ + 1, !.state = IF s.terminal THEN @ ELSE "running"]
      ELSE s

\* The newest HistoryLimit runs.
Trim(h) ==
    IF Len(h) > HistoryLimit THEN SubSeq(h, Len(h) - HistoryLimit + 1, Len(h)) ELSE h

\* Mutant: the count goes down even if the start was not counted.
EndedUnguarded(active) == active - 1

\* The run that ends counts as no longer active, if any was.
Ended(active) == IF active > 0 THEN active - 1 ELSE 0

\* Mutant: every result leaves the job waiting for its next run.
RecordExecutionResultIdle(s) ==
    IF s.known
      THEN [s EXCEPT !.seq = @ + 1, !.history = Trim(Append(@, s.seq + 1)),
                     !.active = Ended(@),
                     !.state = IF s.terminal THEN @ ELSE "scheduled"]
      ELSE s

\* Mutant: the result of a late run revives a job that is over.
RecordExecutionResultRevives(s) ==
    IF s.known
      THEN [s EXCEPT !.seq = @ + 1, !.history = Trim(Append(@, s.seq + 1)),
                     !.active = Ended(@),
                     !.state = IF Ended(s.active) > 0 THEN "running" ELSE "scheduled"]
      ELSE s

RecordExecutionResult(s) ==
    IF s.known
      THEN [s EXCEPT !.seq = @ + 1, !.history = Trim(Append(@, s.seq + 1)),
                     !.active = Ended(@),
                     !.state = CASE s.terminal -> @
                                 [] ~s.terminal /\ Ended(s.active) > 0 -> "running"
                                 [] OTHER -> "scheduled"]
      ELSE s
================================================================================
