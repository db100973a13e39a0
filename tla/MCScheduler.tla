------------------------------ MODULE MCScheduler ------------------------------
(* Scheduler for TLC: the schedules of the runs, and the symmetry of entries. *)
EXTENDS Scheduler, TLC

\* A job that runs once, one that runs until it is stopped, one with times.
Once    == [startAt |-> FALSE, maxRuns |-> 1, endAt |-> FALSE]
Forever == [startAt |-> FALSE, maxRuns |-> 0, endAt |-> FALSE]
Timed   == [startAt |-> TRUE, maxRuns |-> 0, endAt |-> TRUE]

ForeverOnly     == {Forever}
OnceOrForever   == {Once, Forever}
AllSchedules    == {Once, Forever, Timed}

EntrySymmetry == Permutations(Entries)
================================================================================
