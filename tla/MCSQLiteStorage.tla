---------------------------- MODULE MCSQLiteStorage ----------------------------
(* SQLiteStorage for TLC: retention by age, and by rows. *)
EXTENDS SQLiteStorage

AgeOrRows == {[maxAge |-> 1, maxRows |-> 0], [maxAge |-> 0, maxRows |-> 1]}
================================================================================
