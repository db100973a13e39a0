------------------------------ MODULE MCArithmetic -----------------------------
(* Backoff and Queries for TLC, with seven-bit integers.  The two have nothing to *)
(* do with each other, so that a behaviour is one of either.                      *)
EXTENDS Backoff, Queries

vars == <<backoffVars, queriesVars>>

DefaultRetrier == [maxRetries |-> 5, interval |-> 1, jitter |-> 2, timeout |-> 40,
                   num |-> 2, den |-> 1]

\* Some are invalid.  3 * 22 overflows, and Validate takes it for a negative number;
\* with a timeout of 29 the largest wait may just fit, with 62 it may not.
Retriers ==
    {o \in [maxRetries : {-1, 0, 2, 5, 22}, interval : {0, 1, 3, 30}, jitter : {0, 1, 3},
            timeout : {0, 10, 29, 62}, num : {2, 3}, den : {1, 2}] : o.num = 3 => o.maxRetries <= 5}

\* No limit, a small one, and the largest.
ClientLimits == {-1, 0, 1, 2, MaxInt}

Init == BackoffInit /\ QueriesInit

Next ==
    \/ client = "none" /\ state = <<>> /\ BackoffNext /\ UNCHANGED queriesVars
    \/ callPc = "new" /\ QueriesNext /\ UNCHANGED backoffVars

Spec == Init /\ [][Next]_vars
================================================================================
