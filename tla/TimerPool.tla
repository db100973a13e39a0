------------------------------- MODULE TimerPool -------------------------------
(***************************************************************************)
(* The timer pool of timer.go: a buffered channel p.ch of time.Timer       *)
(* values.  All timers in it are stopped and drained, and nothing tells    *)
(* them apart, so the channel is the set of the timers in it and Get takes *)
(* the one with the lowest number.                                         *)
(*                                                                         *)
(* A timer is "stopped", "armed" (running) or "fired" (its channel C can   *)
(* be received from).  go.mod asks for a Go later than 1.23, from which on *)
(* Stop and Reset guarantee that no value of an earlier arming is received *)
(* afterwards.                                                             *)
(***************************************************************************)
EXTENDS Naturals

CONSTANT PoolSize   \* the size passed to NewTimerPool, also the channel's capacity

Timers == 1 .. PoolSize

VARIABLES pool,     \* the timers in the channel p.ch
          timer     \* timer[t], the state of the timer t

TimerState == {"stopped", "armed", "fired"}

poolVars == <<pool, timer>>

TimerPoolTypeOK ==
    /\ pool \in SUBSET Timers
    /\ timer \in [Timers -> TimerState]

\* Every new timer is stopped, drained and put into the channel.
NewTimerPool ==
    /\ pool = Timers
    /\ timer = [t \in Timers |-> "stopped"]

\* A blocking receive from the channel; the timer is Reset by Get and by its user.
Get(t) ==
    /\ t \in pool /\ \A u \in pool : t <= u
    /\ pool' = pool \ {t}
    /\ timer' = [timer EXCEPT ![t] = "armed"]

\* Mutant: the channel is one timer too small.
ReturnedSmall(t) == IF pool \cup {t} # Timers THEN pool \cup {t} ELSE pool

\* The channel after a non-blocking send of t: a full pool, one that holds all of
\* the PoolSize timers, discards it.
Returned(t) == IF pool # Timers THEN pool \cup {t} ELSE pool

\* Stop, drain, send.
Put(t) ==
    /\ pool' = Returned(t)
    /\ timer' = [timer EXCEPT ![t] = "stopped"]

\* External (the Go runtime): an armed timer expires.
Fire(t) ==
    /\ timer[t] = "armed"
    /\ timer' = [timer EXCEPT ![t] = "fired"]
    /\ UNCHANGED pool
================================================================================
