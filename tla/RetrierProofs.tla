----------------------------- MODULE RetrierProofs -----------------------------
(***************************************************************************)
(* Theorems about Retrier: type correctness, the conservation of timers,   *)
(* the absence of a timer deadlock, the meaning of Errors and the          *)
(* refinement of RetryCalls, for every number of callers and of retries.   *)
(***************************************************************************)
EXTENDS Retrier, TLAPS, FiniteSetTheorems, SequenceTheorems

(***************************************************************************)
(* The inductive invariant                                                 *)
(***************************************************************************)
\* Which timers a call holds follows from where it is.
HoldsByPhase ==
    \A c \in Callers :
       /\ pc[c] \in {"idle", "init"} => tmo[c] = NoTimer
       /\ pc[c] \in {"attempt", "getRetry", "backoff"} => tmo[c] \in Timers
       /\ pc[c] = "backoff" => wt[c] \in Timers
       /\ pc[c] # "backoff" => wt[c] = NoTimer

\* How many errors a call has recorded follows from its attempt and where it is.
TraceByPhase ==
    \A c \in Callers :
       /\ pc[c] \in {"idle", "init"} => attempt[c] = 0 /\ trace[c] = <<>>
       /\ pc[c] = "attempt" => trace[c] = Temps(attempt[c])
       /\ pc[c] \in {"getRetry", "backoff"} =>
             attempt[c] < MaxRetries /\ trace[c] = Temps(attempt[c] + 1)

\* TimerConservation, timer by timer.
Conserved ==
    /\ \A t \in Timers : t \in pool \/ \E c \in Callers : tmo[c] = t \/ wt[c] = t
    /\ \A c \in Callers :
          /\ tmo[c] \notin pool /\ wt[c] \notin pool
          /\ tmo[c] = wt[c] => tmo[c] = NoTimer
          /\ \A d \in Callers \ {c} :
                /\ tmo[c] = tmo[d] => tmo[c] = NoTimer
                /\ wt[c] = wt[d] => wt[c] = NoTimer
                /\ tmo[c] = wt[d] => tmo[c] = NoTimer

IInv == TypeOK /\ HoldsByPhase /\ TraceByPhase /\ Conserved /\ TraceExplainsResult

--------------------------------------------------------------------------------
\* NewRetrier puts MaxRetries + 1 timers into the pool.
LEMMA TimersFacts ==
    /\ Timers = 1 .. MaxRetries + 1
    /\ IsFiniteSet(Timers) /\ Cardinality(Timers) = MaxRetries + 1
    /\ NoTimer \notin Timers
<1>1. Timers = 1 .. MaxRetries + 1
  BY DEF Timers, TP!Timers, PoolSize
<1>2. IsFiniteSet(Timers) /\ Cardinality(Timers) = MaxRetries + 1
  BY <1>1, MaxRetriesAssumption, FS_Interval
<1>3. NoTimer \notin Timers
  BY <1>1, NoTimerAssumption, MaxRetriesAssumption
<1> QED BY <1>1, <1>2, <1>3

\* A timer that a call holds always fits into the pool: Put never discards it.
LEMMA PutKeepsTimer ==
    ASSUME NEW t \in Timers, t \notin pool
    PROVE  TP!Returned(t) = pool \cup {t}
BY DEF TP!Returned, Timers

\* Get, Put and the expiry of a timer keep the pool well formed.
LEMMA PoolTypes ==
    ASSUME TP!TimerPoolTypeOK, NEW t \in Timers
    PROVE  /\ TP!Get(t) => TP!TimerPoolTypeOK'
           /\ TP!Put(t) => TP!TimerPoolTypeOK'
           /\ TP!Fire(t) => TP!TimerPoolTypeOK'
BY DEF TP!TimerPoolTypeOK, TP!TimerState, TP!Get, TP!Put, TP!Returned, TP!Fire, Timers

\* One more retried error.
LEMMA TempsFacts ==
    /\ Temps(0) = <<>>
    /\ \A n \in Nat : /\ Temps(n) \in Seq(Failures)
                      /\ Append(Temps(n), "temp") = Temps(n + 1)
<1>1. Temps(0) = <<>>
  BY DEF Temps
<1>2. ASSUME NEW n \in Nat PROVE Temps(n) \in Seq(Failures) /\ Len(Temps(n)) = n
  BY DEF Temps, Failures
<1>3. ASSUME NEW n \in Nat PROVE Append(Temps(n), "temp") = Temps(n + 1)
  <2> DEFINE s == Append(Temps(n), "temp")
  <2>1. "temp" \in Failures
    BY DEF Failures
  <2>2. /\ s \in Seq(Failures) /\ Len(s) = n + 1
        /\ \A i \in 1 .. n : s[i] = Temps(n)[i]
        /\ s[n + 1] = "temp"
    BY <1>2, <2>1, AppendProperties
  <2>3. s \in [1 .. n + 1 -> Failures]
    BY <2>2, LenProperties
  <2>4. \A i \in 1 .. n : Temps(n)[i] = "temp"
    BY DEF Temps
  <2>5. \A i \in 1 .. n + 1 : s[i] = "temp"
    BY <2>2, <2>4
  <2> HIDE DEF s
  <2>6. s = [i \in 1 .. n + 1 |-> "temp"]
    BY <2>3, <2>5
  <2> QED BY <2>6 DEF Temps, s
<1> QED BY <1>1, <1>2, <1>3

\* A new Retrier, on which nobody has called Do yet.
LEMMA InitIInv == Init => IInv
<1> SUFFICES ASSUME Init PROVE IInv
  OBVIOUS
<1>1. TypeOK
  <2>1. TP!TimerPoolTypeOK
    BY DEF Init, TP!NewTimerPool, TP!TimerPoolTypeOK, TP!TimerState
  <2>2. /\ pc \in [Callers -> Phases]
        /\ mode \in [Callers -> {"Do", "DoWithContext"}]
        /\ worker \in [Callers -> Workers]
        /\ last \in [Callers -> Lasts]
    BY DEF Init, Phases, Workers, Results, Failures, Lasts
  <2>3. /\ tmo \in [Callers -> Timers \cup {NoTimer}]
        /\ wt \in [Callers -> Timers \cup {NoTimer}]
    BY DEF Init
  <2>4. ctxDone \in [Callers -> BOOLEAN] /\ stopped \in BOOLEAN
    BY Zenon DEF Init
  <2>5. attempt \in [Callers -> 0 .. MaxRetries]
    BY MaxRetriesAssumption DEF Init
  <2>6. trace \in [Callers -> Seq(Failures \cup {"max"})]
    BY DEF Init
  <2> QED BY <2>1, <2>2, <2>3, <2>4, <2>5, <2>6 DEF TypeOK
<1>2. HoldsByPhase /\ TraceByPhase /\ TraceExplainsResult
  BY DEF Init, HoldsByPhase, TraceByPhase, TraceExplainsResult
<1>3. Conserved
  BY TimersFacts DEF Init, Conserved, TP!NewTimerPool, Timers
<1> QED BY <1>1, <1>2, <1>3 DEF IInv

--------------------------------------------------------------------------------
\* What an attempt that ends may change, and how.
LEMMA HandleTypes ==
    ASSUME TypeOK, NEW c \in Callers, NEW r \in Results, Handle(c, r)
    PROVE  /\ pc' \in [Callers -> Phases]
           /\ last' \in [Callers -> Lasts]
           /\ trace' \in [Callers -> Seq(Failures \cup {"max"})]
<1>1. trace[c] \in Seq(Failures \cup {"max"})
  BY DEF TypeOK
<1>2. \A x \in Failures \cup {"max"} :
         \A s \in Seq(Failures \cup {"max"}) : Append(s, x) \in Seq(Failures \cup {"max"})
  OBVIOUS
<1>3. trace' \in [Callers -> Seq(Failures \cup {"max"})]
  <2> DEFINE T == Seq(Failures \cup {"max"})
  <2>1. trace \in [Callers -> T] /\ trace[c] \in T
    BY <1>1 DEF TypeOK
  <2>2. /\ Append(trace[c], r) \in T \/ r = "nil"
        /\ Append(Append(trace[c], r), "max") \in T \/ r = "nil"
    BY <1>1, <1>2 DEF Results
  <2>3. \/ trace' = trace
        \/ trace' = [trace EXCEPT ![c] = Append(@, r)] /\ r # "nil"
        \/ trace' = [trace EXCEPT ![c] = Append(Append(@, r), "max")] /\ r # "nil"
    BY DEF Handle
  <2> HIDE DEF T
  <2>4. trace' \in [Callers -> T]
    BY <2>1, <2>2, <2>3
  <2> QED BY <2>4 DEF T
<1>4. pc' \in [Callers -> Phases]
  <2>1. /\ pc \in [Callers -> Phases]
        /\ \/ pc' = [pc EXCEPT ![c] = "return"]
           \/ pc' = [pc EXCEPT ![c] = "getRetry"]
    BY DEF TypeOK, Handle
  <2> QED BY ONLY <2>1 DEF Phases
<1>5. last' \in [Callers -> Lasts]
  BY ZenonT(60) DEF TypeOK, Handle, Phases, Lasts, Results, Failures
<1> QED BY <1>3, <1>4, <1>5

\* Type correctness, action by action.  The timers a call puts back are in the pool's
\* domain by HoldsByPhase; the attempt counter stays in range by TraceByPhase.
LEMMA TypeOKStep == TypeOK /\ HoldsByPhase /\ TraceByPhase /\ [Next]_vars => TypeOK'
<1> SUFFICES ASSUME TypeOK, HoldsByPhase, TraceByPhase, [Next]_vars PROVE TypeOK'
  OBVIOUS
<1> USE DEF TypeOK, Phases, Workers, Results, Failures, Lasts, Aborts
<1>1. ASSUME NEW c \in Callers, NEW m \in Modes[c], Start(c, m) PROVE TypeOK'
  BY <1>1, ModesAssumption DEF Start, TP!TimerPoolTypeOK
<1>2. ASSUME NEW c \in Callers, NEW m \in Modes[c], StartRefused(c, m) PROVE TypeOK'
  BY <1>2, ModesAssumption DEF StartRefused, TP!TimerPoolTypeOK
<1>3. ASSUME NEW c \in Callers, GetTimeoutTimer(c) PROVE TypeOK'
  BY <1>3, PoolTypes DEF GetTimeoutTimer, Spawned
<1>4. ASSUME NEW c \in Callers, NEW r \in Results, FuncReturns(c, r) PROVE TypeOK'
  <2>1. TP!TimerPoolTypeOK'
    BY <1>4 DEF FuncReturns, TP!TimerPoolTypeOK
  <2> QED BY <1>4, <2>1, HandleTypes DEF FuncReturns
<1>5. ASSUME NEW c \in Callers, NEW r \in Results, WorkerReturns(c, r) PROVE TypeOK'
  BY <1>5 DEF WorkerReturns, TP!TimerPoolTypeOK
<1>6. ASSUME NEW c \in Callers, AttemptResult(c) PROVE TypeOK'
  <2>1. TP!TimerPoolTypeOK'
    BY <1>6 DEF AttemptResult, TP!TimerPoolTypeOK
  <2> QED BY <1>6, <2>1, HandleTypes DEF AttemptResult
<1>7. ASSUME NEW c \in Callers, NEW why \in Aborts, AttemptAborted(c, why) PROVE TypeOK'
  BY <1>7 DEF AttemptAborted, TP!TimerPoolTypeOK
<1>8. ASSUME NEW c \in Callers, GetRetryTimer(c) PROVE TypeOK'
  BY <1>8, PoolTypes DEF GetRetryTimer
<1>9. ASSUME NEW c \in Callers, BackoffElapsed(c) PROVE TypeOK'
  <2>1. wt[c] \in Timers /\ attempt[c] < MaxRetries
    BY <1>9 DEF BackoffElapsed, HoldsByPhase, TraceByPhase
  <2>2. TP!TimerPoolTypeOK'
    BY <1>9, <2>1, PoolTypes DEF BackoffElapsed
  <2>3. attempt' \in [Callers -> 0 .. MaxRetries]
    BY <1>9, <2>1, MaxRetriesAssumption DEF BackoffElapsed
  <2> QED BY <1>9, <2>2, <2>3 DEF BackoffElapsed, Spawned
<1>10. ASSUME NEW c \in Callers, NEW why \in Aborts, BackoffAborted(c, why) PROVE TypeOK'
  <2>1. wt[c] \in Timers
    BY <1>10 DEF BackoffAborted, HoldsByPhase
  <2>2. TP!TimerPoolTypeOK'
    BY <1>10, <2>1, PoolTypes DEF BackoffAborted
  <2> QED BY <1>10, <2>2 DEF BackoffAborted
<1>11. ASSUME NEW c \in Callers, Return(c) PROVE TypeOK'
  <2>1. TP!TimerPoolTypeOK'
    <3>1. CASE tmo[c] = NoTimer
      BY <1>11, <3>1 DEF Return, TP!TimerPoolTypeOK
    <3>2. CASE tmo[c] # NoTimer
      BY <1>11, <3>2, PoolTypes DEF Return
    <3> QED BY <3>1, <3>2
  <2>2. trace' \in [Callers -> Seq(Failures \cup {"max"})]
    BY <1>11 DEF Return
  <2>3. attempt' \in [Callers -> 0 .. MaxRetries]
    BY <1>11, MaxRetriesAssumption DEF Return
  <2> QED BY <1>11, <2>1, <2>2, <2>3 DEF Return
<1>12. ASSUME NEW c \in Callers, CancelCtx(c) PROVE TypeOK'
  BY <1>12 DEF CancelCtx, TP!TimerPoolTypeOK
<1>13. ASSUME Cancel PROVE TypeOK'
  BY <1>13 DEF Cancel, callVars, TP!TimerPoolTypeOK
<1>14. ASSUME NEW t \in Timers, Fire(t) PROVE TypeOK'
  BY <1>14, PoolTypes DEF Fire, callVars
<1>15. ASSUME UNCHANGED vars PROVE TypeOK'
  BY <1>15 DEF vars, TP!TimerPoolTypeOK
<1> QED
  BY <1>1, <1>2, <1>3, <1>4, <1>5, <1>6, <1>7, <1>8, <1>9, <1>10, <1>11, <1>12,
     <1>13, <1>14, <1>15 DEF Next
--------------------------------------------------------------------------------
\* Only Get gives a call a timer, only Put and Return take it away.
LEMMA HoldsByPhaseStep == TypeOK /\ HoldsByPhase /\ [Next]_vars => HoldsByPhase'
<1> SUFFICES ASSUME TypeOK, HoldsByPhase, [Next]_vars PROVE HoldsByPhase'
  OBVIOUS
<1>a. Timers' = Timers
  BY DEF Timers, TP!Timers, PoolSize
<1> USE <1>a DEF HoldsByPhase, TypeOK, Phases
<1>1. ASSUME NEW c \in Callers, NEW m \in Modes[c], Start(c, m) PROVE HoldsByPhase'
  BY <1>1 DEF Start
<1>2. ASSUME NEW c \in Callers, NEW m \in Modes[c], StartRefused(c, m) PROVE HoldsByPhase'
  BY <1>2 DEF StartRefused
<1>3. ASSUME NEW c \in Callers, GetTimeoutTimer(c) PROVE HoldsByPhase'
  BY <1>3 DEF GetTimeoutTimer
<1>4. ASSUME NEW c \in Callers, NEW r \in Results, FuncReturns(c, r) PROVE HoldsByPhase'
  BY <1>4 DEF FuncReturns, Handle
<1>5. ASSUME NEW c \in Callers, NEW r \in Results, WorkerReturns(c, r) PROVE HoldsByPhase'
  BY <1>5 DEF WorkerReturns
<1>6. ASSUME NEW c \in Callers, AttemptResult(c) PROVE HoldsByPhase'
  BY <1>6 DEF AttemptResult, Handle
<1>7. ASSUME NEW c \in Callers, NEW why \in Aborts, AttemptAborted(c, why) PROVE HoldsByPhase'
  BY <1>7 DEF AttemptAborted
<1>8. ASSUME NEW c \in Callers, GetRetryTimer(c) PROVE HoldsByPhase'
  BY <1>8 DEF GetRetryTimer
<1>9. ASSUME NEW c \in Callers, BackoffElapsed(c) PROVE HoldsByPhase'
  BY <1>9 DEF BackoffElapsed
<1>10. ASSUME NEW c \in Callers, NEW why \in Aborts, BackoffAborted(c, why) PROVE HoldsByPhase'
  BY <1>10 DEF BackoffAborted
<1>11. ASSUME NEW c \in Callers, Return(c) PROVE HoldsByPhase'
  BY <1>11 DEF Return
<1>12. ASSUME NEW c \in Callers, CancelCtx(c) PROVE HoldsByPhase'
  BY <1>12 DEF CancelCtx
<1>13. ASSUME Cancel PROVE HoldsByPhase'
  BY <1>13 DEF Cancel, callVars
<1>14. ASSUME NEW t \in Timers, Fire(t) PROVE HoldsByPhase'
  BY <1>14 DEF Fire, callVars
<1>15. ASSUME UNCHANGED vars PROVE HoldsByPhase'
  BY <1>15 DEF vars
<1> QED
  BY <1>1, <1>2, <1>3, <1>4, <1>5, <1>6, <1>7, <1>8, <1>9, <1>10, <1>11, <1>12,
     <1>13, <1>14, <1>15 DEF Next

--------------------------------------------------------------------------------
\* The steps that touch the pool: a timer leaves it for a call, or comes back.
LEMMA ConservedGetTimeout ==
    ASSUME TypeOK, HoldsByPhase, Conserved, NEW c \in Callers, GetTimeoutTimer(c)
    PROVE  Conserved'
<1>1. PICK t \in Timers : TP!Get(t) /\ tmo' = [tmo EXCEPT ![c] = t]
  BY DEF GetTimeoutTimer
<1>2. /\ t \in pool /\ pool' = pool \ {t} /\ wt' = wt
      /\ Timers' = Timers /\ tmo[c] = NoTimer /\ t # NoTimer
  BY <1>1, TimersFacts DEF TP!Get, GetTimeoutTimer, Timers, TP!Timers, PoolSize, HoldsByPhase
<1>3. tmo'[c] = t /\ \A d \in Callers \ {c} : tmo'[d] = tmo[d]
  BY <1>1 DEF TypeOK
<1>4. \A d \in Callers : tmo[d] # t /\ wt[d] # t
  BY <1>2 DEF Conserved
<1>5. ASSUME NEW u \in Timers
      PROVE  u \in pool' \/ \E d \in Callers : tmo'[d] = u \/ wt'[d] = u
  <2>1. CASE u = t
    BY <1>3, <2>1
  <2>2. CASE u # t /\ u \in pool
    BY <1>2, <2>2
  <2>3. CASE u # t /\ u \notin pool
    <3>1. PICK d \in Callers : tmo[d] = u \/ wt[d] = u
      BY <2>3 DEF Conserved
    <3> QED BY <1>2, <1>3, <3>1, TimersFacts
  <2> QED BY <2>1, <2>2, <2>3
<1>6. ASSUME NEW d \in Callers
      PROVE  /\ tmo'[d] \notin pool' /\ wt'[d] \notin pool'
             /\ tmo'[d] = wt'[d] => tmo'[d] = NoTimer
  BY <1>2, <1>3, <1>4 DEF Conserved
<1>7. ASSUME NEW d \in Callers, NEW f \in Callers \ {d}
      PROVE  /\ tmo'[d] = tmo'[f] => tmo'[d] = NoTimer
             /\ wt'[d] = wt'[f] => wt'[d] = NoTimer
             /\ tmo'[d] = wt'[f] => tmo'[d] = NoTimer
  BY <1>2, <1>3, <1>4 DEF Conserved
<1> QED BY <1>2, <1>5, <1>6, <1>7 DEF Conserved

\* waitRetry takes the second timer of a call.
LEMMA ConservedGetRetry ==
    ASSUME TypeOK, HoldsByPhase, Conserved, NEW c \in Callers, GetRetryTimer(c)
    PROVE  Conserved'
<1>1. PICK t \in Timers : TP!Get(t) /\ wt' = [wt EXCEPT ![c] = t]
  BY DEF GetRetryTimer
<1>2. /\ t \in pool /\ pool' = pool \ {t} /\ tmo' = tmo
      /\ Timers' = Timers /\ wt[c] = NoTimer /\ t # NoTimer
  BY <1>1, TimersFacts DEF TP!Get, GetRetryTimer, Timers, TP!Timers, PoolSize, HoldsByPhase
<1>3. wt'[c] = t /\ \A d \in Callers \ {c} : wt'[d] = wt[d]
  BY <1>1 DEF TypeOK
<1>4. \A d \in Callers : tmo[d] # t /\ wt[d] # t
  BY <1>2 DEF Conserved
<1>5. ASSUME NEW u \in Timers
      PROVE  u \in pool' \/ \E d \in Callers : tmo'[d] = u \/ wt'[d] = u
  <2>1. CASE u = t
    BY <1>3, <2>1
  <2>2. CASE u # t /\ u \in pool
    BY <1>2, <2>2
  <2>3. CASE u # t /\ u \notin pool
    <3>1. PICK d \in Callers : tmo[d] = u \/ wt[d] = u
      BY <2>3 DEF Conserved
    <3> QED BY <1>2, <1>3, <3>1, TimersFacts
  <2> QED BY <2>1, <2>2, <2>3
<1>6. ASSUME NEW d \in Callers
      PROVE  /\ tmo'[d] \notin pool' /\ wt'[d] \notin pool'
             /\ tmo'[d] = wt'[d] => tmo'[d] = NoTimer
  BY <1>2, <1>3, <1>4 DEF Conserved
<1>7. ASSUME NEW d \in Callers, NEW f \in Callers \ {d}
      PROVE  /\ tmo'[d] = tmo'[f] => tmo'[d] = NoTimer
             /\ wt'[d] = wt'[f] => wt'[d] = NoTimer
             /\ tmo'[d] = wt'[f] => tmo'[d] = NoTimer
  BY <1>2, <1>3, <1>4 DEF Conserved
<1> QED BY <1>2, <1>5, <1>6, <1>7 DEF Conserved

\* The deferred Put of waitRetry.
LEMMA ConservedPutRetry ==
    ASSUME TypeOK, HoldsByPhase, Conserved, NEW c \in Callers, pc[c] = "backoff",
           TP!Put(wt[c]), wt' = [wt EXCEPT ![c] = NoTimer], tmo' = tmo
    PROVE  Conserved'
<1>1. wt[c] \in Timers /\ wt[c] \notin pool /\ NoTimer \notin pool
  BY TimersFacts DEF HoldsByPhase, Conserved, TypeOK, TP!TimerPoolTypeOK, Timers
<1>2. pool' = pool \cup {wt[c]}
  BY <1>1, PutKeepsTimer DEF TP!Put
<1>3. Timers' = Timers /\ NoTimer \notin Timers
  BY TimersFacts DEF Timers, TP!Timers, PoolSize
<1> QED BY <1>1, <1>2, <1>3 DEF TypeOK, Conserved

\* The deferred Put of Do and DoWithContext, if a timer was taken.
LEMMA ConservedReturn ==
    ASSUME TypeOK, HoldsByPhase, Conserved, NEW c \in Callers, Return(c)
    PROVE  Conserved'
<1>1. Timers' = Timers /\ NoTimer \notin Timers /\ NoTimer \notin pool
  BY TimersFacts DEF TypeOK, TP!TimerPoolTypeOK, Timers, TP!Timers, PoolSize
<1>2. tmo' = [tmo EXCEPT ![c] = NoTimer] /\ wt' = wt
  BY DEF Return
<1>3. CASE tmo[c] = NoTimer
  <2>1. tmo' = tmo /\ pool' = pool
    BY <1>2, <1>3 DEF Return, TypeOK
  <2> QED BY <2>1, <1>1, <1>2 DEF Conserved
<1>4. CASE tmo[c] # NoTimer
  <2>1. tmo[c] \in Timers /\ tmo[c] \notin pool
    BY <1>4 DEF TypeOK, Conserved
  <2>2. pool' = pool \cup {tmo[c]}
    BY <1>4, <2>1, PutKeepsTimer DEF Return, TP!Put
  <2> QED BY <1>1, <1>2, <2>1, <2>2 DEF TypeOK, Conserved
<1> QED BY <1>3, <1>4

\* No action loses or shares a timer.
LEMMA ConservedStep == TypeOK /\ HoldsByPhase /\ Conserved /\ [Next]_vars => Conserved'
<1> SUFFICES ASSUME TypeOK, HoldsByPhase, Conserved, [Next]_vars PROVE Conserved'
  OBVIOUS
<1>1. ASSUME UNCHANGED <<pool, tmo, wt>> PROVE Conserved'
  BY <1>1 DEF Conserved, Timers, TP!Timers, PoolSize
<1>2. ASSUME NEW c \in Callers, BackoffElapsed(c) PROVE Conserved'
  BY <1>2, ConservedPutRetry DEF BackoffElapsed
<1>3. ASSUME NEW c \in Callers, NEW why \in Aborts, BackoffAborted(c, why) PROVE Conserved'
  BY <1>3, ConservedPutRetry DEF BackoffAborted
<1>4. ASSUME NEW t \in Timers, Fire(t) PROVE Conserved'
  BY <1>1, <1>4 DEF Fire, TP!Fire, callVars
<1> QED
  BY <1>1, <1>2, <1>3, <1>4, ConservedGetTimeout, ConservedGetRetry, ConservedReturn
     DEF Next, vars, Start, StartRefused, FuncReturns, WorkerReturns, AttemptResult,
         AttemptAborted, CancelCtx, Cancel, callVars
--------------------------------------------------------------------------------
\* The result of one call, the body of TraceExplainsResult.
Explained(c) ==
    pc[c] = "return" =>
       \/ last[c] = "refused" /\ trace[c] = <<>>
       \/ last[c] = "nil" /\ trace[c] = Temps(attempt[c])
       \/ last[c] = "perm" /\ trace[c] = Append(Temps(attempt[c]), "perm")
       \/ /\ last[c] = "temp" /\ attempt[c] = MaxRetries
          /\ trace[c] = Append(Temps(MaxRetries + 1), "max")
       \/ last[c] \in Aborts /\ trace[c] = Temps(attempt[c] + 1)
       \/ /\ last[c] \in Aborts /\ mode[c] = "DoWithContext"
          /\ trace[c] = Temps(attempt[c])

\* The trace of one call, the body of TraceByPhase.
Recorded(c) ==
    /\ pc[c] \in {"idle", "init"} => attempt[c] = 0 /\ trace[c] = <<>>
    /\ pc[c] = "attempt" => trace[c] = Temps(attempt[c])
    /\ pc[c] \in {"getRetry", "backoff"} =>
          attempt[c] < MaxRetries /\ trace[c] = Temps(attempt[c] + 1)

\* What the end of an attempt records explains the result.
LEMMA HandleTrace ==
    ASSUME TypeOK, NEW c \in Callers, Recorded(c), NEW r \in Results,
           pc[c] = "attempt", Handle(c, r), attempt' = attempt
    PROVE  Recorded(c)' /\ Explained(c)'
<1>1. /\ trace[c] = Temps(attempt[c]) /\ attempt[c] \in Nat /\ attempt[c] <= MaxRetries
      /\ attempt'[c] = attempt[c]
  BY MaxRetriesAssumption DEF Recorded, TypeOK
<1>2. Append(trace[c], "temp") = Temps(attempt[c] + 1)
  BY <1>1, TempsFacts
<1>3. CASE r = "nil"
  <2>1. pc'[c] = "return" /\ last'[c] = "nil" /\ trace'[c] = trace[c]
    BY <1>3 DEF Handle, TypeOK
  <2> QED BY <1>1, <2>1 DEF Recorded, Explained, Temps
<1>4. CASE r = "perm"
  <2>1. pc'[c] = "return" /\ last'[c] = "perm" /\ trace'[c] = Append(trace[c], "perm")
    BY <1>4 DEF Handle, TypeOK
  <2> QED BY <1>1, <2>1 DEF Recorded, Explained, Temps
<1>5. CASE r = "temp" /\ attempt[c] = MaxRetries
  <2>1. /\ pc'[c] = "return" /\ last'[c] = "temp"
        /\ trace'[c] = Append(Append(trace[c], "temp"), "max")
    BY <1>5 DEF Handle, TypeOK, Exhausted
  <2>2. trace'[c] = Append(Temps(MaxRetries + 1), "max")
    BY <1>2, <1>5, <2>1
  <2> QED BY <1>1, <1>5, <2>1, <2>2 DEF Recorded, Explained, Temps
<1>6. CASE r = "temp" /\ attempt[c] # MaxRetries
  <2>1. pc'[c] = "getRetry" /\ trace'[c] = Append(trace[c], "temp")
    BY <1>6 DEF Handle, TypeOK, Exhausted
  <2>2. attempt[c] < MaxRetries
    BY <1>1, <1>6, MaxRetriesAssumption
  <2> QED BY <1>1, <1>2, <2>1, <2>2 DEF Recorded, Explained, Temps
<1> QED BY <1>3, <1>4, <1>5, <1>6 DEF Results, Failures

\* The trace of a call follows its attempts, and explains its result.
LEMMA TraceStep ==
    TypeOK /\ TraceByPhase /\ TraceExplainsResult /\ [Next]_vars
       => TraceByPhase' /\ TraceExplainsResult'
<1> DEFINE Good(d) == Recorded(d) /\ Explained(d)
<1> SUFFICES ASSUME TypeOK, \A d \in Callers : Good(d), [Next]_vars
             PROVE  \A d \in Callers : Good(d)'
  BY DEF TraceByPhase, TraceExplainsResult, Recorded, Explained
<1>1. ASSUME NEW d \in Callers,
             pc'[d] = pc[d], attempt'[d] = attempt[d], trace'[d] = trace[d],
             last'[d] = last[d], mode'[d] = mode[d]
      PROVE  Good(d)'
  BY <1>1 DEF Recorded, Explained, Temps
<1> HIDE DEF Good
<1>2. ASSUME NEW c \in Callers, Good(c)',
             \A d \in Callers \ {c} :
                /\ pc'[d] = pc[d] /\ attempt'[d] = attempt[d] /\ trace'[d] = trace[d]
                /\ last'[d] = last[d] /\ mode'[d] = mode[d]
      PROVE  \A d \in Callers : Good(d)'
  BY <1>1, <1>2
<1>3. ASSUME UNCHANGED <<pc, attempt, trace, last, mode>> PROVE \A d \in Callers : Good(d)'
  BY <1>1, <1>3
<1>4. ASSUME NEW c \in Callers, NEW m \in Modes[c], Start(c, m) PROVE \A d \in Callers : Good(d)'
  <2>1. Good(c)'
    BY <1>4 DEF Good, Start, TypeOK, Recorded, Explained
  <2> QED BY <1>2, <1>4, <2>1 DEF Start, TypeOK
<1>5. ASSUME NEW c \in Callers, NEW m \in Modes[c], StartRefused(c, m) PROVE \A d \in Callers : Good(d)'
  <2>1. Good(c)'
    BY <1>5 DEF Good, StartRefused, TypeOK, Recorded, Explained
  <2> QED BY <1>2, <1>5, <2>1 DEF StartRefused, TypeOK
<1>6. ASSUME NEW c \in Callers, GetTimeoutTimer(c) PROVE \A d \in Callers : Good(d)'
  <2>1. Good(c)'
    BY <1>6, TempsFacts DEF Good, GetTimeoutTimer, TypeOK, Recorded, Explained, Temps
  <2> QED BY <1>2, <1>6, <2>1 DEF GetTimeoutTimer, TypeOK
<1>7. ASSUME NEW c \in Callers, NEW r \in Results, FuncReturns(c, r) PROVE \A d \in Callers : Good(d)'
  <2>1. Good(c)'
    BY <1>7, HandleTrace DEF Good, FuncReturns
  <2> QED BY <1>2, <1>7, <2>1 DEF FuncReturns, Handle, TypeOK
<1>8. ASSUME NEW c \in Callers, AttemptResult(c) PROVE \A d \in Callers : Good(d)'
  <2>1. Good(c)'
    BY <1>8, HandleTrace DEF Good, AttemptResult
  <2> QED BY <1>2, <1>8, <2>1 DEF AttemptResult, Handle, TypeOK
<1>9. ASSUME NEW c \in Callers, NEW why \in Aborts, AttemptAborted(c, why)
      PROVE  \A d \in Callers : Good(d)'
  <2>1. Good(c)'
    BY <1>9 DEF Good, AttemptAborted, TypeOK, Recorded, Explained, Temps
  <2> QED BY <1>2, <1>9, <2>1 DEF AttemptAborted, TypeOK
<1>10. ASSUME NEW c \in Callers, GetRetryTimer(c) PROVE \A d \in Callers : Good(d)'
  <2>1. Good(c)'
    BY <1>10 DEF Good, GetRetryTimer, TypeOK, Recorded, Explained, Temps
  <2> QED BY <1>2, <1>10, <2>1 DEF GetRetryTimer, TypeOK
<1>11. ASSUME NEW c \in Callers, BackoffElapsed(c) PROVE \A d \in Callers : Good(d)'
  <2>1. Good(c)'
    BY <1>11 DEF Good, BackoffElapsed, TypeOK, Recorded, Explained, Temps
  <2> QED BY <1>2, <1>11, <2>1 DEF BackoffElapsed, TypeOK
<1>12. ASSUME NEW c \in Callers, NEW why \in Aborts, BackoffAborted(c, why)
       PROVE  \A d \in Callers : Good(d)'
  <2>1. Good(c)'
    BY <1>12 DEF Good, BackoffAborted, TypeOK, Recorded, Explained, Temps
  <2> QED BY <1>2, <1>12, <2>1 DEF BackoffAborted, TypeOK
<1>13. ASSUME NEW c \in Callers, Return(c) PROVE \A d \in Callers : Good(d)'
  <2>1. Good(c)'
    BY <1>13 DEF Good, Return, TypeOK, Recorded, Explained
  <2> QED BY <1>2, <1>13, <2>1 DEF Return, TypeOK
<1> QED
  BY <1>3, <1>4, <1>5, <1>6, <1>7, <1>8, <1>9, <1>10, <1>11, <1>12, <1>13
     DEF Next, vars, WorkerReturns, CancelCtx, Cancel, Fire, callVars

--------------------------------------------------------------------------------
\* IInv, which the theorems below project from, is an invariant of the Retrier.
THEOREM Inductive == Spec => []IInv
<1>1. Init => IInv
  BY InitIInv
<1>2. IInv /\ [Next]_vars => IInv'
  BY TypeOKStep, HoldsByPhaseStep, ConservedStep, TraceStep DEF IInv
<1> QED BY <1>1, <1>2, PTL DEF Spec

\* The variables of the Retrier keep their types, with any number of callers and
\* retries; in particular the loops make at most MaxRetries + 1 attempts.
THEOREM TypeCorrect == Spec => []TypeOK
<1>1. IInv => TypeOK
  BY DEF IInv
<1> QED BY <1>1, Inductive, PTL

\* Get and Put of the timer pool neither lose nor share a timer.
THEOREM TimersConserved == Spec => []TimerConservation
<1>1. ASSUME IInv PROVE TimerConservation
  <2>1. pool \subseteq Timers
    BY <1>1 DEF IInv, TypeOK, TP!TimerPoolTypeOK, Timers
  <2>2. pool \cup UNION {Held(c) : c \in Callers} \subseteq Timers
    BY <1>1, <2>1 DEF IInv, TypeOK, Held
  <2>3. ASSUME NEW t \in Timers PROVE t \in pool \cup UNION {Held(c) : c \in Callers}
    <3>1. CASE t \in pool
      BY <3>1
    <3>2. CASE t \notin pool
      <4>1. PICK c \in Callers : tmo[c] = t \/ wt[c] = t
        BY <1>1, <3>2 DEF IInv, Conserved
      <4>2. t \in Held(c)
        BY <4>1, TimersFacts DEF Held
      <4> QED BY <4>2
    <3> QED BY <3>1, <3>2
  <2>4. \A c \in Callers : Held(c) \cap pool = {}
    BY <1>1 DEF IInv, Conserved, Held
  <2>5. \A c \in Callers : tmo[c] = wt[c] => tmo[c] = NoTimer
    BY <1>1 DEF IInv, Conserved
  <2>6. ASSUME NEW c \in Callers, NEW d \in Callers \ {c} PROVE Held(c) \cap Held(d) = {}
    <3>1. /\ tmo[c] = tmo[d] => tmo[c] = NoTimer
          /\ wt[c] = wt[d] => wt[c] = NoTimer
          /\ tmo[c] = wt[d] => tmo[c] = NoTimer
          /\ tmo[d] = wt[c] => tmo[d] = NoTimer
      BY <1>1 DEF IInv, Conserved
    <3> QED BY <3>1 DEF Held
  <2> QED BY <2>2, <2>3, <2>4, <2>5, <2>6 DEF TimerConservation
<1> QED BY <1>1, Inductive, PTL

\* With at most MaxRetries callers, two timers have the same holder.
LEMMA FewCallersShare ==
    ASSUME Cardinality(Callers) <= MaxRetries, NEW f \in [Timers -> Callers]
    PROVE  \E x, y \in Timers : x # y /\ f[x] = f[y]
<1>1. Cardinality(Callers) \in Nat
  BY CallersAssumption, FS_CardinalityType
<1>2. Cardinality(Callers) < Cardinality(Timers)
  BY <1>1, TimersFacts, MaxRetriesAssumption
<1>3. IsFiniteSet(Timers) /\ IsFiniteSet(Callers)
  BY TimersFacts, CallersAssumption
<1> HIDE DEF Timers
<1> QED BY ONLY <1>2, <1>3, f \in [Timers -> Callers], FS_PigeonHole

\* With at most MaxRetries callers the blocking Get of waitRetry never waits for
\* a timer that nobody will bring back: a pool whose timers all serve as overall
\* timeouts would need a caller for each of its MaxRetries + 1 timers.
THEOREM TimerDeadlockFree == Spec => []NoTimerDeadlock
<1>1. ASSUME IInv PROVE NoTimerDeadlock
  <2> SUFFICES ASSUME Cardinality(Callers) <= MaxRetries, pool = {},
                      \A c \in Callers : wt[c] = NoTimer
               PROVE  FALSE
    BY DEF NoTimerDeadlock
  <2> DEFINE holder == [t \in Timers |-> CHOOSE c \in Callers : tmo[c] = t]
  <2>1. \A t \in Timers : \E c \in Callers : tmo[c] = t
    BY <1>1, TimersFacts DEF IInv, Conserved
  <2>2. \A t \in Timers : holder[t] \in Callers /\ tmo[holder[t]] = t
    BY <2>1
  <2>3. holder \in [Timers -> Callers]
    BY <2>2
  <2> HIDE DEF holder
  <2>5. \E x, y \in Timers : x # y /\ holder[x] = holder[y]
    BY <2>3, FewCallersShare
  <2> QED BY <2>2, <2>5
<1> QED BY <1>1, Inductive, PTL

\* The Errors that Do and DoWithContext return say how the call went.
THEOREM ErrorsExplained == Spec => []TraceExplainsResult
<1>1. IInv => TraceExplainsResult
  BY DEF IInv
<1> QED BY <1>1, Inductive, PTL

--------------------------------------------------------------------------------
(***************************************************************************)
(* DoWithContext implements RetryCalls, with any number of callers, of     *)
(* either method, and any number of retries.                               *)
(***************************************************************************)
\* What the goroutine of an attempt may be doing follows from where its call is.
WorkerByPhase ==
    \A c \in Callers :
       /\ pc[c] = "idle" => mode[c] = "Do"
       /\ mode[c] = "DoWithContext" /\ pc[c] = "attempt" => worker[c] \in Results \cup {"running"}
       /\ mode[c] = "DoWithContext" /\ pc[c] \in {"init", "getRetry", "backoff"} => worker[c] = "none"
       /\ mode[c] = "Do" \/ pc[c] = "return" => worker[c] \in {"none", "orphan"}

\* Only a call of DoWithContext that makes an attempt has one running.
LEMMA WorkerByPhaseStep == TypeOK /\ WorkerByPhase /\ [Next]_vars => WorkerByPhase'
<1> SUFFICES ASSUME TypeOK, WorkerByPhase, [Next]_vars PROVE WorkerByPhase'
  OBVIOUS
<1> USE DEF TypeOK, WorkerByPhase, Phases, Results, Failures
<1>1. ASSUME NEW c \in Callers, NEW m \in Modes[c], Start(c, m) PROVE WorkerByPhase'
  BY <1>1, ModesAssumption DEF Start
<1>2. ASSUME NEW c \in Callers, NEW m \in Modes[c], StartRefused(c, m) PROVE WorkerByPhase'
  BY <1>2, ModesAssumption DEF StartRefused
<1>3. ASSUME NEW c \in Callers, GetTimeoutTimer(c) PROVE WorkerByPhase'
  BY <1>3 DEF GetTimeoutTimer, Spawned
<1>4. ASSUME NEW c \in Callers, NEW r \in Results, FuncReturns(c, r) PROVE WorkerByPhase'
  BY <1>4 DEF FuncReturns, Handle
<1>5. ASSUME NEW c \in Callers, NEW r \in Results, WorkerReturns(c, r) PROVE WorkerByPhase'
  BY <1>5 DEF WorkerReturns
<1>6. ASSUME NEW c \in Callers, AttemptResult(c) PROVE WorkerByPhase'
  BY <1>6 DEF AttemptResult, Handle
<1>7. ASSUME NEW c \in Callers, NEW why \in Aborts, AttemptAborted(c, why) PROVE WorkerByPhase'
  BY <1>7 DEF AttemptAborted
<1>8. ASSUME NEW c \in Callers, GetRetryTimer(c) PROVE WorkerByPhase'
  BY <1>8 DEF GetRetryTimer
<1>9. ASSUME NEW c \in Callers, BackoffElapsed(c) PROVE WorkerByPhase'
  BY <1>9 DEF BackoffElapsed, Spawned
<1>10. ASSUME NEW c \in Callers, NEW why \in Aborts, BackoffAborted(c, why) PROVE WorkerByPhase'
  BY <1>10 DEF BackoffAborted
<1>11. ASSUME NEW c \in Callers, Return(c) PROVE WorkerByPhase'
  BY <1>11 DEF Return
<1>12. ASSUME UNCHANGED <<pc, mode, worker>> PROVE WorkerByPhase'
  BY <1>12
<1> QED
  BY <1>1, <1>2, <1>3, <1>4, <1>5, <1>6, <1>7, <1>8, <1>9, <1>10, <1>11, <1>12
     DEF Next, vars, CancelCtx, Cancel, Fire, callVars

--------------------------------------------------------------------------------
(***************************************************************************)
(* A call as RetryCalls sees it                                            *)
(***************************************************************************)
Attempt(c) == IF mode[c] = "Do" THEN 0 ELSE attempt[c]
Worker(c)  == IF worker[c] \in Results THEN "ready" ELSE worker[c]
Outcome(c) == IF RetryPhase(c) = "done" THEN last[c] ELSE "nil"

\* The phases of a call, one by one.
LEMMA RetryPhases ==
    \A c \in Callers :
       /\ mode[c] = "Do" => RetryPhase(c) = "idle"
       /\ mode[c] # "Do" =>
             /\ pc[c] \in {"idle", "init"} => RetryPhase(c) = "idle"
             /\ pc[c] = "attempt" => RetryPhase(c) = "attempt"
             /\ pc[c] \in {"getRetry", "backoff"} => RetryPhase(c) = "wait"
             /\ pc[c] = "return" => RetryPhase(c) = "done"
BY DEF RetryPhase

\* The same in the state after a step.
LEMMA RetryPhasesNext ==
    \A c \in Callers :
       /\ mode'[c] = "Do" => RetryPhase(c)' = "idle"
       /\ mode'[c] # "Do" =>
             /\ pc'[c] \in {"idle", "init"} => RetryPhase(c)' = "idle"
             /\ pc'[c] = "attempt" => RetryPhase(c)' = "attempt"
             /\ pc'[c] \in {"getRetry", "backoff"} => RetryPhase(c)' = "wait"
             /\ pc'[c] = "return" => RetryPhase(c)' = "done"
BY DEF RetryPhase

\* A caller that RetryCalls does not see move.
Still(d) ==
    /\ RetryPhase(d)' = RetryPhase(d) /\ Attempt(d)' = Attempt(d)
    /\ Worker(d)' = Worker(d) /\ Outcome(d)' = Outcome(d)

\* When no caller moves, RetryCalls stutters.
LEMMA Stutter ==
    ASSUME \A d \in Callers : Still(d)
    PROVE  UNCHANGED RC!retryVars
BY DEF Still, RC!retryVars, Attempt, Worker, Outcome

\* The actions of RetryCalls, in terms of the one caller that moves.
LEMMA MoveBegin ==
    ASSUME NEW c \in Callers, \A d \in Callers \ {c} : Still(d),
           RetryPhase(c) = "idle", Worker(c) = "none",
           RetryPhase(c)' = "attempt", Worker(c)' = "running",
           Attempt(c)' = Attempt(c), Outcome(c)' = Outcome(c)
    PROVE  RC!Next
<1>1. RC!Begin(c)
  BY DEF Still, RC!Begin, Attempt, Worker, Outcome
<1> QED BY <1>1 DEF RC!Next

\* A call with a nil function.
LEMMA MoveRefuse ==
    ASSUME NEW c \in Callers, \A d \in Callers \ {c} : Still(d),
           RetryPhase(c) = "idle", RetryPhase(c)' = "done", Outcome(c)' = "refused",
           Attempt(c)' = Attempt(c), Worker(c)' = Worker(c)
    PROVE  RC!Next
<1>1. RC!Refuse(c)
  BY DEF Still, RC!Refuse, Attempt, Worker, Outcome
<1> QED BY <1>1 DEF RC!Next

\* An attempt ends, waited for or not.
LEMMA MoveFinish ==
    ASSUME NEW c \in Callers, \A d \in Callers \ {c} : Still(d),
           \/ Worker(c) = "running" /\ Worker(c)' = "ready"
           \/ Worker(c) = "orphan" /\ Worker(c)' = "none",
           RetryPhase(c)' = RetryPhase(c), Attempt(c)' = Attempt(c), Outcome(c)' = Outcome(c)
    PROVE  RC!Next
<1>1. RC!Finish(c)
  BY DEF Still, RC!Finish, Attempt, Worker, Outcome
<1> QED BY <1>1 DEF RC!Next

\* Its result is received.
LEMMA MoveReceive ==
    ASSUME NEW c \in Callers, \A d \in Callers \ {c} : Still(d), NEW r \in Results,
           RetryPhase(c) = "attempt", Worker(c) = "ready", Worker(c)' = "none",
           Attempt(c)' = Attempt(c),
           IF r = "temp" /\ Attempt(c) < MaxRetries
           THEN RetryPhase(c)' = "wait" /\ Outcome(c)' = Outcome(c)
           ELSE RetryPhase(c)' = "done" /\ Outcome(c)' = r
    PROVE  RC!Next
<1>1. RC!Receive(c, r)
  BY DEF Still, RC!Receive, Attempt, Worker, Outcome
<1> QED BY <1>1 DEF RC!Next, RC!AttemptResults, Results, Failures

\* The next attempt.
LEMMA MoveAgain ==
    ASSUME NEW c \in Callers, \A d \in Callers \ {c} : Still(d),
           RetryPhase(c) = "wait", Worker(c) = "none", Attempt(c) < MaxRetries,
           RetryPhase(c)' = "attempt", Worker(c)' = "running",
           Attempt(c)' = Attempt(c) + 1, Outcome(c)' = Outcome(c)
    PROVE  RC!Next
<1>1. RC!Again(c)
  BY DEF Still, RC!Again, Attempt, Worker, Outcome
<1> QED BY <1>1 DEF RC!Next

\* A call that gives up.
LEMMA MoveAbort ==
    ASSUME NEW c \in Callers, \A d \in Callers \ {c} : Still(d), NEW why \in Aborts,
           RetryPhase(c) \in {"attempt", "wait"}, RetryPhase(c)' = "done", Outcome(c)' = why,
           Worker(c)' = (IF Worker(c) = "running" THEN "orphan" ELSE "none"),
           Attempt(c)' = Attempt(c)
    PROVE  RC!Next
<1>1. RC!Abort(c, why)
  BY DEF Still, RC!Abort, Attempt, Worker, Outcome
<1> QED BY <1>1 DEF RC!Next, RC!AbortReasons, Aborts

\* A call that returns.
LEMMA MoveReturn ==
    ASSUME NEW c \in Callers, \A d \in Callers \ {c} : Still(d),
           RetryPhase(c) = "done", RetryPhase(c)' = "idle", Attempt(c)' = 0,
           Outcome(c)' = "nil", Worker(c)' = Worker(c)
    PROVE  RC!Next
<1>1. RC!Return(c)
  BY DEF Still, RC!Return, Attempt, Worker, Outcome
<1> QED BY <1>1 DEF RC!Next

--------------------------------------------------------------------------------
\* Whoever keeps his place in the code, his method, attempt, worker and result stands still.
LEMMA Unmoved ==
    ASSUME NEW d, pc'[d] = pc[d], mode'[d] = mode[d], attempt'[d] = attempt[d],
           worker'[d] = worker[d], last'[d] = last[d]
    PROVE  Still(d)
BY DEF Still, RetryPhase, Attempt, Worker, Outcome

\* Every step of the Retrier is a step of RetryCalls or changes nothing that it shows.
LEMMA RefinementStep ==
    ASSUME TypeOK, TraceByPhase, WorkerByPhase, [Next]_vars
    PROVE  [RC!Next]_(RC!retryVars)
<1> DEFINE Goal == RC!Next \/ UNCHANGED RC!retryVars
<1> SUFFICES Goal
  OBVIOUS
<1> USE DEF Phases, Results, Failures
<1>0. ASSUME NEW c \in Callers, Still(c), \A d \in Callers \ {c} : Still(d) PROVE Goal
  BY <1>0, Stutter
<1> HIDE DEF Goal
<1>1. ASSUME NEW c \in Callers, NEW m \in Modes[c], Start(c, m) PROVE Goal
  <2>1. \A d \in Callers \ {c} : Still(d)
    BY <1>1, Unmoved DEF Start, TypeOK
  <2>2. /\ pc[c] = "idle" /\ pc'[c] = "init" /\ attempt[c] = 0 /\ mode[c] = "Do"
        /\ attempt'[c] = attempt[c] /\ worker'[c] = worker[c]
    BY <1>1 DEF Start, TypeOK, TraceByPhase, WorkerByPhase
  <2>3. Still(c)
    BY <2>2, RetryPhases, RetryPhasesNext DEF Still, Attempt, Worker, Outcome
  <2> QED BY <1>0, <2>1, <2>3
<1>2. ASSUME NEW c \in Callers, NEW m \in Modes[c], StartRefused(c, m) PROVE Goal
  <2>1. \A d \in Callers \ {c} : Still(d)
    BY <1>2, Unmoved DEF StartRefused, TypeOK
  <2>2. /\ pc[c] = "idle" /\ pc'[c] = "return" /\ mode[c] = "Do" /\ mode'[c] = m
        /\ m \in {"Do", "DoWithContext"} /\ last'[c] = "refused"
        /\ attempt[c] = 0 /\ attempt'[c] = attempt[c] /\ worker'[c] = worker[c]
    BY <1>2, ModesAssumption DEF StartRefused, TypeOK, TraceByPhase, WorkerByPhase
  <2>3. CASE m = "Do"
    <3>1. Still(c)
      BY <2>2, <2>3, RetryPhases, RetryPhasesNext DEF Still, Attempt, Worker, Outcome
    <3> QED BY <1>0, <2>1, <3>1
  <2>4. CASE m = "DoWithContext"
    <3>1. /\ RetryPhase(c) = "idle" /\ RetryPhase(c)' = "done" /\ Outcome(c)' = "refused"
          /\ Attempt(c)' = Attempt(c) /\ Worker(c)' = Worker(c)
      BY <2>2, <2>4, RetryPhases, RetryPhasesNext DEF Attempt, Worker, Outcome
    <3> QED BY <2>1, <3>1, MoveRefuse DEF Goal
  <2> QED BY <2>2, <2>3, <2>4
<1>3. ASSUME NEW c \in Callers, GetTimeoutTimer(c) PROVE Goal
  <2>1. \A d \in Callers \ {c} : Still(d)
    BY <1>3, Unmoved DEF GetTimeoutTimer, Spawned, TypeOK
  <2>2. /\ pc[c] = "init" /\ pc'[c] = "attempt" /\ mode'[c] = mode[c]
        /\ attempt'[c] = attempt[c] /\ last'[c] = last[c]
        /\ mode[c] = "Do" => worker'[c] = worker[c]
        /\ mode[c] # "Do" => worker[c] = "none" /\ worker'[c] = "running"
    BY <1>3 DEF GetTimeoutTimer, Spawned, TypeOK, WorkerByPhase
  <2>3. CASE mode[c] = "Do"
    <3>1. Still(c)
      BY <2>2, <2>3, RetryPhases, RetryPhasesNext DEF Still, Attempt, Worker, Outcome
    <3> QED BY <1>0, <2>1, <3>1
  <2>4. CASE mode[c] # "Do"
    <3>1. /\ RetryPhase(c) = "idle" /\ Worker(c) = "none"
          /\ RetryPhase(c)' = "attempt" /\ Worker(c)' = "running"
          /\ Attempt(c)' = Attempt(c) /\ Outcome(c)' = Outcome(c)
      BY <2>2, <2>4, RetryPhases, RetryPhasesNext DEF Attempt, Worker, Outcome
    <3> QED BY <2>1, <3>1, MoveBegin DEF Goal
  <2> QED BY <2>3, <2>4
<1>4. ASSUME NEW c \in Callers, NEW r \in Results, FuncReturns(c, r) PROVE Goal
  <2>1. \A d \in Callers \ {c} : Still(d)
    BY <1>4, Unmoved DEF FuncReturns, Handle, TypeOK
  <2>2. mode[c] = "Do" /\ mode' = mode /\ worker' = worker
    BY <1>4 DEF FuncReturns
  <2>3. Still(c)
    BY <2>2, RetryPhases, RetryPhasesNext DEF Still, Attempt, Worker, Outcome
  <2> QED BY <1>0, <2>1, <2>3
<1>5. ASSUME NEW c \in Callers, NEW r \in Results, WorkerReturns(c, r) PROVE Goal
  <2>1. \A d \in Callers \ {c} : Still(d)
    BY <1>5, Unmoved DEF WorkerReturns, TypeOK
  <2>2. /\ RetryPhase(c)' = RetryPhase(c) /\ Attempt(c)' = Attempt(c)
        /\ Outcome(c)' = Outcome(c)
    BY <1>5 DEF WorkerReturns, RetryPhase, Attempt, Outcome
  <2>3. \/ Worker(c) = "running" /\ Worker(c)' = "ready"
        \/ Worker(c) = "orphan" /\ Worker(c)' = "none"
    BY <1>5 DEF WorkerReturns, Worker, TypeOK
  <2> QED BY <2>1, <2>2, <2>3, MoveFinish DEF Goal
<1>6. ASSUME NEW c \in Callers, AttemptResult(c) PROVE Goal
  <2>1. \A d \in Callers \ {c} : Still(d)
    BY <1>6, Unmoved DEF AttemptResult, Handle, TypeOK
  <2> DEFINE r == worker[c]
  <2>2. /\ pc[c] = "attempt" /\ mode[c] = "DoWithContext" /\ mode' = mode
        /\ attempt' = attempt /\ r \in Results /\ worker'[c] = "none"
        /\ attempt[c] \in 0 .. MaxRetries
    BY <1>6 DEF AttemptResult, TypeOK
  <2>3. IF r = "temp" /\ attempt[c] < MaxRetries
        THEN pc'[c] = "getRetry"
        ELSE pc'[c] = "return" /\ last'[c] = r
    BY <1>6, <2>2, MaxRetriesAssumption DEF AttemptResult, Handle, Exhausted, TypeOK
  <2>4. /\ RetryPhase(c) = "attempt" /\ Worker(c) = "ready" /\ Worker(c)' = "none"
        /\ Attempt(c)' = Attempt(c) /\ Attempt(c) = attempt[c] /\ Outcome(c) = "nil"
    BY <2>2, RetryPhases DEF Attempt, Worker, Outcome
  <2>5. IF r = "temp" /\ Attempt(c) < MaxRetries
        THEN RetryPhase(c)' = "wait" /\ Outcome(c)' = Outcome(c)
        ELSE RetryPhase(c)' = "done" /\ Outcome(c)' = r
    BY <2>2, <2>3, <2>4, RetryPhasesNext DEF Outcome
  <2> HIDE DEF r
  <2> QED BY <2>1, <2>2, <2>4, <2>5, MoveReceive DEF Goal
<1>7. ASSUME NEW c \in Callers, NEW why \in Aborts, AttemptAborted(c, why) PROVE Goal
  <2>1. \A d \in Callers \ {c} : Still(d)
    BY <1>7, Unmoved DEF AttemptAborted, TypeOK
  <2>2. /\ pc[c] = "attempt" /\ mode[c] = "DoWithContext" /\ mode' = mode
        /\ attempt' = attempt /\ pc'[c] = "return" /\ last'[c] = why
        /\ worker'[c] = IF worker[c] = "running" THEN "orphan" ELSE "none"
    BY <1>7 DEF AttemptAborted, TypeOK
  <2>3. /\ RetryPhase(c) \in {"attempt", "wait"} /\ RetryPhase(c)' = "done"
        /\ Outcome(c)' = why /\ Attempt(c)' = Attempt(c)
        /\ Worker(c)' = IF Worker(c) = "running" THEN "orphan" ELSE "none"
    BY <2>2, RetryPhases, RetryPhasesNext DEF Attempt, Worker, Outcome
  <2> QED BY <2>1, <2>3, MoveAbort DEF Goal
<1>8. ASSUME NEW c \in Callers, GetRetryTimer(c) PROVE Goal
  <2>1. \A d \in Callers \ {c} : Still(d)
    BY <1>8, Unmoved DEF GetRetryTimer, TypeOK
  <2>2. /\ pc[c] = "getRetry" /\ pc'[c] = "backoff" /\ mode' = mode
        /\ attempt' = attempt /\ worker' = worker
    BY <1>8 DEF GetRetryTimer, TypeOK
  <2>3. Still(c)
    BY <2>2, RetryPhases, RetryPhasesNext DEF Still, Attempt, Worker, Outcome
  <2> QED BY <1>0, <2>1, <2>3
<1>9. ASSUME NEW c \in Callers, BackoffElapsed(c) PROVE Goal
  <2>1. \A d \in Callers \ {c} : Still(d)
    BY <1>9, Unmoved DEF BackoffElapsed, Spawned, TypeOK
  <2>2. /\ pc[c] = "backoff" /\ pc'[c] = "attempt" /\ mode' = mode
        /\ attempt[c] < MaxRetries /\ attempt'[c] = attempt[c] + 1
        /\ mode[c] = "Do" => worker'[c] = worker[c]
        /\ mode[c] # "Do" => worker[c] = "none" /\ worker'[c] = "running"
    BY <1>9 DEF BackoffElapsed, Spawned, TypeOK, TraceByPhase, WorkerByPhase
  <2>3. CASE mode[c] = "Do"
    <3>1. Still(c)
      BY <2>2, <2>3, RetryPhases, RetryPhasesNext DEF Still, Attempt, Worker, Outcome
    <3> QED BY <1>0, <2>1, <3>1
  <2>4. CASE mode[c] # "Do"
    <3>1. /\ RetryPhase(c) = "wait" /\ Worker(c) = "none" /\ Attempt(c) < MaxRetries
          /\ RetryPhase(c)' = "attempt" /\ Worker(c)' = "running"
          /\ Attempt(c)' = Attempt(c) + 1 /\ Outcome(c)' = Outcome(c)
      BY <2>2, <2>4, RetryPhases, RetryPhasesNext DEF Attempt, Worker, Outcome
    <3> QED BY <2>1, <3>1, MoveAgain DEF Goal
  <2> QED BY <2>3, <2>4
<1>10. ASSUME NEW c \in Callers, NEW why \in Aborts, BackoffAborted(c, why) PROVE Goal
  <2>1. \A d \in Callers \ {c} : Still(d)
    BY <1>10, Unmoved DEF BackoffAborted, TypeOK
  <2>2. /\ pc[c] = "backoff" /\ pc'[c] = "return" /\ mode' = mode
        /\ attempt' = attempt /\ worker' = worker /\ last'[c] = why
        /\ mode[c] # "Do" => worker[c] = "none"
    BY <1>10 DEF BackoffAborted, TypeOK, WorkerByPhase
  <2>3. CASE mode[c] = "Do"
    <3>1. Still(c)
      BY <2>2, <2>3, RetryPhases, RetryPhasesNext DEF Still, Attempt, Worker, Outcome
    <3> QED BY <1>0, <2>1, <3>1
  <2>4. CASE mode[c] # "Do"
    <3>1. /\ RetryPhase(c) \in {"attempt", "wait"} /\ RetryPhase(c)' = "done"
          /\ Outcome(c)' = why /\ Attempt(c)' = Attempt(c)
          /\ Worker(c)' = IF Worker(c) = "running" THEN "orphan" ELSE "none"
      BY <2>2, <2>4, RetryPhases, RetryPhasesNext DEF Attempt, Worker, Outcome
    <3> QED BY <2>1, <3>1, MoveAbort DEF Goal
  <2> QED BY <2>3, <2>4
<1>11. ASSUME NEW c \in Callers, Return(c) PROVE Goal
  <2>1. \A d \in Callers \ {c} : Still(d)
    BY <1>11, Unmoved DEF Return, TypeOK
  <2>2. /\ pc[c] = "return" /\ mode'[c] = "Do" /\ worker' = worker
    BY <1>11 DEF Return, TypeOK
  <2>3. CASE mode[c] = "Do"
    <3>1. Still(c)
      BY <2>2, <2>3, RetryPhases, RetryPhasesNext DEF Still, Attempt, Worker, Outcome
    <3> QED BY <1>0, <2>1, <3>1
  <2>4. CASE mode[c] # "Do"
    <3>1. /\ RetryPhase(c) = "done" /\ RetryPhase(c)' = "idle" /\ Attempt(c)' = 0
          /\ Outcome(c)' = "nil" /\ Worker(c)' = Worker(c)
      BY <2>2, <2>4, RetryPhases, RetryPhasesNext DEF Attempt, Worker, Outcome
    <3> QED BY <2>1, <3>1, MoveReturn DEF Goal
  <2> QED BY <2>3, <2>4
<1>12. ASSUME UNCHANGED <<pc, mode, attempt, worker, last>> PROVE Goal
  BY <1>12, Unmoved, Stutter DEF Goal
<1> QED
  BY <1>1, <1>2, <1>3, <1>4, <1>5, <1>6, <1>7, <1>8, <1>9, <1>10, <1>11, <1>12
     DEF Next, vars, CancelCtx, Cancel, Fire, callVars

\* A Retrier that nobody has called maps to the initial state of RetryCalls.
LEMMA RefinementInit == Init => RC!Init
BY DEF Init, RC!Init, RetryPhase, Results, Failures

\* DoWithContext keeps what RetryCalls promises, whatever the other callers of the
\* Retrier do and wherever its selects go: its attempts run one at a time, only a
\* temporary error with retries left leads to another, and only an aborted call leaves
\* an attempt behind.
THEOREM DoWithContextImplementsRetryCalls == Spec => ImplementsRetryCalls
<1>1. Init => WorkerByPhase
  BY DEF Init, WorkerByPhase
<1>2. IInv /\ WorkerByPhase /\ [Next]_vars => WorkerByPhase'
  BY WorkerByPhaseStep DEF IInv
<1>3. IInv /\ WorkerByPhase /\ [Next]_vars => [RC!Next]_(RC!retryVars)
  BY RefinementStep DEF IInv
<1> QED BY <1>1, <1>2, <1>3, RefinementInit, Inductive, PTL
        DEF Spec, ImplementsRetryCalls, RC!Spec
================================================================================
