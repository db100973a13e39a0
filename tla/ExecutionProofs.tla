---------------------------- MODULE ExecutionProofs ----------------------------
(***************************************************************************)
(* What TLAPS proves about Execution, for any number of runs and retries,  *)
(* any jobs, statuses and errors: its types, PayloadExplained,             *)
(* RetryJustified and UnRegisterSpares.                                    *)
(***************************************************************************)
EXTENDS Execution, DataInduction, SequenceTheorems

--------------------------------------------------------------------------------
(***************************************************************************)
(* The inductive invariant                                                 *)
(***************************************************************************)
Entry == [status : Statuses \cup {0}, result : Errs \cup {"nil"}]

\* The call of r has ended with the result of its last attempt.
Settled(r) == phase[r] = "done" /\ outcome[r] \in RC!AttemptResults

\* An attempt has no error exactly when it was answered with a 2xx status.
FaithfulInv(r) ==
    \A i \in 1 .. Len(log[r]) : log[r][i].result = "nil" <=> Ok(log[r][i])

\* Where the function of an attempt is, its goroutine and its response agree.
PlaceInv(r) ==
    /\ at[r] = "none" <=> worker[r] \in {"none", "ready"}
    /\ at[r] = "answered" => resp[r] \in Statuses
    /\ at[r] # "answered" => resp[r] = 0

\* The place of execute and the phase of its call agree.
PhaseInv(r) ==
    /\ pc[r] \in {"call", "list"} <=> phase[r] # "idle"
    /\ phase[r] = "idle" => attempt[r] = 0
    /\ pc[r] = "start" => worker[r] = "none" /\ log[r] = <<>>
    /\ pc[r] = "list" => /\ phase[r] = "attempt" /\ worker[r] = "ready"
                         /\ result[r] # "nil" /\ temporary[r] = <<>>
    /\ phase[r] = "attempt" => worker[r] \in {"running", "ready"}
    /\ phase[r] = "wait" => worker[r] = "none"
    /\ phase[r] \in {"idle", "done"} => worker[r] \in {"none", "orphan"}
    /\ Settled(r) => worker[r] = "none"
    /\ phase[r] # "done" => outcome[r] = "nil"
    /\ phase[r] = "done" => outcome[r] \in RC!AttemptResults \cup RC!AbortReasons \cup {"refused"}

\* The attempts that ended in the call: one for each value of the loop variable, and
\* only the last one may be a success.
LogInv(r) ==
    /\ worker[r] = "running" => Len(log[r]) = attempt[r] /\ NoneOk(log[r], Len(log[r]))
    /\ worker[r] = "ready" \/ phase[r] = "wait" => Len(log[r]) = attempt[r] + 1
    /\ worker[r] = "orphan" => Len(log[r]) <= MaxRetries
    /\ phase[r] = "wait" => NoneOk(log[r], Len(log[r]))
    /\ worker[r] = "ready" \/ Settled(r) =>
          /\ Len(log[r]) > 0
          /\ result[r] = log[r][Len(log[r])].result
          /\ NoneOk(log[r], Len(log[r]) - 1)
    /\ Settled(r) => (outcome[r] = "nil" <=> result[r] = "nil")

\* state.attempts and state.lastStatus tell of the attempts that ended, and of the
\* one that is under way, or was when the call was aborted.
CountInv(r) ==
    LET n == Len(log[r])
    IN  /\ at[r] = "enter" => attempts[r] = n /\ status[r] = Latest(log[r])
        /\ at[r] = "request" => attempts[r] = n + 1 /\ status[r] = Latest(log[r])
        /\ at[r] = "answered" => attempts[r] = n + 1 /\ status[r] = resp[r]
        /\ pc[r] = "start" \/ worker[r] = "ready" \/ phase[r] = "wait" \/ Settled(r) =>
              attempts[r] = n /\ status[r] = Latest(log[r])
        /\ \/ attempts[r] = n /\ status[r] = Latest(log[r])
           \/ attempts[r] = n + 1 /\ status[r] \in {Latest(log[r])} \cup Statuses

\* A call that was refused has made no attempt.
RefusedInv(r) ==
    phase[r] = "done" /\ outcome[r] = "refused" =>
       log[r] = <<>> /\ attempts[r] = 0 /\ status[r] = 0 /\ worker[r] = "none"

\* What PayloadExplained says of one run.
PayloadInv(r) ==
    pc[r] \in {"record", "callback", "end"} => Explained(payload[r], log[r])

RunInv(r) ==
    /\ PlaceInv(r) /\ PhaseInv(r) /\ FaithfulInv(r) /\ LogInv(r) /\ CountInv(r)
    /\ RefusedInv(r) /\ PayloadInv(r)

\* What was temporary all the time is temporary now, and what is temporary now was so at
\* some moment; the list of the call, if it has one, is a registry of the past.
HistoryInv(r) ==
    Calling(r) =>
       /\ always[r] \subseteq TemporaryFor(policy[r], storage)
       /\ TemporaryFor(policy[r], storage) \subseteq ever[r]
       /\ temporary[r] = <<>> => OwnErrors(policy[r]) = <<>>
       /\ temporary[r] # <<>> =>
             \A e \in Errs : /\ Matches(e, temporary[r]) => e \in ever[r]
                             /\ e \in always[r] => Matches(e, temporary[r])

IInv == TypeOK /\ \A r \in Runs : RunInv(r) /\ HistoryInv(r)

\* The steps that leave the lists of errors alone say so by this tuple.
USE DEF listVars

--------------------------------------------------------------------------------
(***************************************************************************)
(* The registry                                                            *)
(***************************************************************************)
\* Without removes one entry that is or wraps its target, or nothing if there is none.
LEMMA WithoutOne ==
    ASSUME NEW l \in Seq(Errs), NEW t \in Errs
    PROVE  \/ Without(l, t) = l
           \/ \E i \in 1 .. Len(l) : <<l[i], t>> \in Is /\ Without(l, t) = RemoveAt(l, i)
<1>. DEFINE I == {i \in 1 .. Len(l) : <<l[i], t>> \in Is}
<1>1. CASE I = {}
  <2>1. ~\E i \in 1 .. Len(l) : <<l[i], t>> \in Is
    BY <1>1
  <2>2. QED
    BY <2>1 DEF Without, RemoveFirstMatch
<1>2. CASE I # {}
  <2>1. I \in SUBSET Nat
    OBVIOUS
  <2>2. PICK m \in I : \A k \in I : m <= k
    BY <1>2, <2>1, LeastNatural
  <2>3. Min(I) \in I
    BY <2>2 DEF Min
  <2>4. Without(l, t) = RemoveAt(l, Min(I))
    <3>1. \E i \in 1 .. Len(l) : <<l[i], t>> \in Is
      BY <1>2
    <3>2. QED
      BY <1>2, <3>1, Zenon DEF Without, RemoveFirstMatch, SelectInSeq
  <2>5. QED
    BY <2>3, <2>4
<1>3. QED
  BY <1>1, <1>2

\* What is left of a list when its i-th entry is removed.
LEMMA RemoveAtProperty ==
    ASSUME NEW l \in Seq(Errs), NEW i \in 1 .. Len(l)
    PROVE  /\ RemoveAt(l, i) \in Seq(Errs)
           /\ \A j \in 1 .. Len(l) : j # i =>
                 \E k \in 1 .. Len(RemoveAt(l, i)) : RemoveAt(l, i)[k] = l[j]
<1>. DEFINE a == SubSeq(l, 1, i - 1)
            b == SubSeq(l, i + 1, Len(l))
<1>1. /\ a \in Seq(Errs) /\ Len(a) = i - 1 /\ \A k \in 1 .. i - 1 : a[k] = l[k]
  OBVIOUS
<1>2. /\ b \in Seq(Errs) /\ Len(b) = Len(l) - i
      /\ \A k \in 1 .. Len(l) - i : b[k] = l[i + k]
  OBVIOUS
<1>3. RemoveAt(l, i) = a \o b
  BY DEF RemoveAt
<1>. HIDE DEF a, b
<1>4. Len(l) \in Nat /\ i \in Nat /\ 1 <= i /\ i <= Len(l)
  OBVIOUS
<1>5. /\ a \o b \in Seq(Errs) /\ Len(a \o b) = Len(a) + Len(b)
      /\ \A k \in 1 .. Len(a) + Len(b) :
            (a \o b)[k] = IF k <= Len(a) THEN a[k] ELSE b[k - Len(a)]
  BY <1>1, <1>2, ConcatProperties, Zenon
<1>6. /\ a \o b \in Seq(Errs) /\ Len(a \o b) = Len(l) - 1
      /\ \A k \in 1 .. i - 1 : (a \o b)[k] = l[k]
      /\ \A k \in i .. Len(l) - 1 : (a \o b)[k] = l[k + 1]
  <2>1. Len(a \o b) = Len(l) - 1
    BY <1>4, <1>5, <1>1, <1>2
  <2>2. ASSUME NEW k \in 1 .. i - 1 PROVE (a \o b)[k] = l[k]
    BY <1>4, <1>5, <1>1, <1>2
  <2>3. ASSUME NEW k \in i .. Len(l) - 1 PROVE (a \o b)[k] = l[k + 1]
    <3>1. k \in 1 .. Len(a) + Len(b) /\ ~(k <= Len(a)) /\ k - Len(a) \in 1 .. Len(l) - i
      BY <1>4, <1>1, <1>2
    <3>2. i + (k - Len(a)) = k + 1
      BY <1>4, <1>1
    <3>3. QED
      BY <1>5, <1>2, <3>1, <3>2
  <2>4. QED
    BY <1>5, <2>1, <2>2, <2>3
<1>7. ASSUME NEW j \in 1 .. Len(l), j # i
      PROVE  \E k \in 1 .. Len(l) - 1 : (a \o b)[k] = l[j]
  <2>1. CASE j < i
    <3>1. j \in 1 .. i - 1 /\ j \in 1 .. Len(l) - 1
      BY <1>4, <2>1
    <3>2. QED
      BY <1>6, <3>1
  <2>2. CASE j > i
    <3>1. j - 1 \in i .. Len(l) - 1 /\ j - 1 \in 1 .. Len(l) - 1 /\ (j - 1) + 1 = j
      BY <2>2
    <3>2. QED
      BY <1>6, <3>1
  <2>3. j < i \/ j > i
    BY <1>4, <1>7
  <2>4. QED
    BY <2>1, <2>2, <2>3
<1>8. QED
  BY <1>3, <1>6, <1>7

\* It is a list of errors again.
LEMMA WithoutType ==
    ASSUME NEW l \in Seq(Errs), NEW t \in Errs
    PROVE  Without(l, t) \in Seq(Errs)
BY WithoutOne, RemoveAtProperty

\* g[s] is what unregistering the errors errs[i], i \in s, in their order, leaves of l.
UnregSteps(g, D, l, errs) ==
    g = [s \in SUBSET D |->
           IF s = {} THEN l ELSE Without(g[s \ {Max(s)}], errs[Max(s)])]

\* The fold of UnRegisterTemporaryErrors is a recursive function ...
LEMMA FoldIsChoice ==
    ASSUME NEW l, NEW errs
    PROVE  FoldLeft(Without, l, errs) = (CHOOSE g : UnregSteps(g, DOMAIN errs, l, errs))[DOMAIN errs]
BY DEF FoldLeft, MapThenFoldSet, UnregSteps

\* ... that exists: the one for n errors is extended to n + 1.
LEMMA StepsExist ==
    ASSUME NEW l, NEW errs
    PROVE  \A n \in Nat : \E g : UnregSteps(g, 1 .. n, l, errs)
<1>1. DEFINE T == {n \in Nat : \E g : UnregSteps(g, 1 .. n, l, errs)}
<1>2. 0 \in T
  <2>1. UnregSteps([s \in SUBSET (1 .. 0) |-> l], 1 .. 0, l, errs)
    BY 1 .. 0 = {} DEF UnregSteps
  <2>2. QED
    BY <2>1
<1>3. ASSUME NEW n \in Nat, n \in T PROVE n + 1 \in T
  <2>1. PICK g : UnregSteps(g, 1 .. n, l, errs)
    BY <1>3
  <2>2. DEFINE h == [s \in SUBSET (1 .. n + 1) |->
                       IF n + 1 \in s THEN Without(g[s \ {n + 1}], errs[n + 1]) ELSE g[s]]
  <2>3. ASSUME NEW s \in SUBSET (1 .. n + 1)
        PROVE  h[s] = IF s = {} THEN l ELSE Without(h[s \ {Max(s)}], errs[Max(s)])
    <3>1. CASE n + 1 \in s
      <4>1. Max(s) = n + 1
        BY <3>1, MaxIsBound
      <4>2. s \ {n + 1} \in SUBSET (1 .. n + 1) /\ n + 1 \notin s \ {n + 1} /\ s # {}
        BY <3>1
      <4>3. h[s] = Without(g[s \ {n + 1}], errs[n + 1])
        BY <3>1
      <4>4. h[s \ {n + 1}] = g[s \ {n + 1}]
        BY <4>2
      <4>5. QED
        BY <4>1, <4>2, <4>3, <4>4
    <3>2. CASE n + 1 \notin s
      <4>1. s \in SUBSET (1 .. n)
        <5>1. \A i \in s : i \in 1 .. n + 1 /\ i # n + 1
          BY <3>2
        <5>2. QED
          BY <5>1
      <4>2. h[s] = g[s]
        BY <3>2
      <4>3. s \ {Max(s)} \in SUBSET (1 .. n + 1) /\ n + 1 \notin s \ {Max(s)}
        BY <3>2
      <4>4. h[s \ {Max(s)}] = g[s \ {Max(s)}]
        BY <4>3
      <4>5. g[s] = IF s = {} THEN l ELSE Without(g[s \ {Max(s)}], errs[Max(s)])
        BY <2>1, <4>1, Zenon DEF UnregSteps
      <4>6. QED
        BY <4>2, <4>4, <4>5
    <3>3. QED
      BY <3>1, <3>2
  <2>4. UnregSteps(h, 1 .. n + 1, l, errs)
    BY <2>3, Zenon DEF UnregSteps
  <2>5. QED
    BY <2>4
<1>4. \A n \in Nat : n \in T
  <2>1. HIDE DEF T
  <2>2. QED
    BY <1>2, <1>3, NaturalsInSet
<1>5. QED
  BY <1>4

\* UnRegisterTemporaryErrors leaves a list of errors.
LEMMA UnregisterType ==
    ASSUME NEW l \in Seq(Errs), NEW errs \in Seq(Errs)
    PROVE  FoldLeft(Without, l, errs) \in Seq(Errs)
<1>. DEFINE n == Len(errs)
            g == CHOOSE h : UnregSteps(h, 1 .. n, l, errs)
<1>1. n \in Nat /\ DOMAIN errs = 1 .. n
  OBVIOUS
<1>2. UnregSteps(g, 1 .. n, l, errs)
  BY <1>1, StepsExist, Zenon
<1>3. FoldLeft(Without, l, errs) = g[1 .. n]
  BY <1>1, FoldIsChoice
<1>. HIDE DEF g, n
<1>. DEFINE T == {k \in Nat : k <= n => \A s \in SUBSET (1 .. k) : g[s] \in Seq(Errs)}
<1>4. 0 \in T
  <2>1. \A s \in SUBSET (1 .. 0) : s = {} /\ s \in SUBSET (1 .. n)
    OBVIOUS
  <2>2. \A s \in SUBSET (1 .. 0) : g[s] = l
    BY <1>2, <2>1 DEF UnregSteps
  <2>3. QED
    BY <2>2
<1>5. ASSUME NEW k \in Nat, k \in T PROVE k + 1 \in T
  <2>1. SUFFICES ASSUME k + 1 <= n, NEW s \in SUBSET (1 .. k + 1)
                 PROVE  g[s] \in Seq(Errs)
    OBVIOUS
  <2>2. k <= n /\ \A u \in SUBSET (1 .. k) : g[u] \in Seq(Errs)
    BY <1>1, <1>5, <2>1
  <2>3. s \in SUBSET (1 .. n)
    BY <1>1, <2>1
  <2>4. CASE k + 1 \in s
    <3>1. Max(s) = k + 1
      BY <2>4, MaxIsBound
    <3>2. s \ {k + 1} \in SUBSET (1 .. k)
      OBVIOUS
    <3>3. g[s] = Without(g[s \ {k + 1}], errs[k + 1])
      BY <1>2, <2>3, <2>4, <3>1, Zenon DEF UnregSteps
    <3>4. errs[k + 1] \in Errs
      BY <1>1, <2>1
    <3>5. QED
      BY <2>2, <3>2, <3>3, <3>4, WithoutType
  <2>5. CASE k + 1 \notin s
    <3>1. s \in SUBSET (1 .. k)
      BY <2>5
    <3>2. QED
      BY <2>2, <3>1
  <2>6. QED
    BY <2>4, <2>5
<1>6. \A k \in Nat : k \in T
  <2>1. HIDE DEF T
  <2>2. QED
    BY <1>4, <1>5, NaturalsInSet
<1>7. n \in T /\ n <= n /\ 1 .. n \in SUBSET (1 .. n)
  BY <1>1, <1>6
<1>8. QED
  BY <1>3, <1>7

\* For one error, it removes what Without removes.
LEMMA UnregisterOne ==
    ASSUME NEW l, NEW t
    PROVE  FoldLeft(Without, l, <<t>>) = Without(l, t)
<1>. DEFINE g == CHOOSE h : UnregSteps(h, 1 .. 1, l, <<t>>)
<1>1. DOMAIN <<t>> = 1 .. 1 /\ 1 \in Nat
  OBVIOUS
<1>2. UnregSteps(g, 1 .. 1, l, <<t>>)
  BY <1>1, StepsExist, Zenon
<1>3. FoldLeft(Without, l, <<t>>) = g[1 .. 1]
  BY <1>1, FoldIsChoice
<1>. HIDE DEF g
<1>4. 1 .. 1 # {} /\ 1 .. 1 \in SUBSET (1 .. 1) /\ 1 \in 1 .. 1 /\ (1 .. 1) \ {1} = {}
  OBVIOUS
<1>5. Max(1 .. 1) = 1
  BY <1>1, <1>4, MaxIsBound
<1>6. g[1 .. 1] = Without(g[{}], <<t>>[1])
  BY <1>2, <1>4, <1>5, Zenon DEF UnregSteps
<1>7. g[{}] = l
  BY <1>2 DEF UnregSteps
<1>8. QED
  BY <1>3, <1>6, <1>7

--------------------------------------------------------------------------------
(***************************************************************************)
(* The log of a call                                                       *)
(***************************************************************************)
\* An attempt that was answered gives the latest status, another leaves it as it was.
LEMMA LatestOfAppend ==
    ASSUME NEW l \in Seq(Entry), NEW x \in Entry
    PROVE  /\ x.status # 0 => Latest(Append(l, x)) = x.status
           /\ x.status = 0 => Latest(Append(l, x)) = Latest(l)
<1>1. DEFINE n == Len(l)
             m == Append(l, x)
             A == {i \in DOMAIN l : l[i].status # 0}
             B == {i \in DOMAIN m : m[i].status # 0}
<1>2. /\ n \in Nat /\ DOMAIN l = 1 .. n /\ DOMAIN m = 1 .. n + 1
      /\ m[n + 1] = x /\ \A i \in 1 .. n : m[i] = l[i]
  OBVIOUS
<1>3. CASE x.status # 0
  <2>1. n + 1 \in B /\ B \in SUBSET (1 .. n + 1) /\ B # {}
    BY <1>2, <1>3
  <2>2. Max(B) = n + 1
    BY <1>2, <2>1, MaxIsBound
  <2>3. Latest(m) = m[Max(B)].status
    BY <2>1, Zenon DEF Latest
  <2>4. QED
    BY <1>2, <1>3, <2>2, <2>3
<1>4. CASE x.status = 0
  <2>1. B = A
    BY <1>2, <1>4
  <2>2. CASE A = {}
    BY <1>4, <2>1, <2>2 DEF Latest
  <2>3. CASE A # {}
    <3>1. A \in SUBSET (1 .. n)
      BY <1>2
    <3>2. Max(A) \in A
      BY <1>2, <2>3, <3>1, MaxOfBounded
    <3>3. m[Max(A)] = l[Max(A)]
      BY <1>2, <3>1, <3>2
    <3>4. Latest(m) = m[Max(A)].status /\ Latest(l) = l[Max(A)].status
      BY <2>1, <2>3, Zenon DEF Latest
    <3>5. QED
      BY <1>4, <3>3, <3>4
  <2>4. QED
    BY <2>2, <2>3
<1>5. QED
  BY <1>3, <1>4

\* What the log is after an attempt.
LEMMA GrownLog ==
    ASSUME NEW l \in Seq(Entry), NEW x \in Entry
    PROVE  /\ Append(l, x) \in Seq(Entry)
           /\ Len(Append(l, x)) = Len(l) + 1 /\ Append(l, x)[Len(l) + 1] = x
           /\ \A i \in 1 .. Len(l) : Append(l, x)[i] = l[i]
           /\ \A i \in 1 .. Len(l) + 1 : i = Len(l) + 1 \/ i \in 1 .. Len(l)
BY AppendProperties

\* A call without attempts has no status.
LEMMA LatestOfNone == Latest(<<>>) = 0
BY DEF Latest

--------------------------------------------------------------------------------
(***************************************************************************)
(* One run moves at a time                                                 *)
(***************************************************************************)
\* A step leaves the run q alone.
Same(q) ==
    /\ phase'[q] = phase[q] /\ attempt'[q] = attempt[q] /\ worker'[q] = worker[q]
    /\ outcome'[q] = outcome[q] /\ pc'[q] = pc[q] /\ policy'[q] = policy[q]
    /\ temporary'[q] = temporary[q] /\ at'[q] = at[q] /\ resp'[q] = resp[q]
    /\ result'[q] = result[q] /\ attempts'[q] = attempts[q] /\ status'[q] = status[q]
    /\ payload'[q] = payload[q] /\ log'[q] = log[q]

\* Then it keeps the invariant of q.
LEMMA SameKeeps ==
    ASSUME NEW q \in Runs, RunInv(q), Same(q)
    PROVE  RunInv(q)'
BY DEF Same, RunInv, PlaceInv, PhaseInv, FaithfulInv, LogInv, CountInv, RefusedInv, PayloadInv,
       Settled, RC!AttemptResults, RC!AbortReasons

--------------------------------------------------------------------------------
(***************************************************************************)
(* The steps of a run                                                      *)
(***************************************************************************)
\* The run r moves, and keeps the invariant.
Moves(r) == TypeOK' /\ RunInv(r)' /\ \A q \in Runs \ {r} : Same(q)

\* What the call of DoWithContext changes.
CallTypes ==
    /\ pc \in [Runs -> {"start", "call", "list", "record", "callback", "end"}]
    /\ temporary \in [Runs -> Seq(Errs)]
    /\ always \in [Runs -> SUBSET Errs] /\ ever \in [Runs -> SUBSET Errs]

\* The errors of a job and of its call.
LEMMA ListTypes ==
    ASSUME TypeOK, NEW r \in Runs
    PROVE  /\ OwnErrors(policy[r]) \in Seq(Errs)
           /\ buildTemporaryErrors(policy[r]) \in Seq(Errs)
<1>1. policy[r] \in [codes : SUBSET Statuses, temporary : Seq(Errs), callback : BOOLEAN]
  BY ExecutionAssumption DEF TypeOK
<1>2. OwnErrors(policy[r]) \in Seq(Errs)
  BY <1>1, ExecutionAssumption DEF OwnErrors
<1>3. QED
  BY <1>2 DEF TypeOK, buildTemporaryErrors, ListTemporaryErrors

\* The call has the list of errors of its job.
LEMMA CallBeginsTypes ==
    ASSUME TypeOK, NEW r \in Runs, CallBegins(r)
    PROVE  CallTypes'
<1>1. /\ pc' = [pc EXCEPT ![r] = "call"]
      /\ temporary' = [temporary EXCEPT ![r] = buildTemporaryErrors(policy[r])]
      /\ always' = [always EXCEPT ![r] = TemporaryFor(policy[r], storage)]
      /\ ever' = [ever EXCEPT ![r] = TemporaryFor(policy[r], storage)]
  BY DEF CallBegins
<1>2. CallTypes
  BY DEF TypeOK, CallTypes
<1>3. TemporaryFor(policy[r], storage) \in SUBSET Errs
  BY DEF TemporaryFor
<1>4. buildTemporaryErrors(policy[r]) \in Seq(Errs)
  BY ListTypes
<1>5. QED
  BY ONLY <1>1, <1>2, <1>3, <1>4 DEF CallTypes

\* The first attempt starts, with the list of errors of the job.
LEMMA BeginMoves ==
    ASSUME TypeOK, NEW r \in Runs, RunInv(r), Begin(r)
    PROVE  Moves(r)
<1>1. TypeOK'
  <2>1. CallTypes'
    BY CallBeginsTypes DEF Begin
  <2>2. RC!RetryTypeOK' /\ at' \in [Runs -> {"none", "enter", "request", "answered"}]
    BY DEF TypeOK, Begin, RC!Begin, RC!RetryTypeOK
  <2>3. UNCHANGED <<storage, resp, result, attempts, status, log, policy, payload, recorded,
                    sent, ctxDone, stopped>>
    BY DEF Begin
  <2>4. QED
    BY <2>1, <2>2, <2>3 DEF TypeOK, CallTypes
<1>2. \A q \in Runs \ {r} : Same(q)
  BY DEF Begin, CallBegins, RC!Begin, Same, TypeOK, RC!RetryTypeOK
<1>3. RunInv(r)'
  <2>1. pc[r] = "start" /\ pc'[r] = "call"
    BY DEF Begin, CallBegins, TypeOK
  <2>2. attempt[r] = 0
    BY <2>1 DEF RunInv, PhaseInv
  <2>3. log[r] = <<>> /\ Len(log[r]) = 0 /\ NoneOk(log[r], 0)
    BY <2>1 DEF RunInv, PhaseInv, NoneOk
  <2>4. QED
    BY <2>1, <2>2, <2>3 DEF Begin, RC!Begin, TypeOK, RC!RetryTypeOK, RunInv,
       PlaceInv, PhaseInv, FaithfulInv, LogInv, CountInv, RefusedInv, PayloadInv,
       Settled, RC!AttemptResults, RC!AbortReasons
<1>4. QED
  BY <1>1, <1>2, <1>3 DEF Moves

\* The call is refused before it makes an attempt.
LEMMA RefusedMoves ==
    ASSUME TypeOK, NEW r \in Runs, RunInv(r), Refused(r)
    PROVE  Moves(r)
<1>1. TypeOK'
  <2>1. CallTypes'
    BY CallBeginsTypes DEF Refused
  <2>2. RC!RetryTypeOK'
    BY DEF TypeOK, Refused, RC!Refuse, RC!RetryTypeOK
  <2>3. UNCHANGED <<storage, attemptVars, policy, payload, recorded, sent, ctxDone, stopped>>
    BY DEF Refused
  <2>4. QED
    BY <2>1, <2>2, <2>3 DEF TypeOK, CallTypes, attemptVars
<1>2. \A q \in Runs \ {r} : Same(q)
  BY DEF Refused, CallBegins, RC!Refuse, attemptVars, Same, TypeOK, RC!RetryTypeOK
<1>3. RunInv(r)'
  <2>1. pc[r] = "start" /\ pc'[r] = "call" /\ phase'[r] = "done" /\ outcome'[r] = "refused"
    BY DEF Refused, CallBegins, RC!Refuse, TypeOK, RC!RetryTypeOK
  <2>2. UNCHANGED <<attempt, worker, at, resp, result, attempts, status, log, policy, payload>>
    BY DEF Refused, RC!Refuse, attemptVars
  <2>3. attempt[r] = 0 /\ worker[r] = "none" /\ log[r] = <<>>
    BY <2>1 DEF RunInv, PhaseInv
  <2>4. Len(log[r]) = 0 /\ Latest(log[r]) = 0
    BY <2>3, LatestOfNone
  <2>5. attempts[r] = 0 /\ status[r] = 0
    BY <2>1, <2>4 DEF RunInv, CountInv
  <2>6. QED
    BY <2>1, <2>2, <2>3, <2>4, <2>5 DEF RunInv,
       PlaceInv, PhaseInv, FaithfulInv, LogInv, CountInv, RefusedInv, PayloadInv,
       Settled, RC!AttemptResults, RC!AbortReasons
<1>4. QED
  BY <1>1, <1>2, <1>3 DEF Moves

\* The attempt counts itself.
LEMMA IncrementAttemptsMoves ==
    ASSUME TypeOK, NEW r \in Runs, RunInv(r), IncrementAttempts(r)
    PROVE  Moves(r)
<1>1. TypeOK'
  <2>1. attempts[r] + 1 \in 0 .. MaxRetries + 1
    BY ExecutionAssumption DEF IncrementAttempts, TypeOK, RC!RetryTypeOK, RunInv, PlaceInv,
       LogInv, CountInv
  <2>2. QED
    BY <2>1 DEF TypeOK, IncrementAttempts, callVars, RC!RetryTypeOK
<1>2. \A q \in Runs \ {r} : Same(q)
  BY DEF IncrementAttempts, callVars, Same, TypeOK, RC!RetryTypeOK
<1>3. RunInv(r)'
  BY DEF IncrementAttempts, callVars, TypeOK, RC!RetryTypeOK, RunInv,
       PlaceInv, PhaseInv, FaithfulInv, LogInv, CountInv, RefusedInv, PayloadInv,
       Settled, RC!AttemptResults, RC!AbortReasons
<1>4. QED
  BY <1>1, <1>2, <1>3 DEF Moves

\* The response is in the executionState.
LEMMA RequestAnsweredMoves ==
    ASSUME TypeOK, NEW r \in Runs, RunInv(r), NEW s \in Statuses, RequestAnswered(r, s)
    PROVE  Moves(r)
<1>1. TypeOK'
  BY DEF TypeOK, RequestAnswered, setLastResponse, callVars, RC!RetryTypeOK
<1>2. \A q \in Runs \ {r} : Same(q)
  BY DEF RequestAnswered, setLastResponse, callVars, Same, TypeOK, RC!RetryTypeOK
<1>3. RunInv(r)'
  BY DEF RequestAnswered, setLastResponse, callVars, TypeOK, RC!RetryTypeOK, RunInv,
       PlaceInv, PhaseInv, FaithfulInv, LogInv, CountInv, RefusedInv, PayloadInv,
       Settled, RC!AttemptResults, RC!AbortReasons
<1>4. QED
  BY <1>1, <1>2, <1>3 DEF Moves

\* The function of an attempt returns res, an error that goes with the response.
LEMMA FunctionReturnsMoves ==
    ASSUME TypeOK, NEW r \in Runs, RunInv(r), NEW res \in Errs \cup {"nil"},
           at[r] \in {"request", "answered"},
           res = "nil" <=> resp[r] \in 200 .. 299,
           FunctionReturns(r, res)
    PROVE  Moves(r)
<1>. DEFINE x == [status |-> resp[r], result |-> res]
            l == log[r]
<1>1. log \in [Runs -> Seq(Entry)] /\ resp[r] \in Statuses \cup {0}
  BY DEF TypeOK, Entry
<1>2. x \in Entry /\ x.status = resp[r] /\ x.result = res
  BY <1>1 DEF Entry
<1>3. l \in Seq(Entry) /\ Len(l) \in Nat
  BY <1>1
<1>4. worker[r] = "running" => log' = [log EXCEPT ![r] = Append(l, x)]
  BY DEF FunctionReturns
<1>. HIDE DEF x
<1>5. /\ Append(l, x) \in Seq(Entry)
      /\ Len(Append(l, x)) = Len(l) + 1 /\ Append(l, x)[Len(l) + 1] = x
      /\ \A i \in 1 .. Len(l) : Append(l, x)[i] = l[i]
      /\ \A i \in 1 .. Len(l) + 1 : i = Len(l) + 1 \/ i \in 1 .. Len(l)
  BY <1>2, <1>3, GrownLog, Zenon
<1>6. TypeOK'
  <2>1. log' \in [Runs -> Seq(Entry)]
    <3>1. CASE worker[r] = "running"
      BY <1>1, <1>4, <1>5, <3>1
    <3>2. CASE worker[r] # "running"
      BY <1>1, <3>2 DEF FunctionReturns
    <3>3. QED
      BY <3>1, <3>2
  <2>2. result' \in [Runs -> Errs \cup {"nil"}]
    <3>1. result \in [Runs -> Errs \cup {"nil"}]
          /\ (result' = result \/ result' = [result EXCEPT ![r] = res])
      BY DEF TypeOK, FunctionReturns
    <3>2. r \in Runs /\ res \in Errs \cup {"nil"}
      OBVIOUS
    <3>3. QED
      BY ONLY <3>1, <3>2
  <2>3. RC!RetryTypeOK'
    <3>1. /\ \/ worker' = [worker EXCEPT ![r] = "ready"]
             \/ worker' = [worker EXCEPT ![r] = "none"]
          /\ UNCHANGED <<phase, attempt, outcome>>
      BY DEF FunctionReturns, RC!Finish
    <3>2. worker' \in [Runs -> {"none", "running", "ready", "orphan"}]
      <4>1. worker \in [Runs -> {"none", "running", "ready", "orphan"}]
        BY Zenon DEF TypeOK, RC!RetryTypeOK
      <4>2. QED
        BY ONLY <3>1, <4>1
    <3>3. QED
      BY <3>1, <3>2, Zenon DEF TypeOK, RC!RetryTypeOK
  <2>4. /\ at' \in [Runs -> {"none", "enter", "request", "answered"}]
        /\ resp' \in [Runs -> Statuses \cup {0}]
    BY DEF TypeOK, FunctionReturns
  <2>5. UNCHANGED <<storage, attempts, status, pc, policy, temporary, always, ever, payload,
                    recorded, sent, ctxDone, stopped>>
    BY DEF FunctionReturns
  <2>6. QED
    BY <2>1, <2>2, <2>3, <2>4, <2>5, Zenon DEF TypeOK, Entry
<1>7. \A q \in Runs \ {r} : Same(q)
  <2>1. CASE worker[r] = "running"
    BY <2>1 DEF FunctionReturns, RC!Finish, Same, TypeOK, RC!RetryTypeOK
  <2>2. CASE worker[r] # "running"
    BY <2>2 DEF FunctionReturns, RC!Finish, Same, TypeOK, RC!RetryTypeOK
  <2>3. QED
    BY <2>1, <2>2
<1>8. RunInv(r)'
  <2>1. CASE worker[r] = "running"
    <3>1. /\ log'[r] = Append(l, x) /\ result'[r] = res /\ worker'[r] = "ready"
          /\ at'[r] = "none" /\ resp'[r] = 0
          /\ UNCHANGED <<phase, attempt, outcome, attempts, status, pc, policy, temporary, payload>>
      BY <1>1, <1>4, <2>1 DEF FunctionReturns, RC!Finish, TypeOK, RC!RetryTypeOK
    <3>2. phase[r] = "attempt"
      BY <2>1 DEF RunInv, PhaseInv, TypeOK, RC!RetryTypeOK
    <3>3. /\ Len(log'[r]) = Len(l) + 1 /\ log'[r][Len(l) + 1] = x
          /\ \A i \in 1 .. Len(l) : log'[r][i] = l[i]
      BY <1>5, <3>1
    <3>4. status[r] = Latest(log'[r])
      <4>1. CASE at[r] = "request"
        BY <1>2, <1>3, <3>1, <4>1, LatestOfAppend DEF RunInv, PlaceInv, CountInv
      <4>2. CASE at[r] = "answered"
        <5>1. resp[r] # 0 /\ resp[r] = status[r]
          BY <4>2, ExecutionAssumption DEF RunInv, PlaceInv, CountInv
        <5>2. QED
          BY <1>2, <1>3, <3>1, <5>1, LatestOfAppend
      <4>3. QED
        BY <4>1, <4>2
    <3>5. FaithfulInv(r)'
      <4>1. SUFFICES ASSUME NEW i \in 1 .. Len(l) + 1
                     PROVE  log'[r][i].result = "nil" <=> log'[r][i].status \in 200 .. 299
        BY <3>3 DEF FaithfulInv, Ok
      <4>2. CASE i = Len(l) + 1
        BY <1>2, <3>3, <4>2
      <4>3. CASE i \in 1 .. Len(l)
        <5>1. log'[r][i] = l[i]
          BY <3>3, <4>3
        <5>2. l[i].result = "nil" <=> l[i].status \in 200 .. 299
          BY <4>3, Zenon DEF RunInv, FaithfulInv, Ok
        <5>3. QED
          BY ONLY <5>1, <5>2
      <4>4. i = Len(l) + 1 \/ i \in 1 .. Len(l)
        BY <1>5, Zenon
      <4>5. QED
        BY <4>2, <4>3, <4>4, Zenon
    <3>6. NoneOk(log'[r], Len(l)) /\ Len(l) = attempt[r] /\ attempts[r] = Len(l) + 1
      BY <1>3, <2>1, <3>3 DEF RunInv, LogInv, CountInv, NoneOk
    <3>7. PlaceInv(r)' /\ PhaseInv(r)'
      BY <3>1, <3>2 DEF RunInv, PlaceInv, PhaseInv, Settled
    <3>8. LogInv(r)'
      <4>1. Len(log'[r]) - 1 = Len(l)
        BY <1>3, <3>3
      <4>2. result'[r] = log'[r][Len(log'[r])].result
        BY <1>2, <3>1, <3>3
      <4>3. NoneOk(log'[r], Len(log'[r]) - 1)
        BY <3>6, <4>1
      <4>4. Len(log'[r]) > 0 /\ Len(log'[r]) = attempt'[r] + 1
        BY <1>3, <3>1, <3>3, <3>6
      <4>5. worker'[r] = "ready" /\ phase'[r] = "attempt"
        BY <3>1, <3>2
      <4>6. QED
        BY <4>2, <4>3, <4>4, <4>5 DEF LogInv, Settled
    <3>9. CountInv(r)'
      BY <3>1, <3>2, <3>3, <3>4, <3>6 DEF CountInv, Settled
    <3>10. RefusedInv(r)' /\ PayloadInv(r)'
      BY <3>1, <3>2 DEF RunInv, RefusedInv, PayloadInv, PhaseInv
    <3>11. QED
      BY <3>5, <3>7, <3>8, <3>9, <3>10 DEF RunInv
  <2>2. CASE worker[r] # "running"
    <3>1. /\ worker[r] = "orphan" /\ worker'[r] = "none"
          /\ at'[r] = "none" /\ resp'[r] = 0
          /\ UNCHANGED <<phase, attempt, outcome, attempts, status, pc, policy, temporary,
                         payload, log, result>>
      BY <2>2 DEF FunctionReturns, RC!Finish, TypeOK, RC!RetryTypeOK
    <3>2. /\ phase[r] \notin {"attempt", "wait"} /\ ~Settled(r) /\ ~Settled(r)'
          /\ pc[r] \notin {"start", "list"}
      BY <3>1 DEF RunInv, PhaseInv, Settled
    <3>3. PlaceInv(r)' /\ PhaseInv(r)'
      BY <3>1, <3>2 DEF RunInv, PlaceInv, PhaseInv
    <3>4. FaithfulInv(r)' /\ PayloadInv(r)' /\ RefusedInv(r)'
      BY <3>1 DEF RunInv, FaithfulInv, PayloadInv, RefusedInv
    <3>5. LogInv(r)'
      BY <3>1, <3>2 DEF LogInv
    <3>6. CountInv(r)'
      BY <3>1, <3>2 DEF RunInv, CountInv
    <3>7. QED
      BY <3>3, <3>4, <3>5, <3>6 DEF RunInv
  <2>3. QED
    BY <2>1, <2>2
<1>9. QED
  BY <1>6, <1>7, <1>8 DEF Moves

\* The three ways in which the function returns.
LEMMA AttemptEndsMoves ==
    ASSUME TypeOK, NEW r \in Runs, RunInv(r),
           \/ \E e \in Failures : RequestFails(r, e)
           \/ RequestCanceled(r)
           \/ ResponseClassified(r)
    PROVE  Moves(r)
<1>1. ASSUME NEW e \in Failures, RequestFails(r, e)
      PROVE  Moves(r)
  <2>1. at[r] = "request" /\ resp[r] = 0 /\ FunctionReturns(r, e)
    BY <1>1 DEF RequestFails, RunInv, PlaceInv
  <2>2. e \in Errs /\ e # "nil" /\ 0 \notin 200 .. 299
    BY ExecutionAssumption
  <2>3. QED
    BY <2>1, <2>2, FunctionReturnsMoves
<1>2. CASE RequestCanceled(r)
  <2>1. at[r] = "request" /\ resp[r] = 0 /\ FunctionReturns(r, "canceled")
    BY <1>2 DEF RequestCanceled, RunInv, PlaceInv
  <2>2. "canceled" \in Errs /\ 0 \notin 200 .. 299
    BY ExecutionAssumption
  <2>3. QED
    BY <2>1, <2>2, FunctionReturnsMoves
<1>3. CASE ResponseClassified(r)
  <2>1. PICK res \in Errs \cup {"nil"} : res = Classified(policy[r], resp[r])
    BY ExecutionAssumption DEF Classified
  <2>2. at[r] = "answered" /\ FunctionReturns(r, res)
    BY <1>3, <2>1 DEF ResponseClassified
  <2>3. res = "nil" <=> resp[r] \in 200 .. 299
    BY <2>1 DEF Classified
  <2>4. QED
    BY <2>2, <2>3, FunctionReturnsMoves
<1>4. QED
  BY <1>1, <1>2, <1>3

\* The call takes the result of its attempt, and waits or ends.
LEMMA DecidedMoves ==
    ASSUME TypeOK, NEW r \in Runs, RunInv(r), NEW res \in RC!AttemptResults,
           pc[r] \in {"call", "list"}, res = "nil" <=> result[r] = "nil",
           Decided(r, res)
    PROVE  Moves(r)
<1>1. TypeOK'
  <2>1. RC!RetryTypeOK'
    <3>1. /\ worker' = [worker EXCEPT ![r] = "none"] /\ attempt' = attempt
          /\ \/ phase' = [phase EXCEPT ![r] = "wait"] /\ outcome' = outcome
             \/ phase' = [phase EXCEPT ![r] = "done"] /\ outcome' = [outcome EXCEPT ![r] = res]
      BY DEF Decided, RC!Receive
    <3>2. outcome' \in [Runs -> RC!AttemptResults \cup RC!AbortReasons \cup {"refused"}]
      <4>1. /\ outcome \in [Runs -> RC!AttemptResults \cup RC!AbortReasons \cup {"refused"}]
            /\ res \in RC!AttemptResults \cup RC!AbortReasons \cup {"refused"}
        BY Zenon DEF TypeOK, RC!RetryTypeOK
      <4>2. QED
        BY <3>1, <4>1
    <3>3. phase' \in [Runs -> {"idle", "attempt", "wait", "done"}]
      <4>1. phase \in [Runs -> {"idle", "attempt", "wait", "done"}]
        BY Zenon DEF TypeOK, RC!RetryTypeOK
      <4>2. QED
        BY ONLY <3>1, <4>1
    <3>4. QED
      BY <3>1, <3>2, <3>3 DEF TypeOK, RC!RetryTypeOK
  <2>2. QED
    BY <2>1 DEF TypeOK, Decided, attemptVars
<1>2. \A q \in Runs \ {r} : Same(q)
  BY DEF Decided, RC!Receive, attemptVars, Same, TypeOK, RC!RetryTypeOK
<1>3. RunInv(r)'
  <2>1. /\ phase[r] = "attempt" /\ worker[r] = "ready" /\ worker'[r] = "none" /\ pc'[r] = "call"
        /\ UNCHANGED <<attempt, at, resp, result, attempts, status, log, policy, temporary, payload>>
        /\ \/ phase'[r] = "wait" /\ res = "temp" /\ outcome' = outcome
           \/ phase'[r] = "done" /\ outcome'[r] = res
    BY DEF Decided, RC!Receive, attemptVars, TypeOK, RC!RetryTypeOK
  <2>2. /\ Len(log[r]) \in Nat /\ Len(log[r]) > 0 /\ NoneOk(log[r], Len(log[r]) - 1)
        /\ result[r] = log[r][Len(log[r])].result
    BY <2>1 DEF TypeOK, RunInv, LogInv
  <2>3. CASE phase'[r] = "wait" /\ res = "temp" /\ outcome' = outcome
    <3>1. ~Ok(log[r][Len(log[r])])
      BY <2>2, <2>3 DEF RunInv, FaithfulInv
    <3>2. NoneOk(log[r], Len(log[r]))
      BY <2>2, <3>1 DEF NoneOk
    <3>3. QED
      BY <2>1, <2>3, <3>2 DEF RunInv,
       PlaceInv, PhaseInv, FaithfulInv, LogInv, CountInv, RefusedInv, PayloadInv,
       Settled, RC!AttemptResults, RC!AbortReasons
  <2>4. CASE phase'[r] = "done" /\ outcome'[r] = res
    BY <2>1, <2>2, <2>4 DEF RunInv,
       PlaceInv, PhaseInv, FaithfulInv, LogInv, CountInv, RefusedInv, PayloadInv,
       Settled, RC!AttemptResults, RC!AbortReasons
  <2>5. QED
    BY <2>1, <2>3, <2>4
<1>4. QED
  BY <1>1, <1>2, <1>3 DEF Moves

\* What shouldRetry answers, and when the call asks it.
LEMMA DecisionsMove ==
    ASSUME TypeOK, NEW r \in Runs, RunInv(r),
           ShouldRetry(r) \/ IsTemporaryError(r) \/ Succeeds(r)
    PROVE  Moves(r)
<1>1. CASE ShouldRetry(r)
  <2>1. PICK res \in {"temp", "perm"} : Decided(r, res)
    BY <1>1 DEF ShouldRetry
  <2>2. pc[r] = "call" /\ result[r] # "nil"
    BY <1>1 DEF ShouldRetry
  <2>3. QED
    BY <2>1, <2>2, DecidedMoves DEF RC!AttemptResults
<1>2. CASE IsTemporaryError(r)
  <2>1. PICK res \in {"temp", "perm"} : Decided(r, res)
    BY <1>2 DEF IsTemporaryError
  <2>2. pc[r] = "list" /\ result[r] # "nil"
    BY <1>2 DEF IsTemporaryError, RunInv, PhaseInv
  <2>3. QED
    BY <2>1, <2>2, DecidedMoves DEF RC!AttemptResults
<1>3. CASE Succeeds(r)
  BY <1>3, DecidedMoves DEF Succeeds, RC!AttemptResults
<1>4. QED
  BY <1>1, <1>2, <1>3

\* shouldRetry sees that the registry is not empty.
LEMMA ShouldRetryLenMoves ==
    ASSUME TypeOK, NEW r \in Runs, RunInv(r), ShouldRetryLen(r)
    PROVE  Moves(r)
<1>1. TypeOK'
  BY DEF TypeOK, ShouldRetryLen, callVars, attemptVars, RC!RetryTypeOK
<1>2. \A q \in Runs \ {r} : Same(q)
  BY DEF ShouldRetryLen, callVars, attemptVars, Same, TypeOK
<1>3. RunInv(r)'
  BY DEF ShouldRetryLen, callVars, attemptVars, TypeOK, RunInv,
       PlaceInv, PhaseInv, FaithfulInv, LogInv, CountInv, RefusedInv, PayloadInv,
       Settled, RC!AttemptResults, RC!AbortReasons
<1>4. QED
  BY <1>1, <1>2, <1>3 DEF Moves

\* The next attempt starts.
LEMMA AgainMoves ==
    ASSUME TypeOK, NEW r \in Runs, RunInv(r), Again(r)
    PROVE  Moves(r)
<1>1. TypeOK'
  <2>1. RC!RetryTypeOK'
    <3>1. attempt[r] + 1 \in 0 .. MaxRetries
      BY ExecutionAssumption DEF TypeOK, Again, RC!Again, RC!RetryTypeOK
    <3>2. QED
      BY <3>1 DEF TypeOK, Again, RC!Again, RC!RetryTypeOK
  <2>2. QED
    BY <2>1 DEF TypeOK, Again
<1>2. \A q \in Runs \ {r} : Same(q)
  BY DEF Again, RC!Again, Same, TypeOK, RC!RetryTypeOK
<1>3. RunInv(r)'
  BY DEF Again, RC!Again, TypeOK, RC!RetryTypeOK, RunInv,
       PlaceInv, PhaseInv, FaithfulInv, LogInv, CountInv, RefusedInv, PayloadInv,
       Settled, RC!AttemptResults, RC!AbortReasons
<1>4. QED
  BY <1>1, <1>2, <1>3 DEF Moves

\* The call is aborted, and may leave its attempt behind.
LEMMA AbortedMoves ==
    ASSUME TypeOK, NEW r \in Runs, RunInv(r), NEW why \in RC!AbortReasons, Aborted(r, why)
    PROVE  Moves(r)
<1>1. TypeOK'
  BY DEF TypeOK, Aborted, RC!Abort, attemptVars, RC!RetryTypeOK
<1>2. \A q \in Runs \ {r} : Same(q)
  BY DEF Aborted, RC!Abort, attemptVars, Same, TypeOK, RC!RetryTypeOK
<1>3. RunInv(r)'
  <2>1. /\ pc[r] = "call" /\ phase[r] \in {"attempt", "wait"}
        /\ phase'[r] = "done" /\ outcome'[r] = why
        /\ worker'[r] = IF worker[r] = "running" THEN "orphan" ELSE "none"
        /\ UNCHANGED <<attempt, at, resp, result, attempts, status, log, pc, policy, temporary, payload>>
    BY DEF Aborted, RC!Abort, attemptVars, TypeOK, RC!RetryTypeOK
  <2>2. why \notin RC!AttemptResults /\ why # "refused"
    BY DEF RC!AttemptResults, RC!AbortReasons
  <2>3. ~Settled(r)'
    BY <2>1, <2>2 DEF Settled, RC!AttemptResults
  <2>4. QED
    BY <2>1, <2>2, <2>3 DEF TypeOK, RC!RetryTypeOK, RunInv,
       PlaceInv, PhaseInv, FaithfulInv, LogInv, CountInv, RefusedInv, PayloadInv
<1>4. QED
  BY <1>1, <1>2, <1>3 DEF Moves

\* The payload is made: here what the attempts left behind becomes the result.
LEMMA SnapshotMoves ==
    ASSUME TypeOK, NEW r \in Runs, RunInv(r), Snapshot(r)
    PROVE  Moves(r)
<1>. DEFINE p == Payload(r)
<1>1. /\ pc[r] = "call" /\ phase[r] = "done" /\ phase'[r] = "idle" /\ attempt'[r] = 0
      /\ outcome'[r] = "nil" /\ payload'[r] = p /\ temporary'[r] = <<>> /\ result'[r] = "nil"
      /\ pc'[r] = "record"
      /\ UNCHANGED <<worker, at, resp, attempts, status, log, policy>>
  BY DEF Snapshot, RC!Return, TypeOK, RC!RetryTypeOK
<1>2. /\ p.attempts = attempts[r] /\ p.success = (outcome[r] = "nil")
      /\ p.status = status[r] /\ p.error = LastError(r)
  BY DEF Payload
<1>3. /\ LastError(r) \in Errs \cup RC!AbortReasons \cup {"none", "nil", "refused"}
      /\ outcome[r] \in RC!AttemptResults => LastError(r) = result[r]
      /\ outcome[r] \in RC!AbortReasons \cup {"refused"} => LastError(r) = outcome[r]
      /\ outcome[r] \in RC!AttemptResults \cup RC!AbortReasons \cup {"refused"}
  BY <1>1 DEF LastError, TypeOK, RC!RetryTypeOK, RunInv, PhaseInv, LogInv, Settled,
     RC!AttemptResults, RC!AbortReasons
<1>4. TypeOK'
  <2>1. p \in [attempts : 0 .. MaxRetries + 1, success : BOOLEAN, status : Statuses \cup {0},
               error : Errs \cup RC!AbortReasons \cup {"none", "nil", "refused"}]
    BY <1>3 DEF Payload, TypeOK
  <2>2. RC!RetryTypeOK'
    <3>1. /\ phase' = [phase EXCEPT ![r] = "idle"] /\ attempt' = [attempt EXCEPT ![r] = 0]
          /\ outcome' = [outcome EXCEPT ![r] = "nil"] /\ worker' = worker
      BY DEF Snapshot, RC!Return
    <3>2. attempt' \in [Runs -> 0 .. MaxRetries]
      BY <3>1, ExecutionAssumption DEF TypeOK, RC!RetryTypeOK
    <3>3. outcome' \in [Runs -> RC!AttemptResults \cup RC!AbortReasons \cup {"refused"}]
      <4>1. outcome \in [Runs -> RC!AttemptResults \cup RC!AbortReasons \cup {"refused"}]
        BY Zenon DEF TypeOK, RC!RetryTypeOK
      <4>2. "nil" \in RC!AttemptResults \cup RC!AbortReasons \cup {"refused"}
        BY DEF RC!AttemptResults
      <4>3. QED
        BY ONLY <3>1, <4>1, <4>2
    <3>4. phase' \in [Runs -> {"idle", "attempt", "wait", "done"}]
      BY <3>1 DEF TypeOK, RC!RetryTypeOK
    <3>5. QED
      BY <3>1, <3>2, <3>3, <3>4, Zenon DEF TypeOK, RC!RetryTypeOK
  <2>3. /\ temporary' \in [Runs -> Seq(Errs)]
        /\ always' \in [Runs -> SUBSET Errs] /\ ever' \in [Runs -> SUBSET Errs]
    BY DEF TypeOK, Snapshot
  <2>4. payload' = [payload EXCEPT ![r] = p]
    BY DEF Snapshot
  <2>5. HIDE DEF p
  <2>6. payload' \in [Runs -> [attempts : 0 .. MaxRetries + 1, success : BOOLEAN,
                               status : Statuses \cup {0},
                               error : Errs \cup RC!AbortReasons \cup {"none", "nil", "refused"}]]
    BY <2>1, <2>4, Zenon DEF TypeOK
  <2>7. /\ pc' \in [Runs -> {"start", "call", "list", "record", "callback", "end"}]
        /\ result' \in [Runs -> Errs \cup {"nil"}]
    BY DEF TypeOK, Snapshot
  <2>8. UNCHANGED <<storage, at, resp, attempts, status, log, policy, recorded, sent, ctxDone, stopped>>
    BY DEF Snapshot
  <2>9. QED
    BY <2>2, <2>3, <2>6, <2>7, <2>8 DEF TypeOK
<1>5. \A q \in Runs \ {r} : Same(q)
  BY DEF Snapshot, RC!Return, Same, TypeOK, RC!RetryTypeOK
<1>6. Explained(p, log[r])
  <2>1. CASE outcome[r] \in RC!AttemptResults
    <3>1. Settled(r)
      BY <1>1, <2>1 DEF Settled
    <3>2. /\ Len(log[r]) > 0 /\ NoneOk(log[r], Len(log[r]) - 1)
          /\ result[r] = log[r][Len(log[r])].result
          /\ outcome[r] = "nil" <=> result[r] = "nil"
          /\ attempts[r] = Len(log[r]) /\ status[r] = Latest(log[r])
      BY <3>1 DEF RunInv, LogInv, CountInv
    <3>3. result[r] = "nil" <=> Ok(log[r][Len(log[r])])
      BY <3>2 DEF TypeOK, RunInv, FaithfulInv
    <3>4. result[r] \notin RC!AbortReasons
      <4>1. result[r] \in Errs \cup {"nil"}
        BY DEF TypeOK
      <4>2. QED
        BY ONLY <4>1, ExecutionAssumption DEF RC!AbortReasons
    <3>5. p.success = Ok(log[r][Len(log[r])])
      BY <1>2, <3>2, <3>3 DEF Ok
    <3>6. QED
      BY <1>2, <1>3, <2>1, <3>2, <3>4, <3>5 DEF Explained
  <2>2. CASE outcome[r] \in RC!AbortReasons
    <3>1. ~p.success
      BY <1>2, <2>2 DEF RC!AbortReasons
    <3>2. QED
      BY <1>2, <1>3, <2>2, <3>1 DEF RunInv, CountInv, Explained
  <2>3. CASE outcome[r] = "refused"
    BY <1>1, <1>2, <1>3, <2>3 DEF RunInv, RefusedInv, Explained
  <2>4. QED
    BY <1>3, <2>1, <2>2, <2>3
<1>7. RunInv(r)'
  <2>1. HIDE DEF p
  <2>2. PayloadInv(r)'
    BY <1>1, <1>6 DEF PayloadInv
  <2>3. QED
    BY <1>1, <2>2 DEF RunInv, PlaceInv, PhaseInv, FaithfulInv, LogInv, CountInv, RefusedInv, Settled
<1>8. QED
  BY <1>4, <1>5, <1>7 DEF Moves

\* The payload is recorded and sent as it is.
LEMMA EndMoves ==
    ASSUME TypeOK, NEW r \in Runs, RunInv(r),
           Record(r) \/ \E how \in {"delivered", "lost"} : SendCallback(r, how)
    PROVE  Moves(r)
<1>1. /\ pc[r] \in {"record", "callback"}
      /\ \E next \in {"callback", "end"} : pc' = [pc EXCEPT ![r] = next]
      /\ UNCHANGED <<storage, callVars, attemptVars, policy, listVars, payload, ctxDone, stopped>>
  <2>1. CASE Record(r)
    BY <2>1 DEF Record
  <2>2. CASE \E how \in {"delivered", "lost"} : SendCallback(r, how)
    BY <2>2 DEF SendCallback
  <2>3. QED
    BY <2>1, <2>2
<1>2. /\ recorded' \in [Runs -> {"no", "stored", "failed"}]
      /\ sent' \in [Runs -> {"no", "delivered", "lost"}]
  <2>1. CASE Record(r)
    BY <2>1 DEF Record, TypeOK
  <2>2. CASE \E how \in {"delivered", "lost"} : SendCallback(r, how)
    BY <2>2 DEF SendCallback, TypeOK
  <2>3. QED
    BY <2>1, <2>2
<1>3. TypeOK'
  <2>1. pc' \in [Runs -> {"start", "call", "list", "record", "callback", "end"}]
    BY <1>1 DEF TypeOK
  <2>2. QED
    BY <1>1, <1>2, <2>1 DEF TypeOK, callVars, attemptVars, RC!RetryTypeOK
<1>4. \A q \in Runs \ {r} : Same(q)
  BY <1>1 DEF callVars, attemptVars, Same, TypeOK
<1>5. RunInv(r)'
  BY <1>1 DEF callVars, attemptVars, TypeOK, RunInv,
       PlaceInv, PhaseInv, FaithfulInv, LogInv, CountInv, RefusedInv, PayloadInv,
       Settled, RC!AttemptResults, RC!AbortReasons
<1>6. QED
  BY <1>3, <1>4, <1>5 DEF Moves

--------------------------------------------------------------------------------
(***************************************************************************)
(* The environment                                                         *)
(***************************************************************************)
\* A change of the registry, or of a context, moves no run.
LEMMA EnvironmentMoves ==
    ASSUME TypeOK, ChangeRegistry \/ Cancel \/ \E r \in Runs : CancelCtx(r)
    PROVE  TypeOK' /\ \A q \in Runs : Same(q)
<1>1. CASE ChangeRegistry
  <2>1. storage' \in Seq(Errs)
    <3>1. storage \in Seq(Errs) /\ Defaults \in Seq(Errs)
      BY DefaultsAssumption DEF TypeOK
    <3>2. CASE LoadDefaults
      BY <3>1, <3>2 DEF LoadDefaults, RegisterTemporaryErrors
    <3>3. ASSUME NEW e \in UserErrs,
                 RegisterTemporaryErrors(<<e>>) \/ UnRegisterTemporaryErrors(<<e>>)
          PROVE  storage' \in Seq(Errs)
      <4>1. <<e>> \in Seq(Errs)
        BY ExecutionAssumption
      <4>2. CASE RegisterTemporaryErrors(<<e>>)
        BY <3>1, <4>1, <4>2 DEF RegisterTemporaryErrors
      <4>3. CASE UnRegisterTemporaryErrors(<<e>>)
        BY <3>1, <4>1, <4>3, UnregisterType, Zenon DEF UnRegisterTemporaryErrors
      <4>4. QED
        BY <3>3, <4>2, <4>3
    <3>4. CASE UnRegisterTemporaryErrors(Defaults)
      BY <3>1, <3>4, UnregisterType, Zenon DEF UnRegisterTemporaryErrors
    <3>5. CASE Clean
      BY <3>5 DEF Clean
    <3>6. QED
      BY <1>1, <3>2, <3>3, <3>4, <3>5 DEF ChangeRegistry
  <2>2. /\ Len(storage') <= MaxLen
        /\ UNCHANGED <<callVars, attemptVars, pc, policy, temporary, payload, recorded, sent,
                       ctxDone, stopped>>
    BY <1>1 DEF ChangeRegistry
  <2>3. always' \in [Runs -> SUBSET Errs] /\ ever' \in [Runs -> SUBSET Errs]
    <3>1. \A r \in Runs : TemporaryFor(policy[r], storage') \in SUBSET Errs
      BY DEF TemporaryFor
    <3>2. always \in [Runs -> SUBSET Errs] /\ ever \in [Runs -> SUBSET Errs]
      BY DEF TypeOK
    <3>3. /\ always' = [r \in Runs |-> IF Calling(r) THEN always[r] \cap TemporaryFor(policy[r], storage')
                                                     ELSE always[r]]
          /\ ever' = [r \in Runs |-> IF Calling(r) THEN ever[r] \cup TemporaryFor(policy[r], storage')
                                                   ELSE ever[r]]
      BY <1>1 DEF ChangeRegistry
    <3>4. QED
      BY ONLY <3>1, <3>2, <3>3
  <2>4. QED
    BY <2>1, <2>2, <2>3 DEF TypeOK, RC!RetryTypeOK, callVars, attemptVars, Same
<1>2. CASE Cancel
  BY <1>2 DEF Cancel, TypeOK, RC!RetryTypeOK, callVars, attemptVars, Same
<1>3. CASE \E r \in Runs : CancelCtx(r)
  <2>1. ctxDone' \in [Runs -> BOOLEAN]
    BY <1>3 DEF CancelCtx, TypeOK
  <2>2. UNCHANGED <<storage, callVars, attemptVars, pc, policy, listVars, payload, recorded,
                    sent, stopped>>
    BY <1>3 DEF CancelCtx
  <2>3. QED
    BY <2>1, <2>2 DEF TypeOK, RC!RetryTypeOK, callVars, attemptVars, Same
<1>4. QED
  BY <1>1, <1>2, <1>3

--------------------------------------------------------------------------------
(***************************************************************************)
(* The theorems                                                            *)
(***************************************************************************)
\* The invariant holds at first.
LEMMA InitInv == Init => IInv
<1>1. SUFFICES ASSUME Init PROVE TypeOK /\ \A r \in Runs : RunInv(r) /\ HistoryInv(r)
  BY DEF IInv
<1>2. TypeOK
  <2>1. storage \in Seq(Errs) /\ Len(storage) <= MaxLen
    <3>1. storage = <<>> \/ storage = Defaults
      BY <1>1 DEF Init, ensureRetrier, NewRegistry
    <3>2. Len(Defaults) \in Nat /\ Len(Defaults) <= MaxLen /\ MaxLen \in Nat
      BY DefaultsAssumption, ExecutionAssumption
    <3>3. CASE storage = <<>>
      BY <3>2, <3>3
    <3>4. CASE storage = Defaults
      BY <3>2, <3>4, DefaultsAssumption
    <3>5. QED
      BY <3>1, <3>3, <3>4
  <2>2. RC!RetryTypeOK
    BY <1>1, ExecutionAssumption DEF Init, RC!Init, RC!RetryTypeOK, RC!AttemptResults
  <2>3. NoPayload \in [attempts : 0 .. MaxRetries + 1, success : BOOLEAN, status : Statuses \cup {0},
                       error : Errs \cup RC!AbortReasons \cup {"none", "nil", "refused"}]
    BY ExecutionAssumption DEF NoPayload
  <2>4. payload \in [Runs -> [attempts : 0 .. MaxRetries + 1, success : BOOLEAN,
                              status : Statuses \cup {0},
                              error : Errs \cup RC!AbortReasons \cup {"none", "nil", "refused"}]]
    BY <1>1, <2>3, Zenon DEF Init
  <2>5. /\ pc \in [Runs -> {"start", "call", "list", "record", "callback", "end"}]
        /\ policy \in [Runs -> Policies]
        /\ temporary \in [Runs -> Seq(Errs)]
        /\ at \in [Runs -> {"none", "enter", "request", "answered"}]
        /\ resp \in [Runs -> Statuses \cup {0}] /\ status \in [Runs -> Statuses \cup {0}]
        /\ result \in [Runs -> Errs \cup {"nil"}]
    BY <1>1 DEF Init
  <2>6. 0 \in 0 .. MaxRetries + 1
    BY ExecutionAssumption
  <2>7. /\ attempts \in [Runs -> 0 .. MaxRetries + 1]
        /\ recorded \in [Runs -> {"no", "stored", "failed"}]
        /\ sent \in [Runs -> {"no", "delivered", "lost"}]
        /\ ctxDone \in [Runs -> BOOLEAN] /\ stopped \in BOOLEAN
    BY <1>1, <2>6 DEF Init
  <2>8. /\ log \in [Runs -> Seq([status : Statuses \cup {0}, result : Errs \cup {"nil"}])]
        /\ always \in [Runs -> SUBSET Errs] /\ ever \in [Runs -> SUBSET Errs]
    BY <1>1 DEF Init
  <2>9. QED
    BY <2>1, <2>2, <2>4, <2>5, <2>7, <2>8, Zenon DEF TypeOK
<1>3. ASSUME NEW r \in Runs PROVE RunInv(r) /\ HistoryInv(r)
  <2>1. /\ phase[r] = "idle" /\ attempt[r] = 0 /\ worker[r] = "none" /\ outcome[r] = "nil"
        /\ pc[r] = "start" /\ at[r] = "none" /\ resp[r] = 0 /\ attempts[r] = 0 /\ status[r] = 0
        /\ log[r] = <<>>
    BY <1>1 DEF Init, RC!Init
  <2>2. Len(log[r]) = 0 /\ Latest(log[r]) = 0
    BY <2>1, LatestOfNone
  <2>3. QED
    BY <2>1, <2>2 DEF RunInv, PlaceInv, PhaseInv, FaithfulInv, LogInv, CountInv, RefusedInv,
       PayloadInv, Settled, HistoryInv, Calling
<1>4. QED
  BY <1>2, <1>3

\* The steps of the goroutines of r, its requests and its callback.
RunStep(r) ==
    \/ ExecuteStep(r) \/ AttemptStep(r)
    \/ \E e \in Failures : RequestFails(r, e)
    \/ \E s \in Statuses : RequestAnswered(r, s)
    \/ \E how \in {"delivered", "lost"} : SendCallback(r, how)

\* Each of them moves r alone and keeps its invariant.
LEMMA RunStepMoves ==
    ASSUME IInv, NEW r \in Runs, RunStep(r)
    PROVE  Moves(r)
<1>1. TypeOK /\ RunInv(r)
  BY DEF IInv
<1>2. CASE ExecuteStep(r)
  BY <1>1, <1>2, BeginMoves, RefusedMoves, DecisionsMove, ShouldRetryLenMoves, AgainMoves, AbortedMoves,
     SnapshotMoves, EndMoves DEF ExecuteStep
<1>3. CASE AttemptStep(r)
  BY <1>1, <1>3, IncrementAttemptsMoves, AttemptEndsMoves DEF AttemptStep
<1>4. CASE \E e \in Failures : RequestFails(r, e)
  BY <1>1, <1>4, AttemptEndsMoves
<1>5. CASE \E s \in Statuses : RequestAnswered(r, s)
  BY <1>1, <1>5, RequestAnsweredMoves
<1>6. CASE \E how \in {"delivered", "lost"} : SendCallback(r, how)
  BY <1>1, <1>6, EndMoves
<1>7. QED
  BY <1>2, <1>3, <1>4, <1>5, <1>6 DEF RunStep

\* Without errors of its own, a job goes by the registry.
LEMMA PlainJob ==
    ASSUME NEW p, OwnErrors(p) = <<>>, NEW list \in Seq(Errs)
    PROVE  OwnErrors(p) \o list = list
OBVIOUS

\* A call begins with the errors that are temporary then.
LEMMA HistoryBegins ==
    ASSUME TypeOK, NEW r \in Runs, CallBegins(r), UNCHANGED <<storage, policy>>
    PROVE  HistoryInv(r)'
<1>. DEFINE own == OwnErrors(policy[r])
            T == TemporaryFor(policy[r], storage)
<1>1. /\ always'[r] = T /\ ever'[r] = T
      /\ temporary'[r] = buildTemporaryErrors(policy[r])
      /\ policy'[r] = policy[r] /\ storage' = storage
  BY DEF CallBegins, TypeOK
<1>2. own \in Seq(Errs) /\ storage \in Seq(Errs)
  BY ListTypes DEF TypeOK
<1>3. temporary'[r] = IF own = <<>> THEN <<>> ELSE own \o storage
  BY <1>1 DEF buildTemporaryErrors, ListTemporaryErrors
<1>4. own # <<>> => own \o storage # <<>>
  BY <1>2
<1>5. own # <<>> => \A e \in Errs : e \in T <=> Matches(e, own \o storage)
  BY <1>4, Zenon DEF TemporaryFor
<1>6. temporary'[r] = <<>> => own = <<>>
  BY <1>3, <1>4
<1>7. temporary'[r] # <<>> => own # <<>> /\ temporary'[r] = own \o storage
  BY <1>3
<1>8. T = TemporaryFor(policy'[r], storage') /\ own = OwnErrors(policy'[r])
  BY <1>1
<1>. HIDE DEF own, T
<1>9. QED
  BY <1>1, <1>5, <1>6, <1>7, <1>8 DEF HistoryInv

\* A step leaves the errors of the call of q alone.
SameHistory(q) ==
    /\ storage' = storage /\ policy'[q] = policy[q] /\ temporary'[q] = temporary[q]
    /\ always'[q] = always[q] /\ ever'[q] = ever[q]
    /\ Calling(q)' => Calling(q)

\* Then it keeps what they tell.
LEMMA SameHistoryKeeps ==
    ASSUME NEW q \in Runs, HistoryInv(q), SameHistory(q)
    PROVE  HistoryInv(q)'
BY DEF SameHistory, HistoryInv

\* The steps of a run keep it.
LEMMA RunStepHistory ==
    ASSUME IInv, NEW r \in Runs, RunStep(r), NEW q \in Runs
    PROVE  HistoryInv(q)'
<1>1. TypeOK /\ HistoryInv(q)
  BY DEF IInv
<1>2. CASE Begin(r) \/ Refused(r)
  <2>1. CallBegins(r) /\ UNCHANGED <<storage, policy>>
    BY <1>2 DEF Begin, Refused
  <2>2. CASE q = r
    BY <1>1, <2>1, <2>2, HistoryBegins
  <2>3. CASE q # r
    <3>1. SameHistory(q)
      BY <1>1, <2>1, <2>3 DEF CallBegins, SameHistory, Calling, TypeOK
    <3>2. QED
      BY <1>1, <3>1, SameHistoryKeeps
  <2>4. QED
    BY <2>2, <2>3
<1>3. CASE Snapshot(r)
  <2>1. CASE q = r
    BY <1>1, <1>3, <2>1 DEF Snapshot, HistoryInv, Calling, TypeOK
  <2>2. CASE q # r
    <3>1. SameHistory(q)
      BY <1>1, <1>3, <2>2 DEF Snapshot, SameHistory, Calling, TypeOK
    <3>2. QED
      BY <1>1, <3>1, SameHistoryKeeps
  <2>3. QED
    BY <2>1, <2>2
<1>4. CASE \/ ShouldRetry(r) \/ ShouldRetryLen(r) \/ IsTemporaryError(r) \/ Succeeds(r) \/ Again(r)
           \/ \E why \in RC!AbortReasons : Aborted(r, why)
  <2>1. UNCHANGED <<storage, policy, listVars>>
    BY <1>4 DEF ShouldRetry, ShouldRetryLen, IsTemporaryError, Succeeds, Decided, Again, Aborted
  <2>2. pc[r] \in {"call", "list"} /\ \A d \in Runs \ {r} : pc'[d] = pc[d]
    BY <1>1, <1>4 DEF ShouldRetry, ShouldRetryLen, IsTemporaryError, Succeeds, Decided, Again,
       Aborted, TypeOK
  <2>3. SameHistory(q)
    BY <2>1, <2>2 DEF SameHistory, Calling
  <2>4. QED
    BY <1>1, <2>3, SameHistoryKeeps
<1>5. CASE Record(r) \/ \E how \in {"delivered", "lost"} : SendCallback(r, how)
  <2>1. UNCHANGED <<storage, policy, listVars>>
    BY <1>5 DEF Record, SendCallback
  <2>2. pc'[r] \in {"callback", "end"} /\ \A d \in Runs \ {r} : pc'[d] = pc[d]
    BY <1>1, <1>5 DEF Record, SendCallback, TypeOK
  <2>3. SameHistory(q)
    BY <2>1, <2>2 DEF SameHistory, Calling
  <2>4. QED
    BY <1>1, <2>3, SameHistoryKeeps
<1>6. CASE \/ AttemptStep(r)
           \/ \E e \in Failures : RequestFails(r, e)
           \/ \E s \in Statuses : RequestAnswered(r, s)
  <2>1. UNCHANGED <<storage, policy, listVars, pc>>
    BY <1>6 DEF AttemptStep, IncrementAttempts, RequestCanceled, ResponseClassified,
       RequestFails, FunctionReturns, RequestAnswered
  <2>2. SameHistory(q)
    BY <2>1 DEF SameHistory, Calling
  <2>3. QED
    BY <1>1, <2>2, SameHistoryKeeps
<1>7. QED
  BY <1>2, <1>3, <1>4, <1>5, <1>6 DEF RunStep, ExecuteStep

\* So does the environment: a change of the registry is taken into account.
LEMMA EnvironmentHistory ==
    ASSUME IInv, NEW q \in Runs, ChangeRegistry \/ Cancel \/ \E r \in Runs : CancelCtx(r)
    PROVE  HistoryInv(q)'
<1>1. TypeOK /\ HistoryInv(q)
  BY DEF IInv
<1>2. CASE ChangeRegistry
  <2>1. SUFFICES ASSUME Calling(q)' PROVE HistoryInv(q)'
    BY DEF HistoryInv
  <2>2. /\ policy'[q] = policy[q] /\ temporary'[q] = temporary[q] /\ Calling(q)
    BY <1>2, <2>1 DEF ChangeRegistry, Calling
  <2>3. /\ always'[q] = always[q] \cap TemporaryFor(policy[q], storage')
        /\ ever'[q] = ever[q] \cup TemporaryFor(policy[q], storage')
    BY <1>2, <2>2, Zenon DEF ChangeRegistry
  <2>4. QED
    BY <1>1, <2>2, <2>3 DEF HistoryInv
<1>3. CASE Cancel \/ \E r \in Runs : CancelCtx(r)
  <2>1. SameHistory(q)
    BY <1>3 DEF Cancel, CancelCtx, SameHistory, Calling
  <2>2. QED
    BY <1>1, <2>1, SameHistoryKeeps
<1>4. QED
  BY <1>2, <1>3

\* A step is one of these or one of the environment.
LEMMA NextCases ==
    Next => (\E r \in Runs : RunStep(r)) \/ ChangeRegistry \/ Cancel \/ \E r \in Runs : CancelCtx(r)
BY DEF Next, RunStep

\* Every step keeps the invariant.
LEMMA NextInv ==
    ASSUME IInv, [Next]_vars
    PROVE  IInv'
<1>1. TypeOK /\ \A q \in Runs : RunInv(q) /\ HistoryInv(q)
  BY DEF IInv
<1>2. ASSUME NEW r \in Runs, RunStep(r) PROVE IInv'
  <2>1. TypeOK' /\ RunInv(r)' /\ \A q \in Runs \ {r} : Same(q)
    BY <1>2, RunStepMoves DEF Moves
  <2>2. \A q \in Runs : RunInv(q)'
    BY <1>1, <2>1, SameKeeps
  <2>3. \A q \in Runs : HistoryInv(q)'
    BY <1>2, RunStepHistory
  <2>4. QED
    BY <2>1, <2>2, <2>3 DEF IInv
<1>3. CASE ChangeRegistry \/ Cancel \/ \E r \in Runs : CancelCtx(r)
  <2>1. TypeOK' /\ \A q \in Runs : RunInv(q)'
    BY <1>1, <1>3, EnvironmentMoves, SameKeeps
  <2>2. \A q \in Runs : HistoryInv(q)'
    BY <1>3, EnvironmentHistory
  <2>3. QED
    BY <2>1, <2>2 DEF IInv
<1>4. CASE UNCHANGED vars
  <2>1. TypeOK' /\ \A q \in Runs : Same(q) /\ SameHistory(q)
    BY <1>1, <1>4 DEF vars, callVars, attemptVars, TypeOK, RC!RetryTypeOK, Same, SameHistory, Calling
  <2>2. QED
    BY <1>1, <2>1, SameKeeps, SameHistoryKeeps DEF IInv
<1>5. QED
  BY <1>2, <1>3, <1>4, NextCases

\* The variables keep their types: state.attempts, for one, never passes MaxRetries + 1.
THEOREM TypeCorrect == Spec => []TypeOK
<1>1. IInv => TypeOK
  BY DEF IInv
<1>2. QED
  BY <1>1, InitInv, NextInv, PTL DEF Spec

\* The payload that execute records and sends is explained by what happened to the
\* requests of the run, whatever abandoned attempts still write.
THEOREM PayloadsExplained == Spec => []PayloadExplained
<1>1. IInv => PayloadExplained
  BY DEF IInv, RunInv, PayloadInv, PayloadExplained
<1>2. QED
  BY <1>1, InitInv, NextInv, PTL DEF Spec

\* What RetryJustified says of a step of the run r.
Justified(r) ==
    phase[r] = "attempt" =>
       /\ phase'[r] = "wait" => result[r] \in ever[r]
       /\ outcome'[r] = "perm" => result[r] \notin always[r] \/ Emptied(r)

\* A call waits for a retry, or ends with an error, only by an answer of shouldRetry.
LEMMA OnlyShouldRetryDecides ==
    ASSUME IInv, NEW r \in Runs, RunStep(r), phase[r] = "attempt",
           ~ShouldRetry(r), ~IsTemporaryError(r)
    PROVE  phase'[r] # "wait" /\ outcome'[r] # "perm"
<1>1. TypeOK /\ pc[r] \in {"call", "list"} /\ outcome[r] = "nil"
  BY DEF IInv, RunInv, PhaseInv
<1>2. CASE UNCHANGED <<phase, outcome>>
  BY <1>1, <1>2
<1>3. CASE Succeeds(r)
  BY <1>1, <1>3 DEF Succeeds, Decided, RC!Receive, TypeOK, RC!RetryTypeOK
<1>4. CASE \E why \in RC!AbortReasons : Aborted(r, why)
  BY <1>1, <1>4 DEF Aborted, RC!Abort, RC!AbortReasons, TypeOK, RC!RetryTypeOK
<1>5. ~Begin(r) /\ ~Refused(r) /\ ~Again(r) /\ ~Snapshot(r)
  BY <1>1 DEF Begin, Refused, CallBegins, Again, RC!Again, Snapshot, RC!Return
<1>6. CASE ShouldRetryLen(r) \/ Record(r) \/ \E how \in {"delivered", "lost"} : SendCallback(r, how)
  BY <1>2, <1>6 DEF ShouldRetryLen, Record, SendCallback, callVars
<1>7. CASE \/ AttemptStep(r)
           \/ \E e \in Failures : RequestFails(r, e)
           \/ \E s \in Statuses : RequestAnswered(r, s)
  BY <1>2, <1>7 DEF AttemptStep, IncrementAttempts, RequestCanceled, ResponseClassified,
     RequestFails, FunctionReturns, RC!Finish, RequestAnswered, callVars
<1>8. QED
  BY <1>3, <1>4, <1>5, <1>6, <1>7 DEF RunStep, ExecuteStep

\* An answer of shouldRetry has one effect or the other.
LEMMA AnswerDecides ==
    ASSUME IInv, NEW r \in Runs, phase[r] = "attempt", NEW res \in {"temp", "perm"}, Decided(r, res)
    PROVE  /\ res = "temp" => outcome'[r] # "perm"
           /\ res = "perm" => phase'[r] # "wait"
<1>1. TypeOK /\ outcome[r] = "nil"
  BY DEF IInv, RunInv, PhaseInv
<1>2. QED
  BY <1>1 DEF Decided, RC!Receive, TypeOK, RC!RetryTypeOK

\* The answers of shouldRetry are justified.
LEMMA ShouldRetryJustified ==
    ASSUME IInv, NEW r \in Runs, ShouldRetry(r) \/ IsTemporaryError(r)
    PROVE  Justified(r)
<1>1. TypeOK /\ RunInv(r) /\ HistoryInv(r)
  BY DEF IInv
<1>2. /\ phase[r] = "attempt" /\ Calling(r) /\ result[r] \in Errs /\ storage \in Seq(Errs)
  BY <1>1 DEF ShouldRetry, IsTemporaryError, RunInv, PhaseInv, Calling, TypeOK
<1>3. /\ always[r] \subseteq TemporaryFor(policy[r], storage)
      /\ TemporaryFor(policy[r], storage) \subseteq ever[r]
      /\ temporary[r] = <<>> => OwnErrors(policy[r]) = <<>>
      /\ temporary[r] # <<>> => /\ Matches(result[r], temporary[r]) => result[r] \in ever[r]
                                /\ result[r] \in always[r] => Matches(result[r], temporary[r])
  BY <1>1, <1>2 DEF HistoryInv
<1>4. temporary[r] = <<>> =>
         (result[r] \in TemporaryFor(policy[r], storage) <=> storage = <<>> \/ Matches(result[r], storage))
  <2>1. SUFFICES ASSUME temporary[r] = <<>>
                 PROVE  result[r] \in TemporaryFor(policy[r], storage)
                           <=> storage = <<>> \/ Matches(result[r], storage)
    OBVIOUS
  <2>2. OwnErrors(policy[r]) \o storage = storage
    BY <1>2, <1>3, <2>1, PlainJob
  <2>3. QED
    BY <1>2, <2>2, Zenon DEF TemporaryFor
<1>5. CASE /\ temporary[r] # <<>>
           /\ Decided(r, IF Matches(result[r], temporary[r]) THEN "temp" ELSE "perm")
  <2>1. CASE Matches(result[r], temporary[r])
    BY <1>2, <1>3, <1>5, <2>1, AnswerDecides DEF Justified
  <2>2. CASE ~Matches(result[r], temporary[r])
    BY <1>2, <1>3, <1>5, <2>2, AnswerDecides DEF Justified
  <2>3. QED
    BY <2>1, <2>2
<1>6. CASE temporary[r] = <<>> /\ RegistryLen = 0 /\ Decided(r, "temp")
  <2>1. storage = <<>>
    BY <1>2, <1>6 DEF RegistryLen
  <2>2. result[r] \in ever[r]
    BY <1>3, <1>4, <1>6, <2>1
  <2>3. QED
    BY <1>2, <1>6, <2>2, AnswerDecides DEF Justified
<1>7. CASE IsTemporaryError(r)
  <2>1. temporary[r] = <<>> /\ pc[r] = "list"
    BY <1>1, <1>7 DEF IsTemporaryError, RunInv, PhaseInv
  <2>2. Decided(r, IF Matches(result[r], storage) THEN "temp" ELSE "perm")
    BY <1>7 DEF IsTemporaryError, ListTemporaryErrors
  <2>3. CASE Matches(result[r], storage)
    BY <1>2, <1>3, <1>4, <2>1, <2>2, <2>3, AnswerDecides DEF Justified
  <2>4. CASE ~Matches(result[r], storage)
    <3>1. result[r] \notin always[r] \/ Emptied(r)
      BY <1>3, <1>4, <2>1, <2>4 DEF Emptied, ListTemporaryErrors
    <3>2. QED
      BY <1>2, <2>2, <2>4, <3>1, AnswerDecides DEF Justified
  <2>5. QED
    BY <2>3, <2>4
<1>8. QED
  BY <1>5, <1>6, <1>7 DEF ShouldRetry

\* However the registry changes during a call, an error that is retried was temporary at
\* some moment of it, and one that was temporary all the time is not final, unless the
\* registry is emptied between the two reads of shouldRetry.
THEOREM RetriesJustified == Spec => RetryJustified
<1>1. ASSUME IInv, [Next]_vars
      PROVE  [\A r \in Runs : Justified(r)]_vars
  <2>1. SUFFICES ASSUME Next, NEW r \in Runs PROVE Justified(r)
    BY <1>1
  <2>2. CASE Same(r)
    BY <1>1, <2>2 DEF Same, Justified, IInv, RunInv, PhaseInv
  <2>3. ASSUME NEW q \in Runs, RunStep(q) PROVE Justified(r)
    <3>1. CASE q # r
      BY <1>1, <2>2, <2>3, <3>1, RunStepMoves DEF Moves
    <3>2. CASE q = r
      BY <1>1, <2>3, <3>2, OnlyShouldRetryDecides, ShouldRetryJustified DEF Justified
    <3>3. QED
      BY <3>1, <3>2
  <2>4. CASE ChangeRegistry \/ Cancel \/ \E q \in Runs : CancelCtx(q)
    BY <1>1, <2>2, <2>4, EnvironmentMoves DEF IInv
  <2>5. QED
    BY <2>1, <2>3, <2>4, NextCases
<1>2. QED
  BY <1>1, InitInv, NextInv, PTL DEF Spec, RetryJustified, Justified

\* Unregistering an error makes no error permanent that is not that error and does not
\* wrap it.
THEOREM UnRegisterSparesOthers == Spec => UnRegisterSpares
<1>1. ASSUME TypeOK, NEW t \in Errs, UnRegisterTemporaryErrors(<<t>>),
             NEW e \in Errs, Matches(e, storage), ~Matches(e, storage')
      PROVE  <<e, t>> \in Is
  <2>1. storage \in Seq(Errs)
    BY <1>1 DEF TypeOK
  <2>2. storage' = Without(storage, t)
    BY <1>1, UnregisterOne, Zenon DEF UnRegisterTemporaryErrors
  <2>3. PICK i \in 1 .. Len(storage) : <<storage[i], t>> \in Is /\ storage' = RemoveAt(storage, i)
    BY <1>1, <2>1, <2>2, WithoutOne
  <2>4. PICK j \in 1 .. Len(storage) : <<e, storage[j]>> \in Is
    <3>1. DOMAIN storage = 1 .. Len(storage)
      BY <2>1
    <3>2. QED
      BY <1>1, <3>1, Zenon DEF Matches
  <2>5. storage' \in Seq(Errs) /\ \A k \in 1 .. Len(storage) : k # i =>
            \E m \in 1 .. Len(storage') : storage'[m] = storage[k]
    <3>1. /\ RemoveAt(storage, i) \in Seq(Errs)
          /\ \A k \in 1 .. Len(storage) : k # i =>
                \E m \in 1 .. Len(RemoveAt(storage, i)) : RemoveAt(storage, i)[m] = storage[k]
      BY <2>1, RemoveAtProperty
    <3>2. QED
      BY <2>3, <3>1
  <2>6. \A m \in 1 .. Len(storage') : <<e, storage'[m]>> \notin Is
    <3>1. DOMAIN storage' = 1 .. Len(storage')
      BY <2>5
    <3>2. QED
      BY <1>1, <3>1 DEF Matches
  <2>7. i = j
    BY <2>4, <2>5, <2>6, Zenon
  <2>8. storage[i] \in Errs
    BY <2>1
  <2>9. QED
    BY <2>3, <2>4, <2>7, <2>8, IsAssumption
<1>2. TypeOK => [\A t \in Errs : UnRegisterTemporaryErrors(<<t>>) =>
                   \A e \in Errs : Matches(e, storage) /\ ~Matches(e, storage') => <<e, t>> \in Is]_vars
  BY <1>1, Zenon
<1>3. QED
  BY <1>2, TypeCorrect, PTL DEF UnRegisterSpares
================================================================================
