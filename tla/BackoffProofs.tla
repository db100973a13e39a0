----------------------------- MODULE BackoffProofs -----------------------------
(***************************************************************************)
(* What TLAPS proves about Backoff, for every width of the integers and    *)
(* all options: RetriesFitTimeout and BackoffHonoured.                     *)
(***************************************************************************)
EXTENDS Backoff, DataInduction

--------------------------------------------------------------------------------
(***************************************************************************)
(* Powers                                                                  *)
(***************************************************************************)
\* p is the table of the powers of b up to the n-th.
Table(p, b, n) == p = [i \in 0 .. n |-> IF i = 0 THEN 1 ELSE b * p[i - 1]]

\* Pow looks its result up in the table ...
LEMMA PowIsLookup ==
    ASSUME NEW b, NEW n
    PROVE  Pow(b, n) = (CHOOSE p : Table(p, b, n))[n]
BY DEF Pow, Table

\* ... which exists.
LEMMA TableExists ==
    ASSUME NEW b
    PROVE  \A n \in Nat : \E p : Table(p, b, n)
<1>. DEFINE T == {n \in Nat : \E p : Table(p, b, n)}
<1>1. 0 \in T
  <2>1. Table([i \in 0 .. 0 |-> 1], b, 0)
    BY DEF Table
  <2>2. QED
    BY <2>1
<1>2. ASSUME NEW n \in Nat, n \in T PROVE n + 1 \in T
  <2>1. PICK p : Table(p, b, n)
    BY <1>2
  <2>. DEFINE q == [i \in 0 .. n + 1 |-> IF i = n + 1 THEN b * p[n] ELSE p[i]]
  <2>2. ASSUME NEW i \in 0 .. n + 1 PROVE q[i] = IF i = 0 THEN 1 ELSE b * q[i - 1]
    <3>1. CASE i = n + 1
      <4>1. i - 1 = n /\ n \in 0 .. n + 1 /\ n # n + 1 /\ i # 0
        BY <3>1
      <4>2. QED
        BY <3>1, <4>1
    <3>2. CASE i # n + 1
      <4>1. i \in 0 .. n
        BY <3>2
      <4>2. p[i] = IF i = 0 THEN 1 ELSE b * p[i - 1]
        BY <2>1, <4>1, Zenon DEF Table
      <4>3. i # 0 => i - 1 \in 0 .. n + 1 /\ i - 1 # n + 1
        BY <4>1
      <4>4. QED
        BY <3>2, <4>2, <4>3
    <3>3. QED
      BY <3>1, <3>2
  <2>3. Table(q, b, n + 1)
    BY <2>2, Zenon DEF Table
  <2>4. QED
    BY <2>3
<1>3. \A n \in Nat : n \in T
  <2>. HIDE DEF T
  <2>1. QED
    BY <1>1, <1>2, NaturalsInSet
<1>4. QED
  BY <1>3

\* A longer table begins with the shorter one.
LEMMA TablesAgree ==
    ASSUME NEW b, NEW m \in Nat, NEW n \in Nat, m <= n,
           NEW p, Table(p, b, m), NEW q, Table(q, b, n)
    PROVE  \A i \in 0 .. m : p[i] = q[i]
<1>. DEFINE T == {i \in Nat : i <= m => p[i] = q[i]}
<1>1. 0 \in T
  <2>1. p[0] = 1 /\ q[0] = 1
    BY DEF Table
  <2>2. QED
    BY <2>1
<1>2. ASSUME NEW i \in Nat, i \in T PROVE i + 1 \in T
  <2>1. SUFFICES ASSUME i + 1 <= m PROVE p[i + 1] = q[i + 1]
    OBVIOUS
  <2>2. p[i] = q[i]
    BY <1>2, <2>1
  <2>3. i + 1 \in 0 .. m /\ i + 1 \in 0 .. n /\ i + 1 # 0 /\ (i + 1) - 1 = i
    BY <2>1
  <2>4. p[i + 1] = b * p[(i + 1) - 1] /\ q[i + 1] = b * q[(i + 1) - 1]
    BY <2>3, Zenon DEF Table
  <2>5. QED
    BY <2>2, <2>3, <2>4
<1>3. \A i \in Nat : i \in T
  <2>. HIDE DEF T
  <2>1. QED
    BY <1>1, <1>2, NaturalsInSet
<1>4. QED
  BY <1>3

\* Pow is the power.
LEMMA PowRecursive ==
    ASSUME NEW b
    PROVE  /\ Pow(b, 0) = 1
           /\ \A n \in Nat : Pow(b, n + 1) = b * Pow(b, n)
<1>. DEFINE P(n) == CHOOSE p : Table(p, b, n)
<1>1. \A n \in Nat : Table(P(n), b, n)
  BY TableExists, Zenon
<1>2. \A n \in Nat : Pow(b, n) = P(n)[n]
  BY PowIsLookup, Zenon
<1>. HIDE DEF P
<1>3. Pow(b, 0) = 1
  <2>1. P(0)[0] = 1
    BY <1>1 DEF Table
  <2>2. QED
    BY <1>2, <2>1
<1>4. ASSUME NEW n \in Nat PROVE Pow(b, n + 1) = b * Pow(b, n)
  <2>1. n + 1 \in Nat /\ n <= n + 1 /\ n \in 0 .. n /\ n + 1 \in 0 .. n + 1 /\ n + 1 # 0 /\ (n + 1) - 1 = n
    OBVIOUS
  <2>2. P(n + 1)[n + 1] = b * P(n + 1)[(n + 1) - 1]
    BY <1>1, <2>1, Zenon DEF Table
  <2>3. P(n)[n] = P(n + 1)[n]
    <3>1. Table(P(n), b, n) /\ Table(P(n + 1), b, n + 1)
      BY <1>1, <2>1
    <3>2. \A i \in 0 .. n : P(n)[i] = P(n + 1)[i]
      BY <2>1, <3>1, TablesAgree
    <3>3. QED
      BY <2>1, <3>2
  <2>4. QED
    <3>1. Pow(b, n) = P(n)[n] /\ Pow(b, n + 1) = P(n + 1)[n + 1]
      BY <1>2, <2>1
    <3>2. QED
      BY <2>1, <2>2, <2>3, <3>1
<1>5. QED
  BY <1>3, <1>4

\* A product grows with its factors.
LEMMA ProductGrows ==
    ASSUME NEW a \in Nat, NEW x \in Nat, NEW y \in Nat, x <= y
    PROVE  a * x \in Nat /\ a * y \in Nat /\ a * x <= a * y
OBVIOUS

\* Powers are positive, and grow with their base.
LEMMA PowFacts ==
    ASSUME NEW b \in Nat \ {0}, NEW c \in Nat \ {0}, b <= c
    PROVE  \A n \in Nat : Pow(b, n) \in Nat \ {0} /\ Pow(c, n) \in Nat \ {0} /\ Pow(b, n) <= Pow(c, n)
<1>. DEFINE T == {n \in Nat : /\ Pow(b, n) \in Nat \ {0} /\ Pow(c, n) \in Nat \ {0}
                              /\ Pow(b, n) <= Pow(c, n)}
<1>1. 0 \in T
  BY PowRecursive
<1>2. ASSUME NEW n \in Nat, n \in T PROVE n + 1 \in T
  <2>1. \A x, y \in Nat \ {0} : x <= y => b * x \in Nat \ {0} /\ c * y \in Nat \ {0} /\ b * x <= c * y
    <3>1. SUFFICES ASSUME NEW x \in Nat \ {0}, NEW y \in Nat \ {0}, x <= y
                   PROVE  b * x \in Nat \ {0} /\ c * y \in Nat \ {0} /\ b * x <= c * y
      OBVIOUS
    <3>2. b * x <= b * y /\ y * b <= y * c
      BY <3>1, ProductGrows
    <3>3. b * y <= c * y
      BY <3>2
    <3>4. b * x > 0 /\ c * y > 0
      OBVIOUS
    <3>5. b * x \in Nat /\ c * y \in Nat /\ b * y \in Nat
      OBVIOUS
    <3>6. QED
      BY <3>2, <3>3, <3>4, <3>5
  <2>2. Pow(b, n + 1) = b * Pow(b, n) /\ Pow(c, n + 1) = c * Pow(c, n)
    BY PowRecursive
  <2>3. QED
    BY <1>2, <2>1, <2>2
<1>3. \A n \in Nat : n \in T
  <2>. HIDE DEF T
  <2>1. QED
    BY <1>1, <1>2, NaturalsInSet
<1>4. QED
  BY <1>3

--------------------------------------------------------------------------------
(***************************************************************************)
(* The backoff                                                             *)
(***************************************************************************)
\* Division, as multiplication.
LEMMA Division ==
    ASSUME NEW a \in Nat, NEW d \in Nat \ {0}
    PROVE  /\ a \div d \in Nat
           /\ (a \div d) * d <= a
           /\ a < (a \div d + 1) * d
OBVIOUS

\* A quotient is at least what fits into it.
LEMMA QuotientAtLeast ==
    ASSUME NEW i \in Nat, NEW a \in Nat, NEW d \in Nat \ {0}, i * d <= a
    PROVE  a \div d \in Nat /\ a \div d >= i
<1>. DEFINE e == a \div d
<1>1. e \in Nat /\ a < (e + 1) * d
  BY Division
<1>. HIDE DEF e
<1>2. i * d < (e + 1) * d
  BY <1>1
<1>3. i < e + 1
  <2>1. SUFFICES ASSUME i >= e + 1 PROVE FALSE
    BY <1>1
  <2>2. d * (e + 1) <= d * i
    BY <1>1, <2>1, ProductGrows
  <2>3. QED
    BY <1>1, <1>2, <2>2
<1>4. QED
  BY <1>1, <1>3 DEF e

\* From one attempt to the next, with a / d the backoff of the one: if its quotient is no
\* more than t, the next one is no more than m / k times t + 1.
LEMMA QuotientGrows ==
    ASSUME NEW a \in Nat, NEW d \in Nat \ {0}, NEW m \in Nat \ {0}, NEW k \in Nat \ {0},
           NEW t \in Nat \ {0}, a \div d <= t
    PROVE  (a * m) \div (d * k) <= (m * (t + 1)) \div k
<1>. DEFINE e == a \div d
            f == (a * m) \div (d * k)
<1>1. a * m \in Nat /\ d * k \in Nat \ {0} /\ m * (t + 1) \in Nat
  <2>1. d * k \in Nat /\ d * k > 0
    OBVIOUS
  <2>2. QED
    BY <2>1
<1>2. e \in Nat /\ a < (e + 1) * d
  BY Division
<1>3. f \in Nat /\ f * (d * k) <= a * m
  BY <1>1, Division
<1>4. e <= t
  OBVIOUS
<1>. HIDE DEF e, f
<1>5. a * m <= (m * (t + 1)) * d
  <2>1. d * (e + 1) <= d * (t + 1)
    BY <1>2, <1>4, ProductGrows
  <2>2. a <= d * (t + 1) /\ d * (t + 1) \in Nat
    BY <1>2, <2>1
  <2>3. m * a <= m * (d * (t + 1))
    BY ONLY <2>2, a \in Nat, m \in Nat \ {0}, ProductGrows
  <2>4. m * (d * (t + 1)) = (m * (t + 1)) * d /\ m * a = a * m
    OBVIOUS
  <2>5. QED
    BY ONLY <2>3, <2>4
<1>6. (f * k) * d <= (m * (t + 1)) * d
  <2>1. f * (d * k) = (f * k) * d
    BY <1>3
  <2>2. f * (d * k) \in Nat
    BY <1>3
  <2>3. (m * (t + 1)) * d \in Nat
    OBVIOUS
  <2>4. QED
    BY ONLY <1>1, <1>3, <1>5, <2>1, <2>2, <2>3
<1>7. f * k <= m * (t + 1)
  <2>. DEFINE x == f * k
              y == m * (t + 1)
  <2>1. x \in Nat /\ y \in Nat /\ x * d <= y * d
    BY <1>1, <1>3, <1>6
  <2>. HIDE DEF x, y
  <2>2. x <= y
    <3>1. SUFFICES ASSUME y + 1 <= x PROVE FALSE
      BY <2>1
    <3>2. d * (y + 1) <= d * x
      BY <2>1, <3>1, ProductGrows
    <3>3. d * (y + 1) = y * d + d /\ d * x = x * d /\ y * d \in Nat /\ x * d \in Nat
      BY <2>1
    <3>4. QED
      BY <2>1, <3>2, <3>3
  <2>3. QED
    BY <2>2 DEF x, y
<1>8. (m * (t + 1)) \div k >= f
  BY ONLY <1>1, <1>3, <1>7, k \in Nat \ {0}, QuotientAtLeast
<1>9. (m * (t + 1)) \div k \in Nat
  BY <1>1, Division
<1>10. QED
  BY <1>3, <1>8, <1>9 DEF f

\* The Retriers that options make.
RetrierType == [maxRetries : Int, interval : Int, jitter : Int, timeout : Int,
                num : Nat \ {0}, den : Nat \ {0}]

\* The backoff starts at the interval, never falls below it, and grows by no more than
\* the factor.
LEMMA BackoffGrows ==
    ASSUME NEW o \in RetrierType, o.interval > 0, o.timeout > 0, o.num > o.den, NEW n \in Nat
    PROVE  /\ ExactBackoff(o, n) \in Nat
           /\ ExactBackoff(o, n) >= o.interval
           /\ ExactBackoff(o, 0) = o.interval
           /\ ExactBackoff(o, n) <= o.timeout => ExactBackoff(o, n + 1) <= LongestBackoff(o)
<1>. DEFINE P == Pow(o.num, n)
            Q == Pow(o.den, n)
<1>1. /\ o.interval \in Nat \ {0} /\ o.timeout \in Nat \ {0}
      /\ o.num \in Nat \ {0} /\ o.den \in Nat \ {0} /\ o.den <= o.num
  BY DEF RetrierType
<1>2. P \in Nat \ {0} /\ Q \in Nat \ {0} /\ Q <= P
  BY <1>1, PowFacts
<1>3. ExactBackoff(o, n) = (o.interval * P) \div Q
  BY DEF ExactBackoff
<1>4. ExactBackoff(o, n + 1) = ((o.interval * P) * o.num) \div (Q * o.den)
  <2>1. Pow(o.num, n + 1) = o.num * P /\ Pow(o.den, n + 1) = o.den * Q
    BY PowRecursive
  <2>. HIDE DEF P, Q
  <2>2. o.interval * (o.num * P) = (o.interval * P) * o.num /\ o.den * Q = Q * o.den
    BY <1>1, <1>2
  <2>3. QED
    BY <2>1, <2>2 DEF ExactBackoff
<1>5. ExactBackoff(o, 0) = o.interval
  <2>1. Pow(o.num, 0) = 1 /\ Pow(o.den, 0) = 1
    BY PowRecursive
  <2>2. QED
    BY <1>1, <2>1 DEF ExactBackoff
<1>. HIDE DEF P, Q
<1>7. o.interval * P \in Nat /\ o.interval * Q <= o.interval * P
  BY <1>1, <1>2, ProductGrows
<1>8. ExactBackoff(o, n) \in Nat /\ ExactBackoff(o, n) >= o.interval
  BY <1>1, <1>2, <1>3, <1>7, QuotientAtLeast
<1>9. ExactBackoff(o, n) <= o.timeout => ExactBackoff(o, n + 1) <= LongestBackoff(o)
  <2>1. SUFFICES ASSUME ExactBackoff(o, n) <= o.timeout
                 PROVE  ExactBackoff(o, n + 1) <= LongestBackoff(o)
    OBVIOUS
  <2>. DEFINE a == o.interval * P
  <2>2. a \in Nat /\ a \div Q <= o.timeout
    BY <1>3, <1>7, <2>1
  <2>3. ExactBackoff(o, n + 1) = (a * o.num) \div (Q * o.den)
    BY <1>4
  <2>. HIDE DEF a
  <2>4. (a * o.num) \div (Q * o.den) <= LongestBackoff(o)
    BY ONLY <1>1, <1>2, <2>2, QuotientGrows, Zenon DEF LongestBackoff
  <2>5. QED
    BY ONLY <2>3, <2>4, Zenon
<1>10. QED
  BY <1>5, <1>8, <1>9

\* A number that fits is kept as it is.
LEMMA WrapKeeps ==
    ASSUME NEW x \in Int, MinInt <= x, x <= MaxInt
    PROVE  Wrap(x) = x
<1>. DEFINE y == x - MinInt
            w == 2 * (MaxInt + 1)
<1>1. y \in Nat /\ w \in Nat \ {0} /\ y < w
  BY MaxIntAssumption DEF MinInt
<1>. HIDE DEF y, w
<1>2. y % w = y
  BY <1>1
<1>3. Wrap(x) = y + MinInt
  BY <1>2 DEF Wrap, y, w
<1>4. QED
  BY <1>3, MaxIntAssumption DEF y, MinInt

\* What the machine keeps of a number is a number.
LEMMA WrapType ==
    ASSUME NEW x \in Int
    PROVE  Wrap(x) \in Int
<1>1. x - MinInt \in Int /\ 2 * (MaxInt + 1) \in Nat \ {0} /\ MinInt \in Int
  BY MaxIntAssumption DEF MinInt
<1>2. (x - MinInt) % (2 * (MaxInt + 1)) \in Int
  BY <1>1
<1>3. QED
  BY <1>1, <1>2 DEF Wrap

--------------------------------------------------------------------------------
(***************************************************************************)
(* The inductive invariant                                                 *)
(***************************************************************************)
BackoffType ==
    /\ callPc \in {"new", "ready", "attempt", "wait", "end"}
    /\ opts \in RetrierType
    /\ attempt \in Nat /\ now \in Nat /\ wait \in Int

\* Only a Retrier that Validate accepts attempts anything.
CallInv ==
    /\ callPc \in {"new", "ready"} => attempt = 0
    /\ callPc \in {"attempt", "wait"} => Validate(opts)

\* The next backoff is one factor away from a wait that the timeout allowed, so that its
\* arithmetic is exact.
RoomInv ==
    Roomy(opts) =>
       /\ callPc \in {"attempt", "wait"} => ExactBackoff(opts, attempt) <= LongestBackoff(opts)
       /\ callPc = "wait" => /\ wait >= ExactBackoff(opts, attempt)
                             /\ wait < ExactBackoff(opts, attempt) + opts.jitter

\* The inductive invariant.
BInv == BackoffType /\ CallInv /\ RoomInv /\ RetriesFitTimeout

\* The inductive invariant holds at the start.
LEMMA BackoffInitial == BackoffInit => BInv
<1>1. SUFFICES ASSUME BackoffInit PROVE BInv
  OBVIOUS
<1>2. DefaultOptions \in RetrierType
  BY OptionsAssumption DEF RetrierType
<1>3. QED
  BY <1>1, <1>2 DEF BackoffInit, BInv, BackoffType, CallInv, RoomInv, RetriesFitTimeout

\* The numbers of an accepted Retrier with room for its backoff.
LEMMA AcceptedNumbers ==
    ASSUME NEW o \in RetrierType, Validate(o)
    PROVE  /\ o.interval \in Nat \ {0} /\ o.jitter \in Nat \ {0} /\ o.timeout \in Nat \ {0}
           /\ o.num \in Nat \ {0} /\ o.den \in Nat \ {0} /\ o.maxRetries \in Nat
           /\ o.interval < o.timeout /\ o.num > o.den
BY DEF RetrierType, Validate

\* The bound of Roomy is more than the timeout.
LEMMA LongestIsNat ==
    ASSUME NEW o \in RetrierType, Validate(o)
    PROVE  LongestBackoff(o) \in Nat /\ o.timeout + 1 <= LongestBackoff(o)
<1>1. o.timeout + 1 \in Nat /\ o.num \in Nat \ {0} /\ o.den \in Nat \ {0} /\ o.den <= o.num
  BY AcceptedNumbers
<1>2. (o.timeout + 1) * o.den <= (o.timeout + 1) * o.num /\ (o.timeout + 1) * o.num \in Nat
  BY <1>1, ProductGrows
<1>3. (o.timeout + 1) * o.num = o.num * (o.timeout + 1)
  BY <1>1
<1>4. QED
  BY <1>1, <1>2, <1>3, QuotientAtLeast DEF LongestBackoff

\* The wait that waitRetry computes is the backoff and a jitter, without any overflow.
LEMMA WaitIsExact ==
    ASSUME NEW o \in RetrierType, Validate(o), Roomy(o), NEW n \in Nat,
           ExactBackoff(o, n) <= LongestBackoff(o),
           NEW b \in BackoffDurations(o, n), NEW j \in 0 .. o.jitter - 1
    PROVE  /\ Wrap(b + j) \in Nat
           /\ Wrap(b + j) >= ExactBackoff(o, n)
           /\ Wrap(b + j) < ExactBackoff(o, n) + o.jitter
<1>. DEFINE E == ExactBackoff(o, n)
            R == LongestBackoff(o)
<1>1. /\ o.interval > 0 /\ o.timeout > 0 /\ o.num > o.den
      /\ o.jitter \in Nat \ {0} /\ o.num \in Nat /\ o.timeout \in Nat
  BY AcceptedNumbers
<1>2. E \in Nat
  BY <1>1, BackoffGrows
<1>3. R \in Nat /\ E <= R /\ R + o.jitter <= MaxInt
  BY <1>1, LongestIsNat DEF Roomy
<1>. HIDE DEF E, R
<1>4. E <= MaxInt
  BY <1>1, <1>2, <1>3, MaxIntAssumption
<1>5. b = E
  BY <1>4 DEF BackoffDurations, E
<1>6. j \in Nat /\ j < o.jitter
  BY <1>1
<1>7. b + j \in Nat /\ b + j <= MaxInt /\ MinInt <= b + j
  BY <1>1, <1>2, <1>3, <1>5, <1>6, MaxIntAssumption DEF MinInt
<1>8. Wrap(b + j) = b + j
  BY <1>7, WrapKeeps
<1>9. QED
  BY <1>1, <1>2, <1>5, <1>6, <1>7, <1>8 DEF E

\* A wait that ends before the timeout is the backoff; the next one has room.
LEMMA ElapsedInTime ==
    ASSUME BInv, Roomy(opts), BackoffElapsed
    PROVE  /\ wait \in Nat /\ wait >= opts.interval
           /\ now' = now + wait /\ now' <= opts.timeout
           /\ ExactBackoff(opts, attempt + 1) <= LongestBackoff(opts)
<1>1. opts \in RetrierType /\ attempt \in Nat /\ now \in Nat /\ wait \in Int /\ Validate(opts)
  BY DEF BInv, BackoffType, CallInv, BackoffElapsed
<1>2. /\ opts.interval \in Nat \ {0} /\ opts.timeout \in Nat \ {0} /\ opts.num > opts.den
      /\ opts.jitter \in Nat \ {0}
  BY <1>1, AcceptedNumbers
<1>3. /\ ExactBackoff(opts, attempt) \in Nat
      /\ ExactBackoff(opts, attempt) >= opts.interval
      /\ ExactBackoff(opts, attempt) <= opts.timeout
            => ExactBackoff(opts, attempt + 1) <= LongestBackoff(opts)
  BY <1>1, <1>2, BackoffGrows
<1>4. wait >= ExactBackoff(opts, attempt)
  BY DEF BInv, RoomInv, BackoffElapsed
<1>5. wait \in Nat /\ wait > 0 /\ wait >= opts.interval
  BY <1>1, <1>2, <1>3, <1>4
<1>6. now' = now + wait /\ now + wait <= opts.timeout
  BY <1>1, <1>5 DEF BackoffElapsed, Due
<1>7. QED
  BY <1>1, <1>2, <1>3, <1>4, <1>5, <1>6

\* Every step keeps the inductive invariant.
LEMMA BackoffInductive == BInv /\ [BackoffNext]_backoffVars => BInv'
<1>1. SUFFICES ASSUME BInv, [BackoffNext]_backoffVars PROVE BInv'
  OBVIOUS
<1>. USE DEF BInv
<1>2. opts \in RetrierType /\ attempt \in Nat /\ now \in Nat /\ wait \in Int
  BY <1>1 DEF BackoffType
<1>3. ASSUME NEW o \in Options, NewRetrier(o) PROVE BInv'
  <2>1. o \in RetrierType
    BY OptionsAssumption DEF RetrierType
  <2>2. attempt' = 0 /\ callPc' = "ready" /\ opts' = o /\ now' = now /\ wait' = wait
    BY <1>1, <1>3 DEF NewRetrier, applyOptions, CallInv
  <2>3. QED
    BY <1>2, <2>1, <2>2 DEF BackoffType, CallInv, RoomInv, RetriesFitTimeout
<1>4. CASE Do
  <2>1. opts' = opts /\ attempt' = 0 /\ attempt = 0 /\ now' = now /\ wait' = wait
    BY <1>1, <1>4 DEF Do, CallInv
  <2>2. CASE Validate(opts)
    <3>1. callPc' = "attempt"
      BY <1>4, <2>2 DEF Do
    <3>2. /\ opts.interval \in Nat \ {0} /\ opts.timeout \in Nat \ {0} /\ opts.num > opts.den
          /\ opts.num \in Nat \ {0} /\ opts.interval < opts.timeout
      BY <1>2, <2>2, AcceptedNumbers
    <3>3. ExactBackoff(opts, 0) = opts.interval
      BY <1>2, <3>2, BackoffGrows
    <3>4. LongestBackoff(opts) \in Nat /\ opts.timeout + 1 <= LongestBackoff(opts)
      BY <1>2, <2>2, LongestIsNat
    <3>5. opts.interval <= LongestBackoff(opts)
      BY <3>2, <3>4
    <3>6. BackoffType' /\ CallInv'
      BY <1>2, <2>1, <2>2, <3>1 DEF BackoffType, CallInv
    <3>7. RoomInv'
      BY <2>1, <3>1, <3>3, <3>5 DEF RoomInv
    <3>8. RetriesFitTimeout'
      BY <2>1 DEF RetriesFitTimeout
    <3>9. QED
      BY <3>6, <3>7, <3>8
  <2>3. CASE ~Validate(opts)
    <3>1. callPc' = "end"
      BY <1>4, <2>3 DEF Do
    <3>2. QED
      BY <1>2, <2>1, <3>1 DEF BackoffType, CallInv, RoomInv, RetriesFitTimeout
  <2>4. QED
    BY <2>2, <2>3
<1>5. ASSUME NEW t \in AttemptTimes, Fails(t) PROVE BInv'
  <2>1. t \in Nat /\ now' = now + t /\ opts' = opts /\ attempt' = attempt /\ callPc = "attempt"
    BY <1>5, OptionsAssumption DEF Fails
  <2>2. Validate(opts)
    BY <1>1, <2>1 DEF CallInv
  <2>3. /\ opts.interval \in Nat \ {0} /\ opts.timeout \in Nat \ {0} /\ opts.num > opts.den
        /\ opts.jitter \in Nat \ {0}
    BY <1>2, <2>2, AcceptedNumbers
  <2>4. /\ ExactBackoff(opts, attempt) \in Nat
        /\ ExactBackoff(opts, attempt) >= opts.interval
    BY <1>2, <2>3, BackoffGrows
  <2>5. now' \in Nat /\ now <= now' /\ attempt * opts.interval \in Nat
    BY <1>2, <2>1, <2>3
  <2>6. CASE attempt = opts.maxRetries
    <3>1. callPc' = "end" /\ wait' = wait
      BY <1>5, <2>6 DEF Fails
    <3>2. BackoffType' /\ CallInv' /\ RoomInv'
      BY <1>2, <2>1, <2>5, <3>1 DEF BackoffType, CallInv, RoomInv
    <3>3. RetriesFitTimeout'
      BY <1>1, <1>2, <2>1, <2>5, <3>1 DEF RetriesFitTimeout, Roomy
    <3>4. QED
      BY <3>2, <3>3
  <2>7. CASE attempt # opts.maxRetries
    <3>1. PICK b \in BackoffDurations(opts, attempt), j \in 0 .. opts.jitter - 1 :
             wait' = Wrap(b + j)
      BY <1>5, <2>7 DEF Fails
    <3>2. callPc' = "wait"
      BY <1>5, <2>7 DEF Fails
    <3>3. wait' \in Int
      <4>1. b \in Int /\ j \in Int /\ MinInt \in Int /\ MaxInt \in Nat
        BY <2>3, <2>4, MaxIntAssumption DEF BackoffDurations, MinInt
      <4>2. QED
        BY <3>1, <4>1, WrapType
    <3>4. ASSUME Roomy(opts)
          PROVE  /\ ExactBackoff(opts, attempt) <= LongestBackoff(opts)
                 /\ wait' >= ExactBackoff(opts, attempt) /\ wait' > 0
                 /\ wait' < ExactBackoff(opts, attempt) + opts.jitter
      <4>1. ExactBackoff(opts, attempt) <= LongestBackoff(opts)
        BY <1>1, <2>1, <3>4 DEF RoomInv
      <4>2. /\ Wrap(b + j) \in Nat
            /\ Wrap(b + j) >= ExactBackoff(opts, attempt)
            /\ Wrap(b + j) < ExactBackoff(opts, attempt) + opts.jitter
        BY <1>2, <2>2, <3>4, <4>1, WaitIsExact
      <4>3. QED
        BY <2>3, <2>4, <3>1, <4>1, <4>2
    <3>5. Roomy(opts') = Roomy(opts) /\ ExactBackoff(opts', attempt') = ExactBackoff(opts, attempt)
      BY <2>1
    <3>6. BackoffType' /\ CallInv'
      BY <1>2, <2>1, <2>2, <2>5, <3>2, <3>3 DEF BackoffType, CallInv
    <3>7. RoomInv'
      BY <2>1, <3>2, <3>4, <3>5 DEF RoomInv
    <3>8. RetriesFitTimeout'
      BY <1>1, <1>2, <2>1, <2>5, <3>2, <3>4, <3>5 DEF RetriesFitTimeout
    <3>9. QED
      BY <3>6, <3>7, <3>8
  <2>8. QED
    BY <2>6, <2>7
<1>6. CASE BackoffElapsed
  <2>1. /\ opts' = opts /\ wait' = wait /\ attempt' = attempt + 1
        /\ callPc = "wait" /\ callPc' = "attempt"
    BY <1>6 DEF BackoffElapsed
  <2>2. Validate(opts)
    BY <1>1, <2>1 DEF CallInv
  <2>3. opts.interval \in Nat /\ opts.timeout \in Nat
    BY <1>2, <2>2, AcceptedNumbers
  <2>4. now' \in Nat
    BY <1>2, <1>6 DEF BackoffElapsed, Due
  <2>5. BackoffType' /\ CallInv'
    BY <1>2, <2>1, <2>2, <2>4 DEF BackoffType, CallInv
  <2>6. ASSUME Roomy(opts)
        PROVE  /\ ExactBackoff(opts', attempt') <= LongestBackoff(opts')
               /\ now' <= opts'.timeout
               /\ attempt' * opts'.interval <= now'
               /\ attempt' * opts'.interval <= opts'.timeout
    <3>1. /\ wait \in Nat /\ wait >= opts.interval
          /\ now' = now + wait /\ now' <= opts.timeout
          /\ ExactBackoff(opts, attempt + 1) <= LongestBackoff(opts)
      BY <1>1, <1>6, <2>6, ElapsedInTime
    <3>2. attempt * opts.interval <= now
      BY <1>1, <1>2, <2>3, <2>6 DEF RetriesFitTimeout
    <3>3. (attempt + 1) * opts.interval = attempt * opts.interval + opts.interval
      BY <1>2, <2>3
    <3>4. attempt * opts.interval \in Nat
      BY <1>2, <2>3
    <3>5. QED
      BY <1>2, <2>1, <2>3, <3>1, <3>2, <3>3, <3>4
  <2>7. Roomy(opts') = Roomy(opts)
    BY <2>1
  <2>8. QED
    BY <2>1, <2>5, <2>6, <2>7 DEF RoomInv, RetriesFitTimeout
<1>7. CASE TimeoutReached
  <2>1. /\ opts' = opts /\ wait' = wait /\ attempt' = attempt
        /\ callPc = "wait" /\ callPc' = "end"
    BY <1>7 DEF TimeoutReached
  <2>2. opts.interval \in Nat /\ opts.timeout \in Nat
    BY <1>1, <1>2, <2>1, AcceptedNumbers DEF CallInv
  <2>3. now' \in Nat /\ now <= now'
    BY <1>2, <1>7, <2>2 DEF TimeoutReached
  <2>4. attempt * opts.interval \in Nat
    BY <1>2, <2>2
  <2>5. BackoffType' /\ CallInv' /\ RoomInv'
    BY <1>2, <2>1, <2>3 DEF BackoffType, CallInv, RoomInv
  <2>6. RetriesFitTimeout'
    BY <1>1, <1>2, <2>1, <2>2, <2>3, <2>4 DEF RetriesFitTimeout, Roomy
  <2>7. QED
    BY <2>5, <2>6
<1>8. CASE UNCHANGED backoffVars
  BY <1>1, <1>8 DEF backoffVars, BackoffType, CallInv, RoomInv, RetriesFitTimeout
<1>9. QED
  BY <1>1, <1>3, <1>4, <1>5, <1>6, <1>7, <1>8 DEF BackoffNext

\* The inductive invariant of the retry loop.
LEMMA BackoffInvariant == BackoffSpec => []BInv
BY BackoffInitial, BackoffInductive, PTL DEF BackoffSpec

--------------------------------------------------------------------------------
(***************************************************************************)
(* The theorems                                                            *)
(***************************************************************************)
\* No retry of Do starts after the timeout, and no more start than intervals fit into
\* it, for every width of the integers, every duration of the attempts and a Retrier
\* whose BackoffFactor * (Timeout + 1) + Jitter fits into a Duration, also when the
\* product in Validate overflowed.
THEOREM RetriesWithinTimeout == BackoffSpec => []RetriesFitTimeout
<1>1. BInv => RetriesFitTimeout
  BY DEF BInv
<1>2. QED
  BY <1>1, BackoffInvariant, PTL

\* Between two attempts waitRetry waits for Interval * BackoffFactor^attempt and less
\* than Jitter more, for a Retrier whose BackoffFactor * (Timeout + 1) + Jitter fits into
\* a Duration: no wait that overflowed is ever waited for.
THEOREM BackoffAsDocumented == BackoffSpec => BackoffHonoured
<1>. DEFINE Step == Roomy(opts) /\ attempt' # attempt =>
                       /\ now' - now >= ExactBackoff(opts, attempt)
                       /\ now' - now < ExactBackoff(opts, attempt) + opts.jitter
<1>1. ASSUME BInv, [BackoffNext]_backoffVars PROVE [Step]_backoffVars
  <2>1. SUFFICES ASSUME Roomy(opts), attempt' # attempt, BackoffNext PROVE Step
    BY <1>1 DEF backoffVars
  <2>2. BackoffElapsed
    BY <2>1 DEF BackoffNext, NewRetrier, Do, Fails, TimeoutReached
  <2>3. wait \in Nat /\ now' = now + wait
    BY <1>1, <2>1, <2>2, ElapsedInTime
  <2>4. /\ wait >= ExactBackoff(opts, attempt)
        /\ wait < ExactBackoff(opts, attempt) + opts.jitter
    BY <1>1, <2>1, <2>2 DEF BInv, RoomInv, BackoffElapsed
  <2>5. now \in Nat
    BY <1>1 DEF BInv, BackoffType
  <2>6. now' - now = wait
    BY <2>3, <2>5
  <2>7. QED
    BY <2>4, <2>6
<1>2. QED
  BY <1>1, BackoffInvariant, PTL DEF BackoffSpec, BackoffHonoured
================================================================================
