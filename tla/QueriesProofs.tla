----------------------------- MODULE QueriesProofs -----------------------------
(***************************************************************************)
(* What TLAPS proves about Queries, for every number of jobs, runs and     *)
(* states, every limit and every width of the integers: PagingComplete,    *)
(* QueriesExact and PollsInOrder.                                          *)
(***************************************************************************)
EXTENDS Queries, DataInduction, SequenceTheorems, FiniteSetTheorems

--------------------------------------------------------------------------------
(***************************************************************************)
(* Sorted sequences                                                        *)
(***************************************************************************)
\* s has the numbers of S, in increasing order.
Orders(s, S) ==
    /\ s \in Seq(Nat)
    /\ \A i, j \in 1 .. Len(s) : i < j => s[i] < s[j]
    /\ \A i \in 1 .. Len(s) : s[i] \in S
    /\ \A x \in S : \E i \in 1 .. Len(s) : s[i] = x

\* Such a sequence is as long as the set is large.
LEMMA OrdersLength ==
    ASSUME NEW s, NEW S, Orders(s, S)
    PROVE  IsFiniteSet(S) /\ Cardinality(S) = Len(s) /\ Len(s) \in Nat /\ s \in [1 .. Len(s) -> S]
           /\ S \in SUBSET Nat
<1>. DEFINE n == Len(s)
<1>1. n \in Nat /\ s \in [1 .. n -> Nat]
  BY LenProperties DEF Orders
<1>2. s \in [1 .. n -> S] /\ S \in SUBSET Nat
  BY <1>1 DEF Orders
<1>3. \A i, j \in 1 .. n : s[i] = s[j] => i = j
  BY <1>1 DEF Orders
<1>4. \A x \in S : \E i \in 1 .. n : s[i] = x
  BY DEF Orders
<1>. HIDE DEF n
<1>5. s \in Bijection(1 .. n, S)
  BY <1>2, <1>3, <1>4, Zenon DEF Bijection, Injection, Surjection, IsInjective
<1>6. ExistsBijection(1 .. n, S)
  BY <1>5, Zenon DEF ExistsBijection
<1>7. Cardinality(S) = n
  BY <1>1, <1>6, FS_CountingElements
<1>8. IsFiniteSet(S)
  BY <1>1, <1>6, FS_NatBijection
<1>9. QED
  BY <1>1, <1>2, <1>7, <1>8 DEF n

\* There is only one.
LEMMA OrdersUnique ==
    ASSUME NEW s, NEW t, NEW S, Orders(s, S), Orders(t, S)
    PROVE  s = t
<1>. DEFINE n == Len(s)
            T == {i \in Nat : \A k \in 1 .. i : k <= n => s[k] = t[k]}
<1>1. n = Len(t) /\ n \in Nat /\ s \in [1 .. n -> Nat] /\ t \in [1 .. n -> Nat]
  <2>1. n = Cardinality(S) /\ Len(t) = Cardinality(S)
    BY OrdersLength
  <2>2. QED
    BY <2>1, LenProperties DEF Orders
<1>2. /\ \A i, j \in 1 .. n : i < j => s[i] < s[j]
      /\ \A i, j \in 1 .. n : i < j => t[i] < t[j]
      /\ \A i \in 1 .. n : \E j \in 1 .. n : s[i] = t[j]
      /\ \A i \in 1 .. n : \E j \in 1 .. n : t[i] = s[j]
  BY <1>1 DEF Orders
<1>. HIDE DEF n
<1>3. 0 \in T
  OBVIOUS
<1>4. ASSUME NEW i \in Nat, i \in T PROVE i + 1 \in T
  <2>1. SUFFICES ASSUME i + 1 <= n PROVE s[i + 1] = t[i + 1]
    <3>1. SUFFICES ASSUME NEW k \in 1 .. i + 1, k <= n PROVE s[k] = t[k]
      OBVIOUS
    <3>2. CASE k = i + 1
      BY <3>1, <3>2, <2>1
    <3>3. CASE k # i + 1
      <4>1. k \in 1 .. i
        BY <3>3
      <4>2. QED
        BY <1>4, <3>1, <4>1
    <3>4. QED
      BY <3>2, <3>3
  <2>2. i + 1 \in 1 .. n
    BY <1>1, <2>1
  <2>3. PICK j \in 1 .. n : s[i + 1] = t[j]
    BY <1>2, <2>2
  <2>4. PICK h \in 1 .. n : t[i + 1] = s[h]
    BY <1>2, <2>2
  <2>5. \A k \in 1 .. n : k <= i => s[k] = t[k]
    BY <1>1, <1>4
  <2>6. j >= i + 1
    <3>1. SUFFICES ASSUME j <= i PROVE FALSE
      BY <1>1
    <3>2. s[j] = s[i + 1] /\ s[j] < s[i + 1]
      BY <1>1, <1>2, <2>2, <2>3, <2>5, <3>1
    <3>3. QED
      BY <1>1, <2>2, <3>2
  <2>7. h >= i + 1
    <3>1. SUFFICES ASSUME h <= i PROVE FALSE
      BY <1>1
    <3>2. t[h] = t[i + 1] /\ t[h] < t[i + 1]
      BY <1>1, <1>2, <2>2, <2>4, <2>5, <3>1
    <3>3. QED
      BY <1>1, <2>2, <3>2
  <2>8. t[i + 1] <= t[j] /\ s[i + 1] <= s[h]
    <3>1. j = i + 1 \/ t[i + 1] < t[j]
      BY <1>1, <1>2, <2>2, <2>6
    <3>2. h = i + 1 \/ s[i + 1] < s[h]
      BY <1>1, <1>2, <2>2, <2>7
    <3>3. /\ t[i + 1] \in Nat /\ t[j] \in Nat
          /\ s[i + 1] \in Nat /\ s[h] \in Nat
      BY <1>1, <2>2
    <3>4. QED
      BY <3>1, <3>2, <3>3
  <2>9. QED
    BY <1>1, <2>2, <2>3, <2>4, <2>8
<1>5. \A i \in Nat : i \in T
  <2>. HIDE DEF T
  <2>1. QED
    BY <1>3, <1>4, NaturalsInSet
<1>6. \A k \in 1 .. n : s[k] = t[k]
  BY <1>1, <1>5
<1>7. QED
  BY <1>1, <1>6

\* A part of such a sequence orders the numbers at its places.
LEMMA OrdersPart ==
    ASSUME NEW s, NEW S, Orders(s, S), NEW a \in Nat \ {0}, NEW b \in Nat, b <= Len(s)
    PROVE  /\ Orders(SubSeq(s, a, b), {s[i] : i \in a .. b})
           /\ Len(SubSeq(s, a, b)) = IF a <= b THEN b - a + 1 ELSE 0
<1>. DEFINE t == SubSeq(s, a, b)
<1>1. Len(s) \in Nat /\ s \in [1 .. Len(s) -> Nat]
  BY LenProperties DEF Orders
<1>2. \A i \in a .. b : i \in 1 .. Len(s)
  BY <1>1
<1>3. \A i \in a .. b : s[i] \in Nat
  BY <1>1, <1>2
<1>4. /\ t \in Seq(Nat)
      /\ Len(t) = IF a <= b THEN b - a + 1 ELSE 0
      /\ \A i \in 1 .. b - a + 1 : t[i] = s[a + i - 1]
  BY <1>3, SubSeqProperties
<1>. HIDE DEF t
<1>5. \A i \in 1 .. Len(t) : t[i] = s[a + i - 1] /\ a + i - 1 \in a .. b
  BY <1>4
<1>6. \A i, j \in 1 .. Len(t) : i < j => t[i] < t[j]
  <2>1. SUFFICES ASSUME NEW i \in 1 .. Len(t), NEW j \in 1 .. Len(t), i < j PROVE t[i] < t[j]
    OBVIOUS
  <2>2. a + i - 1 \in 1 .. Len(s) /\ a + j - 1 \in 1 .. Len(s) /\ a + i - 1 < a + j - 1
    BY <1>2, <1>4, <1>5, <2>1
  <2>3. s[a + i - 1] < s[a + j - 1]
    BY <2>2 DEF Orders
  <2>4. t[i] = s[a + i - 1] /\ t[j] = s[a + j - 1]
    BY <1>5
  <2>5. QED
    BY <2>3, <2>4
<1>7. \A k \in 1 .. Len(t) : t[k] \in {s[i] : i \in a .. b}
  BY <1>5
<1>8. ASSUME NEW x \in {s[i] : i \in a .. b} PROVE \E k \in 1 .. Len(t) : t[k] = x
  <2>1. PICK i \in a .. b : x = s[i]
    OBVIOUS
  <2>2. i - a + 1 \in 1 .. Len(t) /\ a + (i - a + 1) - 1 = i
    BY <1>4
  <2>3. QED
    BY <1>5, <2>1, <2>2
<1>9. QED
  BY <1>4, <1>6, <1>7, <1>8 DEF Orders, t

\* A larger number goes to the end.
LEMMA OrdersAppend ==
    ASSUME NEW s, NEW S, Orders(s, S), NEW x \in Nat, \A y \in S : y < x
    PROVE  Orders(Append(s, x), S \cup {x})
<1>. DEFINE t == Append(s, x)
            n == Len(s)
<1>1. n \in Nat /\ s \in [1 .. n -> Nat] /\ s \in Seq(Nat)
  BY LenProperties DEF Orders
<1>2. /\ t \in Seq(Nat) /\ Len(t) = n + 1
      /\ \A i \in 1 .. n : t[i] = s[i]
      /\ t[n + 1] = x
  BY <1>1
<1>3. \A i \in 1 .. n : s[i] \in S
  BY DEF Orders
<1>4. \A y \in S : \E i \in 1 .. n : s[i] = y
  BY DEF Orders
<1>. HIDE DEF t, n
<1>5. \A i, j \in 1 .. Len(t) : i < j => t[i] < t[j]
  <2>1. SUFFICES ASSUME NEW i \in 1 .. Len(t), NEW j \in 1 .. Len(t), i < j PROVE t[i] < t[j]
    OBVIOUS
  <2>2. i \in 1 .. n /\ t[i] = s[i]
    BY <1>1, <1>2, <2>1
  <2>3. CASE j = n + 1
    BY <1>2, <1>3, <2>2, <2>3
  <2>4. CASE j # n + 1
    <3>1. j \in 1 .. n
      BY <1>1, <1>2, <2>4
    <3>2. QED
      BY <1>2, <2>1, <2>2, <3>1 DEF Orders, n
  <2>5. QED
    BY <2>3, <2>4
<1>6. /\ \A i \in 1 .. Len(t) : t[i] \in S \cup {x}
      /\ \A y \in S \cup {x} : \E i \in 1 .. Len(t) : t[i] = y
  <2>1. ASSUME NEW y \in S \cup {x} PROVE \E i \in 1 .. Len(t) : t[i] = y
    <3>1. CASE y = x
      <4>1. n + 1 \in 1 .. Len(t)
        BY <1>1, <1>2
      <4>2. QED
        BY <1>2, <3>1, <4>1
    <3>2. CASE y \in S
      <4>1. PICK i \in 1 .. n : s[i] = y
        BY <1>4, <3>2
      <4>2. i \in 1 .. Len(t)
        BY <1>1, <1>2
      <4>3. QED
        BY <1>2, <4>1, <4>2
    <3>3. QED
      BY <3>1, <3>2
  <2>2. ASSUME NEW i \in 1 .. Len(t) PROVE t[i] \in S \cup {x}
    <3>1. CASE i = n + 1
      BY <1>2, <3>1
    <3>2. CASE i # n + 1
      <4>1. i \in 1 .. n
        BY <1>1, <1>2, <3>2
      <4>2. QED
        BY <1>2, <1>3, <4>1
    <3>3. QED
      BY <3>1, <3>2
  <2>3. QED
    BY <2>1, <2>2
<1>7. QED
  BY <1>2, <1>5, <1>6 DEF Orders, t

\* A finite set of numbers has a bound.
LEMMA FiniteIsBounded ==
    ASSUME NEW S \in SUBSET Nat, IsFiniteSet(S)
    PROVE  \E b \in Nat : \A x \in S : x < b
<1>1. PICK n \in Nat : ExistsSurjection(1 .. n, S)
  BY FS_NatSurjection
<1>2. PICK f \in [1 .. n -> S] : \A x \in S : \E i \in 1 .. n : f[i] = x
  BY <1>1, Zenon DEF ExistsSurjection, Surjection
<1>. DEFINE T == {m \in Nat : m <= n => \E b \in Nat : \A i \in 1 .. m : f[i] < b}
<1>3. 0 \in T
  OBVIOUS
<1>4. ASSUME NEW m \in Nat, m \in T PROVE m + 1 \in T
  <2>1. SUFFICES ASSUME m + 1 <= n PROVE \E b \in Nat : \A i \in 1 .. m + 1 : f[i] < b
    OBVIOUS
  <2>2. PICK b \in Nat : \A i \in 1 .. m : f[i] < b
    BY <1>4, <2>1
  <2>3. m + 1 \in 1 .. n
    BY <2>1
  <2>4. f[m + 1] \in Nat
    BY <1>2, <2>3
  <2>5. \A i \in 1 .. m + 1 : i = m + 1 \/ i \in 1 .. m
    OBVIOUS
  <2>6. \A i \in 1 .. m : f[i] \in Nat
    <3>1. \A i \in 1 .. m : i \in 1 .. n
      BY <2>1
    <3>2. QED
      BY <1>2, <3>1
  <2>7. \A i \in 1 .. m + 1 : f[i] < b + f[m + 1] + 1
    <3>1. \A x \in Nat, y \in Nat : x < x + y + 1 /\ (y < b => y < b + x + 1) /\ y < b + y + 1
      OBVIOUS
    <3>2. QED
      BY <2>2, <2>4, <2>5, <2>6, <3>1, Zenon
  <2>8. b + f[m + 1] + 1 \in Nat
    BY <2>4
  <2>9. QED
    BY <2>7, <2>8
<1>5. n \in T
  <2>. HIDE DEF T
  <2>1. QED
    BY <1>3, <1>4, NaturalsInSet
<1>6. PICK b \in Nat : \A i \in 1 .. n : f[i] < b
  BY <1>5
<1>7. QED
  BY <1>2, <1>6

\* The numbers below 0, and below n + 1.
LEMMA NumbersBelow ==
    ASSUME NEW S, \A x \in S : x \in Nat, NEW n \in Nat
    PROVE  /\ {x \in S : x < 0} = {}
           /\ n \in S => {x \in S : x < n + 1} = {x \in S : x < n} \cup {n}
OBVIOUS

\* Every finite set of numbers can be ordered.
LEMMA OrdersExists ==
    ASSUME NEW S \in SUBSET Nat, IsFiniteSet(S)
    PROVE  \E s : Orders(s, S)
<1>1. PICK b \in Nat : \A x \in S : x < b
  BY FiniteIsBounded
<1>. DEFINE Below(n) == {x \in S : x < n}
            T == {n \in Nat : \E s : Orders(s, Below(n))}
<1>2. 0 \in T
  <2>1. Below(0) = {}
    BY NumbersBelow
  <2>2. Orders(<<>>, {})
    BY DEF Orders
  <2>3. QED
    BY <2>1, <2>2
<1>3. ASSUME NEW n \in Nat, n \in T PROVE n + 1 \in T
  <2>1. PICK s : Orders(s, Below(n))
    BY <1>3
  <2>2. CASE n \in S
    <3>1. Below(n + 1) = Below(n) \cup {n}
      BY <2>2, NumbersBelow, Zenon
    <3>2. \A y \in Below(n) : y < n
      OBVIOUS
    <3>3. Orders(Append(s, n), Below(n) \cup {n})
      BY <2>1, <3>2, OrdersAppend
    <3>4. QED
      BY <3>1, <3>3
  <2>3. CASE n \notin S
    <3>1. Below(n + 1) = Below(n)
      <4>1. \A x \in S : x \in Nat /\ x # n
        BY <2>3
      <4>2. \A x \in S : x < n + 1 <=> x < n
        BY <4>1
      <4>3. QED
        BY <4>2
    <3>2. QED
      BY <2>1, <3>1
  <2>4. QED
    BY <2>2, <2>3
<1>4. b \in T
  <2>. HIDE DEF T
  <2>1. QED
    BY <1>2, <1>3, NaturalsInSet
<1>5. Below(b) = S
  BY <1>1
<1>6. QED
  BY <1>4, <1>5

\* The size of an interval from 1.
LEMMA IntervalSize == \A n \in Nat : Cardinality(1 .. n) = n
BY FS_Interval, 1 \in Int

\* Sorted gives the sequence that orders the set.
LEMMA SortedOrders ==
    ASSUME NEW S \in SUBSET Nat, IsFiniteSet(S)
    PROVE  Orders(Sorted(S), S)
<1>. DEFINE n == Cardinality(S)
            t == Sorted(S)
<1>1. PICK s : Orders(s, S)
  BY OrdersExists
<1>2. n = Len(s) /\ n \in Nat /\ s \in [1 .. n -> S]
  BY <1>1, OrdersLength
<1>3. \A i, j \in DOMAIN s : i < j => s[i] < s[j]
  BY <1>1, <1>2 DEF Orders
<1>4. t \in [1 .. n -> S] /\ \A i, j \in DOMAIN t : i < j => t[i] < t[j]
  BY <1>2, <1>3, Zenon DEF Sorted
<1>. HIDE DEF n, t
<1>5. DOMAIN t = 1 .. n /\ t \in [1 .. n -> Nat]
  BY <1>4
<1>6. \A i, j \in 1 .. n : i < j => t[i] < t[j]
  BY <1>4, <1>5, Zenon
<1>7. \A i, j \in 1 .. n : t[i] = t[j] => i = j
  BY <1>2, <1>5, <1>6
<1>8. t \in Injection(1 .. n, S)
  BY <1>4, <1>5, <1>7, Zenon DEF Injection, IsInjective
<1>9. Cardinality(1 .. n) = n /\ IsFiniteSet(S)
  BY <1>2, IntervalSize
<1>10. t \in Surjection(1 .. n, S)
  BY <1>8, <1>9, FS_Injection DEF n
<1>11. \A x \in S : \E i \in 1 .. n : t[i] = x
  BY <1>10, Zenon DEF Surjection
<1>12. t \in Seq(Nat) /\ Len(t) = n
  BY <1>2, <1>5
<1>13. \A i \in 1 .. n : t[i] \in S
  BY <1>4
<1>14. QED
  BY <1>6, <1>11, <1>12, <1>13 DEF Orders, t

\* Whatever orders the set is what Sorted gives.
LEMMA SortedIs ==
    ASSUME NEW s, NEW S, Orders(s, S)
    PROVE  Sorted(S) = s
<1>1. S \in SUBSET Nat /\ IsFiniteSet(S)
  BY OrdersLength
<1>2. Orders(Sorted(S), S)
  BY <1>1, SortedOrders
<1>3. QED
  BY <1>2, OrdersUnique

\* The rank of a number, from either end.
LEMMA Ranks ==
    ASSUME NEW s, NEW S, Orders(s, S), NEW k \in 1 .. Len(s)
    PROVE  /\ Cardinality({x \in S : x < s[k]}) = k - 1
           /\ Cardinality({x \in S : x > s[k]}) = Len(s) - k
<1>1. Len(s) \in Nat /\ s \in [1 .. Len(s) -> Nat]
  BY LenProperties DEF Orders
<1>2. \A i \in 1 .. Len(s) : (s[i] < s[k] <=> i < k) /\ (s[i] > s[k] <=> i > k)
  <2>1. SUFFICES ASSUME NEW i \in 1 .. Len(s)
                 PROVE  (s[i] < s[k] <=> i < k) /\ (s[i] > s[k] <=> i > k)
    OBVIOUS
  <2>2. s[i] \in Nat /\ s[k] \in Nat
    BY <1>1
  <2>3. (i < k => s[i] < s[k]) /\ (i > k => s[i] > s[k])
    BY <1>1, <2>2 DEF Orders
  <2>4. QED
    BY <1>1, <2>2, <2>3
<1>3. {x \in S : x < s[k]} = {s[i] : i \in 1 .. k - 1}
  <2>1. ASSUME NEW x \in S, x < s[k] PROVE x \in {s[i] : i \in 1 .. k - 1}
    <3>1. PICK i \in 1 .. Len(s) : s[i] = x
      BY DEF Orders
    <3>2. i \in 1 .. k - 1
      BY <1>1, <1>2, <2>1, <3>1
    <3>3. QED
      BY <3>1, <3>2
  <2>2. ASSUME NEW i \in 1 .. k - 1 PROVE s[i] \in S /\ s[i] < s[k]
    <3>1. i \in 1 .. Len(s) /\ i < k
      BY <1>1
    <3>2. QED
      BY <1>2, <3>1 DEF Orders
  <2>3. QED
    BY <2>1, <2>2
<1>4. {x \in S : x > s[k]} = {s[i] : i \in k + 1 .. Len(s)}
  <2>1. ASSUME NEW x \in S, x > s[k] PROVE x \in {s[i] : i \in k + 1 .. Len(s)}
    <3>1. PICK i \in 1 .. Len(s) : s[i] = x
      BY DEF Orders
    <3>2. i \in k + 1 .. Len(s)
      BY <1>1, <1>2, <2>1, <3>1
    <3>3. QED
      BY <3>1, <3>2
  <2>2. ASSUME NEW i \in k + 1 .. Len(s) PROVE s[i] \in S /\ s[i] > s[k]
    <3>1. i \in 1 .. Len(s) /\ i > k
      BY <1>1
    <3>2. QED
      BY <1>2, <3>1 DEF Orders
  <2>3. QED
    BY <2>1, <2>2
<1>5. /\ Orders(SubSeq(s, 1, k - 1), {s[i] : i \in 1 .. k - 1})
      /\ Len(SubSeq(s, 1, k - 1)) = k - 1
  <2>1. 1 \in Nat \ {0} /\ k - 1 \in Nat /\ k - 1 <= Len(s)
    BY <1>1
  <2>2. Len(SubSeq(s, 1, k - 1)) = IF 1 <= k - 1 THEN (k - 1) - 1 + 1 ELSE 0
    BY <2>1, OrdersPart
  <2>3. QED
    BY <2>1, <2>2, OrdersPart
<1>6. /\ Orders(SubSeq(s, k + 1, Len(s)), {s[i] : i \in k + 1 .. Len(s)})
      /\ Len(SubSeq(s, k + 1, Len(s))) = Len(s) - k
  <2>1. k + 1 \in Nat \ {0} /\ Len(s) \in Nat /\ Len(s) <= Len(s)
    BY <1>1
  <2>2. Len(SubSeq(s, k + 1, Len(s))) = IF k + 1 <= Len(s) THEN Len(s) - (k + 1) + 1 ELSE 0
    BY <2>1, OrdersPart
  <2>3. QED
    BY <1>1, <2>1, <2>2, OrdersPart
<1>7. QED
  BY <1>3, <1>4, <1>5, <1>6, OrdersLength

--------------------------------------------------------------------------------
(***************************************************************************)
(* Filter                                                                  *)
(***************************************************************************)
\* p has what the loop has kept after each of its first n rounds.
Rounds(p, s, wanted, n) ==
    p = [i \in 0 .. n |->
            IF i = 0 THEN <<>>
            ELSE IF s[i] \in wanted THEN Append(p[i - 1], s[i]) ELSE p[i - 1]]

\* Filter is the last round of the code's append loop.
LEMMA FilterIsLastRound ==
    ASSUME NEW s, NEW wanted
    PROVE  Filter(s, wanted) = (CHOOSE p : Rounds(p, s, wanted, Len(s)))[Len(s)]
BY DEF Filter, Rounds

\* The rounds of the append loop exist, and follow its recursion.
LEMMA RoundsExist ==
    ASSUME NEW s, NEW wanted
    PROVE  \A n \in Nat : \E p : Rounds(p, s, wanted, n)
<1>. DEFINE T == {n \in Nat : \E p : Rounds(p, s, wanted, n)}
<1>1. 0 \in T
  <2>1. Rounds([i \in 0 .. 0 |-> <<>>], s, wanted, 0)
    BY DEF Rounds
  <2>2. QED
    BY <2>1
<1>2. ASSUME NEW n \in Nat, n \in T PROVE n + 1 \in T
  <2>1. PICK p : Rounds(p, s, wanted, n)
    BY <1>2
  <2>. DEFINE next == IF s[n + 1] \in wanted THEN Append(p[n], s[n + 1]) ELSE p[n]
              q == [i \in 0 .. n + 1 |-> IF i = n + 1 THEN next ELSE p[i]]
  <2>2. ASSUME NEW i \in 0 .. n + 1
        PROVE  q[i] = IF i = 0 THEN <<>>
                      ELSE IF s[i] \in wanted THEN Append(q[i - 1], s[i]) ELSE q[i - 1]
    <3>1. CASE i = n + 1
      <4>1. i - 1 = n /\ n \in 0 .. n + 1 /\ n # n + 1 /\ i # 0
        BY <3>1
      <4>2. q[i] = next /\ q[i - 1] = p[n]
        BY <3>1, <4>1, Zenon
      <4>3. QED
        BY <3>1, <4>1, <4>2, Zenon
    <3>2. CASE i # n + 1
      <4>1. i \in 0 .. n
        BY <3>2
      <4>2. p[i] = IF i = 0 THEN <<>>
                   ELSE IF s[i] \in wanted THEN Append(p[i - 1], s[i]) ELSE p[i - 1]
        BY <2>1, <4>1, Zenon DEF Rounds
      <4>3. i # 0 => i - 1 \in 0 .. n + 1 /\ i - 1 # n + 1
        BY <4>1
      <4>4. q[i] = p[i] /\ (i # 0 => q[i - 1] = p[i - 1])
        BY <3>2, <4>3, Zenon
      <4>5. QED
        BY <4>2, <4>4, Zenon
    <3>3. QED
      BY <3>1, <3>2
  <2>3. Rounds(q, s, wanted, n + 1)
    BY <2>2, Zenon DEF Rounds
  <2>4. QED
    BY <2>3
<1>3. \A n \in Nat : n \in T
  <2>. HIDE DEF T
  <2>1. QED
    BY <1>1, <1>2, NaturalsInSet
<1>4. QED
  BY <1>3

\* Filter keeps the numbers that are wanted, and their order.
LEMMA FilterOrders ==
    ASSUME NEW s, NEW S, NEW wanted, Orders(s, S)
    PROVE  Orders(Filter(s, wanted), S \cap wanted)
<1>. DEFINE n == Len(s)
            p == CHOOSE f : Rounds(f, s, wanted, n)
            K(i) == {x \in wanted : \E k \in 1 .. i : s[k] = x}
            T == {i \in Nat : i <= n => Orders(p[i], K(i))}
<1>1. n \in Nat /\ s \in [1 .. n -> Nat]
  BY LenProperties DEF Orders
<1>2. Rounds(p, s, wanted, n)
  BY <1>1, RoundsExist, Zenon
<1>3. Filter(s, wanted) = p[n]
  BY FilterIsLastRound, Zenon
<1>4. \A i, j \in 1 .. n : i < j => s[i] < s[j]
  BY DEF Orders
<1>. HIDE DEF p, n
<1>5. 0 \in T
  <2>1. p[0] = <<>>
    BY <1>1, <1>2 DEF Rounds
  <2>2. K(0) = {}
    OBVIOUS
  <2>3. Orders(<<>>, {})
    BY DEF Orders
  <2>4. QED
    BY <2>1, <2>2, <2>3
<1>6. ASSUME NEW i \in Nat, i \in T PROVE i + 1 \in T
  <2>1. SUFFICES ASSUME i + 1 <= n PROVE Orders(p[i + 1], K(i + 1))
    OBVIOUS
  <2>2. Orders(p[i], K(i))
    BY <1>1, <1>6, <2>1
  <2>3. i + 1 \in 0 .. n /\ i + 1 \in 1 .. n /\ i + 1 # 0 /\ (i + 1) - 1 = i
    BY <1>1, <2>1
  <2>4. p[i + 1] = IF s[i + 1] \in wanted THEN Append(p[(i + 1) - 1], s[i + 1]) ELSE p[(i + 1) - 1]
    BY <1>2, <2>3, Zenon DEF Rounds
  <2>5. p[i + 1] = IF s[i + 1] \in wanted THEN Append(p[i], s[i + 1]) ELSE p[i]
    BY <2>3, <2>4
  <2>6. \A k \in 1 .. i + 1 : k = i + 1 \/ k \in 1 .. i
    OBVIOUS
  <2>7. \A k \in 1 .. i : k \in 1 .. i + 1
    OBVIOUS
  <2>8. i + 1 \in 1 .. i + 1
    OBVIOUS
  <2>9. CASE s[i + 1] \in wanted
    <3>1. \A y \in K(i) : y < s[i + 1]
      <4>1. SUFFICES ASSUME NEW k \in 1 .. i PROVE s[k] < s[i + 1]
        OBVIOUS
      <4>2. k \in 1 .. n /\ k < i + 1
        BY <1>1, <2>1
      <4>3. QED
        BY <1>4, <2>3, <4>2
    <3>2. K(i + 1) = K(i) \cup {s[i + 1]}
      BY <2>6, <2>7, <2>8, <2>9, Zenon
    <3>3. s[i + 1] \in Nat
      BY <1>1, <2>3
    <3>. HIDE DEF K
    <3>4. Orders(Append(p[i], s[i + 1]), K(i) \cup {s[i + 1]})
      BY <2>2, <3>1, <3>3, OrdersAppend
    <3>5. QED
      BY <2>5, <2>9, <3>2, <3>4
  <2>10. CASE s[i + 1] \notin wanted
    <3>1. K(i + 1) = K(i)
      BY <2>6, <2>7, <2>10
    <3>. HIDE DEF K
    <3>2. QED
      BY <2>2, <2>5, <2>10, <3>1
  <2>11. QED
    BY <2>9, <2>10
<1>7. n \in T
  <2>. HIDE DEF T
  <2>1. QED
    BY <1>1, <1>5, <1>6, NaturalsInSet
<1>8. K(n) = S \cap wanted
  <2>1. /\ \A k \in 1 .. n : s[k] \in S
        /\ \A x \in S : \E k \in 1 .. n : s[k] = x
    BY DEF Orders, n
  <2>2. QED
    BY <2>1, Zenon
<1>9. Orders(p[n], K(n))
  BY <1>1, <1>7
<1>. HIDE DEF K
<1>10. QED
  BY <1>3, <1>8, <1>9

--------------------------------------------------------------------------------
(***************************************************************************)
(* The queries                                                             *)
(***************************************************************************)
\* The remainder of a number that passes the modulus at most once.
LEMMA ModOnce ==
    ASSUME NEW z \in Nat, NEW w \in Nat \ {0}, z >= w, z < 2 * w
    PROVE  z % w = z - w
OBVIOUS

\* What the machine makes of a sum of two of its numbers.
LEMMA WrapSum ==
    ASSUME NEW x \in Nat, NEW y \in Nat \ {0}, y <= MaxInt
    PROVE  /\ Wrap(x + y) \in Int
           /\ x + y <= MaxInt => Wrap(x + y) = x + y
           /\ x + y > MaxInt => Wrap(x + y) < x
<1>. DEFINE w == 2 * (MaxInt + 1)
            z == (x + y) - MinInt
<1>1. MaxInt \in Nat \ {0} /\ MinInt = -MaxInt - 1
  BY MaxIntAssumption DEF MinInt
<1>2. w \in Nat \ {0} /\ z \in Nat
  BY <1>1
<1>3. Wrap(x + y) = (z % w) + MinInt
  BY DEF Wrap
<1>4. z % w \in 0 .. w - 1
  BY <1>2
<1>5. z < w => z % w = z
  BY <1>2
<1>6. Wrap(x + y) \in Int /\ Wrap(x + y) <= MaxInt
  BY <1>1, <1>3, <1>4
<1>7. x + y <= MaxInt => Wrap(x + y) = x + y
  BY <1>1, <1>3, <1>5
<1>8. ASSUME x + y > MaxInt, x <= MaxInt PROVE Wrap(x + y) < x
  <2>1. z >= w /\ z < 2 * w
    BY <1>1, <1>8
  <2>2. z % w = z - w
    <3>. HIDE DEF z, w
    <3>1. QED
      BY <1>2, <2>1, ModOnce
  <2>3. QED
    BY <1>1, <1>3, <2>2
<1>9. x > MaxInt => Wrap(x + y) < x
  BY <1>1, <1>6
<1>10. QED
  BY <1>1, <1>6, <1>7, <1>8, <1>9

\* The end of a page, when the sum does not overflow ...
LEMMA PageEndExact ==
    ASSUME NEW n \in Nat, NEW off \in Nat, NEW lim \in MinInt .. MaxInt,
           lim > 0 => off + lim <= MaxInt
    PROVE  PageEnd(n, off, lim) = IF lim > 0 /\ off + lim < n THEN off + lim ELSE n
<1>1. MaxInt \in Nat \ {0} /\ MinInt \in Int
  BY MaxIntAssumption DEF MinInt
<1>2. CASE lim > 0
  <2>1. lim \in Nat \ {0} /\ lim <= MaxInt
    BY <1>1, <1>2
  <2>2. Wrap(off + lim) = off + lim
    BY <1>2, <2>1, WrapSum
  <2>3. QED
    BY <2>2 DEF PageEnd
<1>3. CASE ~(lim > 0)
  BY <1>3 DEF PageEnd
<1>4. QED
  BY <1>2, <1>3

\* ... and in any case: a page that does not panic makes progress.
LEMMA PageEndMoves ==
    ASSUME NEW n \in Nat, NEW off \in Nat, NEW lim \in MinInt .. MaxInt,
           off < n, ~(PageEnd(n, off, lim) < off)
    PROVE  PageEnd(n, off, lim) \in Nat /\ off < PageEnd(n, off, lim) /\ PageEnd(n, off, lim) <= n
<1>1. MaxInt \in Nat \ {0} /\ MinInt \in Int
  BY MaxIntAssumption DEF MinInt
<1>2. CASE lim > 0 /\ Wrap(off + lim) < n
  <2>1. lim \in Nat \ {0} /\ lim <= MaxInt
    BY <1>1, <1>2
  <2>2. PageEnd(n, off, lim) = Wrap(off + lim)
    BY <1>2 DEF PageEnd
  <2>3. /\ Wrap(off + lim) \in Int
        /\ off + lim <= MaxInt => Wrap(off + lim) = off + lim
        /\ off + lim > MaxInt => Wrap(off + lim) < off
    BY <2>1, WrapSum
  <2>4. QED
    BY <1>1, <1>2, <2>1, <2>2, <2>3
<1>3. CASE ~(lim > 0 /\ Wrap(off + lim) < n)
  BY <1>3 DEF PageEnd
<1>4. QED
  BY <1>2, <1>3

\* The types of the clients and of what they read.
QueriesType ==
    /\ client \in {"none", "page", "poll", "end", "panic"}
    /\ DOMAIN state \in SUBSET Ids
    /\ limit \in MinInt .. MaxInt
    /\ offset \in Nat /\ got \in Seq(Nat)
    /\ history \in Seq(Nat) /\ recorded \in Nat
    /\ from \in Nat /\ polled \in Seq(Nat)

\* The statuses that match, in the order of their ids.
LEMMA MatchingOrders ==
    ASSUME QueriesType, NEW ids, NEW states
    PROVE  Orders(Matching(ids, states), {i \in DOMAIN state : Wanted(i, ids, states)})
<1>1. DOMAIN state \in SUBSET Nat /\ IsFiniteSet(DOMAIN state)
  <2>1. DOMAIN state \in SUBSET Ids /\ Ids \subseteq Nat /\ IsFiniteSet(Ids)
    BY QueriesAssumption DEF QueriesType
  <2>2. IsFiniteSet(DOMAIN state)
    BY <2>1, FS_Subset
  <2>3. QED
    BY <2>1, <2>2
<1>2. Orders(Statuses, DOMAIN state)
  BY <1>1, SortedOrders DEF Statuses
<1>. DEFINE W == {i \in DOMAIN state : Wanted(i, ids, states)}
<1>3. DOMAIN state \cap W = W
  OBVIOUS
<1>4. Matching(ids, states) = Filter(Statuses, W)
  BY Zenon DEF Matching
<1>. HIDE DEF W
<1>5. Orders(Filter(Statuses, W), DOMAIN state \cap W)
  BY <1>2, FilterOrders
<1>6. QED
  BY <1>3, <1>4, <1>5 DEF W

\* A page: the numbers at the places after start, up to end.
LEMMA SliceOrders ==
    ASSUME NEW f, NEW F, Orders(f, F), NEW start \in Nat, NEW end \in Nat, end <= Len(f),
           NEW G, \A i \in G : i \in F, \A k \in 1 .. Len(f) : f[k] \in G <=> start < k /\ k <= end
    PROVE  Orders(SubSeq(f, start + 1, end), G)
<1>1. Len(f) \in Nat /\ start + 1 \in Nat \ {0}
  BY LenProperties DEF Orders
<1>2. Orders(SubSeq(f, start + 1, end), {f[k] : k \in start + 1 .. end})
  BY <1>1, OrdersPart
<1>3. ASSUME NEW k \in start + 1 .. end PROVE f[k] \in G
  <2>1. k \in 1 .. Len(f) /\ start < k /\ k <= end
    BY <1>1
  <2>2. QED
    BY <2>1
<1>4. ASSUME NEW i \in G PROVE i \in {f[k] : k \in start + 1 .. end}
  <2>1. PICK k \in 1 .. Len(f) : f[k] = i
    BY DEF Orders
  <2>2. k \in start + 1 .. end
    BY <1>1, <2>1
  <2>3. QED
    BY <2>1, <2>2
<1>5. {f[k] : k \in start + 1 .. end} = G
  BY <1>3, <1>4
<1>6. QED
  BY <1>2, <1>5

\* Limit keeps the numbers that have fewer greater ones.
LEMMA LimitedOrders ==
    ASSUME NEW f, NEW F, Orders(f, F), NEW lim \in Int
    PROVE  Orders(Limited(f, lim), {r \in F : lim > 0 => Cardinality({t \in F : t > r}) < lim})
<1>. DEFINE N(r) == Cardinality({t \in F : t > r})
            L == {r \in F : lim > 0 => N(r) < lim}
<1>1. Len(f) \in Nat
  BY LenProperties DEF Orders
<1>2. \A k \in 1 .. Len(f) : f[k] \in F /\ N(f[k]) = Len(f) - k
  BY Ranks DEF Orders
<1>3. \A i \in F : \E k \in 1 .. Len(f) : f[k] = i
  BY DEF Orders
<1>4. Orders(Limited(f, lim), L)
  <2>. HIDE DEF N
  <2>1. CASE lim > 0 /\ Len(f) > lim
    <3>. DEFINE a == Len(f) - lim + 1
    <3>1. a \in Nat \ {0} /\ Len(f) <= Len(f)
      BY <1>1, <2>1
    <3>2. Limited(f, lim) = SubSeq(f, a, Len(f))
      BY <2>1 DEF Limited
    <3>3. Orders(SubSeq(f, a, Len(f)), {f[k] : k \in a .. Len(f)})
      BY <1>1, <3>1, OrdersPart
    <3>4. {f[k] : k \in a .. Len(f)} = L
      <4>1. ASSUME NEW k \in a .. Len(f) PROVE f[k] \in L
        <5>1. k \in 1 .. Len(f) /\ Len(f) - k < lim
          BY <1>1, <2>1, <3>1
        <5>2. QED
          BY <1>2, <5>1
      <4>2. ASSUME NEW r \in L PROVE r \in {f[k] : k \in a .. Len(f)}
        <5>1. PICK k \in 1 .. Len(f) : f[k] = r
          BY <1>3
        <5>2. Len(f) - k < lim
          BY <1>2, <2>1, <5>1
        <5>3. k \in a .. Len(f)
          BY <1>1, <2>1, <5>2
        <5>4. QED
          BY <5>1, <5>3
      <4>3. QED
        BY <4>1, <4>2
    <3>5. QED
      BY <3>2, <3>3, <3>4
  <2>2. CASE ~(lim > 0 /\ Len(f) > lim)
    <3>1. Limited(f, lim) = f
      BY <2>2 DEF Limited
    <3>2. L = F
      <4>1. SUFFICES ASSUME NEW r \in F, lim > 0 PROVE N(r) < lim
        OBVIOUS
      <4>2. PICK k \in 1 .. Len(f) : f[k] = r
        BY <1>3
      <4>3. N(r) = Len(f) - k
        BY <1>2, <4>2
      <4>4. QED
        BY <1>1, <2>2, <4>1, <4>3
    <3>3. QED
      BY <3>1, <3>2
  <2>3. QED
    BY <2>1, <2>2
<1>5. QED
  BY <1>4

--------------------------------------------------------------------------------
(***************************************************************************)
(* The inductive invariant                                                 *)
(***************************************************************************)
\* The history is the last runs recorded, as many as the limit allows.
HistoryInv ==
    /\ Len(history) = IF recorded < HistoryLimit THEN recorded ELSE HistoryLimit
    /\ \A i \in 1 .. Len(history) : history[i] = recorded - Len(history) + i

\* How many statuses come before that of i.
Rank(i) == Cardinality({j \in DOMAIN state : j < i})

\* The client has got a job, or its next page is not past it yet.
PageInv ==
    /\ client = "none" => offset = 0
    /\ had \subseteq DOMAIN state
    /\ \A i \in had : i \in ToSet(got) \/ Rank(i) >= offset

\* The client goes on after the last run it got.
FromInv ==
    /\ client # "poll" => polled = <<>>
    /\ \/ polled = <<>> /\ from = 0
       \/ polled # <<>> /\ from = polled[Len(polled)] + 1

\* The inductive invariant.
QInv == QueriesType /\ HistoryInv /\ PageInv /\ FromInv /\ PagingComplete /\ PollsInOrder

\* The history orders the numbers in it.
LEMMA HistoryOrdered ==
    ASSUME QueriesType, HistoryInv
    PROVE  /\ Orders(history, ToSet(history))
           /\ ToSet(history) = recorded - Len(history) + 1 .. recorded
           /\ Len(history) \in Nat /\ Len(history) <= recorded
<1>. DEFINE n == Len(history)
            lo == recorded - n
<1>1. n \in Nat /\ history \in [1 .. n -> Nat] /\ history \in Seq(Nat) /\ DOMAIN history = 1 .. n
  BY LenProperties DEF QueriesType
<1>2. recorded \in Nat /\ lo \in Nat
  BY <1>1, QueriesAssumption DEF QueriesType, HistoryInv
<1>3. \A i \in 1 .. n : history[i] = lo + i
  BY DEF HistoryInv
<1>. HIDE DEF n
<1>4. \A i, j \in 1 .. n : i < j => history[i] < history[j]
  BY <1>1, <1>2, <1>3
<1>5. /\ \A i \in 1 .. n : history[i] \in ToSet(history)
      /\ \A x \in ToSet(history) : \E i \in 1 .. n : history[i] = x
  BY <1>1 DEF ToSet
<1>6. Orders(history, ToSet(history))
  BY <1>1, <1>4, <1>5 DEF Orders, n
<1>7. ToSet(history) = lo + 1 .. recorded
  <2>1. ASSUME NEW x \in ToSet(history) PROVE x \in lo + 1 .. recorded
    <3>1. PICK i \in 1 .. n : history[i] = x
      BY <1>5
    <3>2. QED
      BY <1>1, <1>2, <1>3, <3>1
  <2>2. ASSUME NEW x \in lo + 1 .. recorded PROVE x \in ToSet(history)
    <3>1. x - lo \in 1 .. n /\ lo + (x - lo) = x
      BY <1>1, <1>2
    <3>2. QED
      BY <1>3, <1>5, <3>1
  <2>3. QED
    BY <2>1, <2>2
<1>8. QED
  BY <1>1, <1>2, <1>6, <1>7 DEF n

\* The references of QueriesExact: the page of the numbers of F, and the newest of H.
PageOf(F, off, lim) ==
    {i \in F : /\ Cardinality({j \in F : j < i}) >= off
               /\ lim > 0 => Cardinality({j \in F : j < i}) - Offset(off) < lim}

NewestOf(H, seq, lim) ==
    {s \in H : s >= seq /\ (lim > 0 => Cardinality({t \in H : t > s}) < lim)}

\* QueryJobHistory, against its definition by rank.
LEMMA HistoryExact ==
    ASSUME NEW H, Orders(history, H), NEW seq \in Int, NEW lim \in Int
    PROVE  H = ToSet(history) =>
              Orders(QueryJobHistory(history, seq, lim),
                     {s \in H : s >= seq /\ (lim > 0 => Cardinality({t \in H : t > s}) < lim)})
<1>1. SUFFICES ASSUME H = ToSet(history)
               PROVE  Orders(QueryJobHistory(history, seq, lim),
                     {s \in H : s >= seq /\ (lim > 0 => Cardinality({t \in H : t > s}) < lim)})
  OBVIOUS
<1>. DEFINE R == {s \in H : s >= seq}
            runs == IF seq > 0 THEN Filter(history, R) ELSE history
            N(r) == Cardinality({t \in H : t > r})
<1>2. \A s \in H : s \in Nat
  BY OrdersLength
<1>3. QueryJobHistory(history, seq, lim) = Limited(runs, lim)
  BY <1>1 DEF QueryJobHistory
<1>4. Orders(runs, R)
  <2>1. CASE seq > 0
    <3>1. H \cap R = R
      OBVIOUS
    <3>2. runs = Filter(history, R)
      BY <2>1
    <3>. HIDE DEF R, runs
    <3>3. Orders(Filter(history, R), H \cap R)
      BY FilterOrders
    <3>4. QED
      BY <3>1, <3>2, <3>3
  <2>2. CASE ~(seq > 0)
    <3>1. R = H
      BY <1>2, <2>2
    <3>2. runs = history
      BY <2>2
    <3>. HIDE DEF R, runs
    <3>3. QED
      BY <3>1, <3>2
  <2>3. QED
    BY <2>1, <2>2
<1>5. ASSUME NEW r \in R PROVE {t \in R : t > r} = {t \in H : t > r}
  <2>1. r \in Nat /\ r >= seq
    BY <1>2
  <2>2. \A t \in H : t > r => t >= seq
    BY <1>2, <2>1
  <2>3. QED
    BY <2>2
<1>6. {r \in R : lim > 0 => Cardinality({t \in R : t > r}) < lim}
         = {s \in H : s >= seq /\ (lim > 0 => N(s) < lim)}
  <2>1. \A r \in R : Cardinality({t \in R : t > r}) = N(r)
    BY <1>5, Zenon
  <2>2. {r \in R : lim > 0 => Cardinality({t \in R : t > r}) < lim}
           = {r \in R : lim > 0 => N(r) < lim}
    <3>. HIDE DEF R, N
    <3>1. QED
      BY <2>1
  <2>3. {r \in R : lim > 0 => N(r) < lim} = {s \in H : s >= seq /\ (lim > 0 => N(s) < lim)}
    <3>. HIDE DEF N
    <3>1. QED
      BY Zenon
  <2>4. QED
    BY <2>2, <2>3, Zenon
<1>7. Orders(Limited(runs, lim), {r \in R : lim > 0 => Cardinality({t \in R : t > r}) < lim})
  <2>. HIDE DEF R, runs
  <2>1. QED
    BY <1>4, LimitedOrders
<1>8. QED
  BY <1>3, <1>6, <1>7, Zenon

\* QueryJobStatuses, against its definition by rank.
LEMMA StatusesExact ==
    ASSUME NEW ids, NEW states, NEW off \in MinInt .. MaxInt, NEW lim \in MinInt .. MaxInt,
           off + lim <= MaxInt, NEW F, Orders(Matching(ids, states), F)
    PROVE  /\ ~QueryPanics(ids, states, off, lim)
           /\ Orders(QueryJobStatuses(ids, states, off, lim), PageOf(F, off, lim))
<1>. DEFINE f == Matching(ids, states)
            n == Len(f)
            start == Offset(off)
            end == PageEnd(n, start, lim)
            R(i) == Cardinality({j \in F : j < i})
            P == {i \in F : R(i) >= off /\ (lim > 0 => R(i) - start < lim)}
<1>1. MaxInt \in Nat \ {0} /\ MinInt \in Int
  BY MaxIntAssumption DEF MinInt
<1>2. off \in Int /\ lim \in Int /\ lim <= MaxInt
  BY <1>1
<1>3. Orders(f, F)
  OBVIOUS
<1>4. n \in Nat
  BY <1>3, OrdersLength
<1>5. start \in Nat /\ start = IF off > 0 THEN off ELSE 0
  BY <1>2 DEF Offset
<1>6. lim > 0 => start + lim <= MaxInt
  BY <1>1, <1>2, <1>5
<1>7. /\ QueryPanics(ids, states, off, lim) <=> (start < n /\ end < start)
      /\ QueryJobStatuses(ids, states, off, lim) =
            IF start >= n THEN <<>> ELSE SubSeq(f, start + 1, end)
  BY DEF QueryPanics, QueryJobStatuses
<1>8. /\ \A k \in 1 .. n : f[k] \in F /\ R(f[k]) = k - 1
      /\ \A i \in F : \E k \in 1 .. n : f[k] = i
  <2>1. \A k \in 1 .. n : R(f[k]) = k - 1
    BY <1>3, Ranks, Zenon
  <2>2. /\ \A i \in F : \E k \in 1 .. n : f[k] = i
        /\ \A k \in 1 .. n : f[k] \in F
    BY <1>3, Zenon DEF Orders
  <2>. HIDE DEF R, f, n
  <2>3. QED
    BY <2>1, <2>2
<1>. HIDE DEF f, n, start
<1>9. end = IF lim > 0 /\ start + lim < n THEN start + lim ELSE n
  BY <1>4, <1>5, <1>6, PageEndExact
<1>. HIDE DEF end, R
<1>10. ~(start < n /\ end < start)
  BY <1>2, <1>4, <1>5, <1>9
<1>11. \A k \in 1 .. n : f[k] \in P <=> k - 1 >= off /\ (lim > 0 => k - 1 - start < lim)
  BY <1>8
<1>12. Orders(QueryJobStatuses(ids, states, off, lim), P)
  <2>1. CASE start >= n
    <3>1. \A k \in 1 .. n : f[k] \notin P
      BY <1>2, <1>4, <1>5, <1>11, <2>1
    <3>2. P = {}
      BY <1>8, <3>1
    <3>3. Orders(<<>>, {})
      BY DEF Orders
    <3>4. QED
      BY <1>7, <2>1, <3>2, <3>3
  <2>2. CASE ~(start >= n)
    <3>1. end \in Nat /\ end <= n
      BY <1>2, <1>4, <1>5, <1>9
    <3>2. \A k \in 1 .. n : f[k] \in P <=> start < k /\ k <= end
      BY <1>2, <1>4, <1>5, <1>9, <1>11, <2>2
    <3>3. \A i \in P : i \in F
      OBVIOUS
    <3>. HIDE DEF P
    <3>4. Orders(SubSeq(f, start + 1, end), P)
      BY <1>3, <1>5, <3>1, <3>2, <3>3, SliceOrders DEF n
    <3>5. QED
      BY <1>7, <2>2, <3>4
  <2>3. QED
    BY <2>1, <2>2
<1>13. ~QueryPanics(ids, states, off, lim)
  BY <1>7, <1>10
<1>14. QED
  BY <1>12, <1>13, Zenon DEF P, R, start, PageOf

\* What orders an interval counts through it.
LEMMA IntervalOrders ==
    ASSUME NEW a \in Nat, NEW b \in Nat, NEW s, Orders(s, a .. b)
    PROVE  /\ Len(s) = IF a <= b THEN b - a + 1 ELSE 0
           /\ \A i \in 1 .. Len(s) : s[i] = a + i - 1
<1>. DEFINE m == IF a <= b THEN b - a + 1 ELSE 0
            t == [i \in 1 .. m |-> a + i - 1]
<1>1. m \in Nat
  OBVIOUS
<1>. HIDE DEF m
<1>2. \A i \in 1 .. m : t[i] = a + i - 1 /\ a + i - 1 \in a .. b /\ a + i - 1 \in Nat
  BY <1>1 DEF m
<1>3. t \in Seq(Nat) /\ Len(t) = m
  <2>1. t \in [1 .. m -> Nat]
    BY <1>1
  <2>. HIDE DEF t
  <2>2. QED
    BY <1>1, <2>1
<1>4. \A i, j \in 1 .. m : i < j => t[i] < t[j]
  BY <1>1, <1>2
<1>5. ASSUME NEW x \in a .. b PROVE \E i \in 1 .. m : t[i] = x
  <2>1. x - a + 1 \in 1 .. m /\ a + (x - a + 1) - 1 = x
    BY DEF m
  <2>2. QED
    BY <1>2, <2>1
<1>. HIDE DEF t
<1>6. Orders(t, a .. b)
  BY <1>2, <1>3, <1>4, <1>5 DEF Orders
<1>7. s = t
  BY <1>6, OrdersUnique
<1>8. QED
  BY <1>2, <1>3, <1>7 DEF m

\* How many runs a full poll has.
Full(lim) == IF lim > 0 /\ lim < HistoryLimit THEN lim ELSE HistoryLimit

\* A poll gets the runs from a number on up to the last one; that is the number asked for,
\* or the first of all, unless the poll is full.
LEMMA PollFacts ==
    ASSUME QueriesType, HistoryInv, NEW lim \in Int, NEW runs,
           runs = QueryJobHistory(history, from, lim)
    PROVE  /\ runs \in Seq(Nat)
           /\ \E a \in Nat : /\ Len(runs) = IF a <= recorded THEN recorded - a + 1 ELSE 0
                             /\ \A i \in 1 .. Len(runs) : runs[i] = a + i - 1
                             /\ a >= from /\ a >= 1
                             /\ a = from \/ a = 1 \/ recorded - a + 1 >= Full(lim)
<1>. DEFINE H == ToSet(history)
            lo == recorded - Len(history)
            C == IF lo + 1 > from THEN lo + 1 ELSE from
            a == IF lim > 0 /\ recorded - lim + 1 > C THEN recorded - lim + 1 ELSE C
            N(s) == Cardinality({t \in H : t > s})
            P == {s \in H : s >= from /\ (lim > 0 => N(s) < lim)}
<1>1. recorded \in Nat /\ from \in Nat /\ HistoryLimit \in Nat \ {0}
  BY QueriesAssumption DEF QueriesType
<1>2. Orders(history, H) /\ H = lo + 1 .. recorded /\ Len(history) \in Nat /\ Len(history) <= recorded
  BY HistoryOrdered
<1>3. lo \in Nat /\ (lo = 0 \/ Len(history) = HistoryLimit)
  BY <1>1, <1>2 DEF HistoryInv
<1>4. Orders(runs, P)
  <2>1. from \in Int
    BY <1>1
  <2>2. QED
    BY <1>2, <2>1, HistoryExact, Zenon
<1>5. \A s \in H : N(s) = recorded - s
  <2>1. SUFFICES ASSUME NEW s \in lo + 1 .. recorded PROVE N(s) = recorded - s
    BY <1>2
  <2>2. {t \in H : t > s} = s + 1 .. recorded
    BY <1>1, <1>2, <1>3
  <2>3. Cardinality(s + 1 .. recorded) = recorded - s
    <3>1. s + 1 \in Int /\ recorded \in Int
      BY <1>1, <1>3
    <3>2. Cardinality(s + 1 .. recorded) = IF s + 1 > recorded THEN 0 ELSE recorded - (s + 1) + 1
      BY <3>1, FS_Interval
    <3>3. QED
      BY <1>1, <1>3, <3>2
  <2>4. QED
    BY <2>2, <2>3
<1>6. C \in Nat /\ C >= from /\ C >= 1 /\ C >= lo + 1 /\ (C = lo + 1 \/ C = from)
  BY <1>1, <1>3
<1>. HIDE DEF C, N
<1>7. a \in Nat /\ a >= C /\ (a = C \/ (lim > 0 /\ a = recorded - lim + 1))
      /\ (lim > 0 => a >= recorded - lim + 1)
  BY <1>1, <1>6
<1>8. P = a .. recorded
  <2>1. ASSUME NEW s \in P PROVE s \in a .. recorded
    BY <1>1, <1>2, <1>3, <1>5, <1>6 DEF C
  <2>2. ASSUME NEW s \in a .. recorded PROVE s \in P
    <3>. HIDE DEF a
    <3>1. s \in lo + 1 .. recorded /\ s >= from /\ (lim > 0 => recorded - s < lim)
      BY <1>1, <1>3, <1>6, <1>7
    <3>2. QED
      BY <1>2, <1>5, <3>1
  <2>3. QED
    BY <2>1, <2>2
<1>. HIDE DEF P, a
<1>9. Orders(runs, a .. recorded)
  BY <1>4, <1>8
<1>10. /\ Len(runs) = IF a <= recorded THEN recorded - a + 1 ELSE 0
       /\ \A i \in 1 .. Len(runs) : runs[i] = a + i - 1
  <2>1. a \in Nat /\ recorded \in Nat
    BY <1>1, <1>7
  <2>2. QED
    BY <1>9, <2>1, IntervalOrders, Zenon
<1>11. a = from \/ a = 1 \/ recorded - a + 1 >= Full(lim)
  BY <1>1, <1>2, <1>3, <1>6, <1>7 DEF Full
<1>12. runs \in Seq(Nat)
  BY <1>9 DEF Orders
<1>13. QED
  BY <1>1, <1>6, <1>7, <1>10, <1>11, <1>12

--------------------------------------------------------------------------------
(***************************************************************************)
(* The steps                                                               *)
(***************************************************************************)
\* The inductive invariant holds at the start.
LEMMA QueriesInitial == QueriesInit => QInv
<1>1. SUFFICES ASSUME QueriesInit PROVE QInv
  OBVIOUS
<1>2. DOMAIN state \in SUBSET Ids
  BY <1>1 DEF QueriesInit
<1>3. 0 \in MinInt .. MaxInt
  BY MaxIntAssumption DEF MinInt
<1>4. <<>> \in Seq(Nat) /\ Len(<<>>) = 0 /\ DOMAIN <<>> = {}
  OBVIOUS
<1>5. QueriesType
  BY <1>1, <1>2, <1>3, <1>4 DEF QueriesInit, QueriesType
<1>6. HistoryInv
  BY <1>1, <1>4, QueriesAssumption DEF QueriesInit, HistoryInv
<1>7. PageInv /\ FromInv /\ PagingComplete
  BY <1>1 DEF QueriesInit, PageInv, FromInv, PagingComplete
<1>8. PollsInOrder
  BY <1>1, <1>4 DEF QueriesInit, PollsInOrder
<1>9. QED
  BY <1>5, <1>6, <1>7, <1>8 DEF QInv

\* A rank is a number.
LEMMA RankType ==
    ASSUME QueriesType, NEW i
    PROVE  /\ Rank(i) \in Nat
           /\ IsFiniteSet({j \in DOMAIN state : j < i})
<1>1. DOMAIN state \in SUBSET Ids /\ IsFiniteSet(Ids)
  BY QueriesAssumption DEF QueriesType
<1>2. {j \in DOMAIN state : j < i} \in SUBSET Ids
  BY <1>1
<1>. DEFINE B == {j \in DOMAIN state : j < i}
<1>. HIDE DEF B
<1>3. IsFiniteSet(B)
  BY <1>1, <1>2, FS_Subset DEF B
<1>4. Cardinality(B) \in Nat
  BY <1>3, FS_CardinalityType
<1>5. QED
  BY <1>3, <1>4 DEF B, Rank

\* A client that begins has got nothing yet.
LEMMA StartStep ==
    ASSUME QInv, NEW what \in {"page", "poll"}, NEW lim \in Limits, Start(what, lim)
    PROVE  QInv'
<1>1. /\ client = "none" /\ client' = what /\ limit' = lim /\ had' = DOMAIN state
      /\ state' = state /\ offset' = offset /\ got' = got
      /\ history' = history /\ recorded' = recorded /\ from' = from /\ polled' = polled
  BY DEF Start, pollVars
<1>2. polled = <<>> /\ from = 0 /\ offset = 0
  BY <1>1 DEF QInv, FromInv, PageInv
<1>3. QueriesType'
  BY <1>1, QueriesAssumption DEF QInv, QueriesType
<1>4. HistoryInv' /\ FromInv' /\ PagingComplete'
  BY <1>1, <1>2 DEF QInv, HistoryInv, FromInv, PagingComplete
<1>5. PageInv'
  <2>1. \A i \in had' : Rank(i)' = Rank(i) /\ Rank(i) \in Nat
    BY <1>1, RankType DEF QInv, Rank
  <2>2. QED
    BY <1>1, <1>2, <2>1 DEF PageInv
<1>6. PollsInOrder'
  <2>1. DOMAIN polled' = {}
    BY <1>1, <1>2
  <2>2. QED
    BY <2>1 DEF PollsInOrder
<1>7. QED
  BY <1>3, <1>4, <1>5, <1>6 DEF QInv

\* The statuses the paging client sees.
LEMMA PagedStatuses ==
    ASSUME QueriesType
    PROVE  Orders(Matching({}, {}), DOMAIN state)
<1>1. {i \in DOMAIN state : Wanted(i, {}, {})} = DOMAIN state
  BY DEF Wanted
<1>2. Orders(Matching({}, {}), {i \in DOMAIN state : Wanted(i, {}, {})})
  BY MatchingOrders, Zenon
<1>3. QED
  BY <1>1, <1>2

\* What a concatenation holds.
LEMMA ToSetOfConcat ==
    ASSUME NEW s \in Seq(Nat), NEW t \in Seq(Nat)
    PROVE  /\ s \o t \in Seq(Nat)
           /\ ToSet(s) \subseteq ToSet(s \o t)
           /\ ToSet(t) \subseteq ToSet(s \o t)
<1>. DEFINE u == s \o t
<1>1. /\ u \in Seq(Nat) /\ Len(u) = Len(s) + Len(t) /\ Len(s) \in Nat /\ Len(t) \in Nat
      /\ \A i \in 1 .. Len(s) + Len(t) : u[i] = IF i <= Len(s) THEN s[i] ELSE t[i - Len(s)]
  BY ConcatProperties, LenProperties
<1>2. DOMAIN s = 1 .. Len(s) /\ DOMAIN t = 1 .. Len(t) /\ DOMAIN u = 1 .. Len(s) + Len(t)
  BY <1>1, LenProperties
<1>. HIDE DEF u
<1>3. ASSUME NEW x \in ToSet(s) PROVE x \in ToSet(u)
  <2>1. PICK i \in 1 .. Len(s) : s[i] = x
    BY <1>2 DEF ToSet
  <2>2. i \in 1 .. Len(s) + Len(t) /\ i <= Len(s)
    BY <1>1
  <2>3. u[i] = x
    BY <1>1, <2>1, <2>2
  <2>4. QED
    BY <1>2, <2>2, <2>3 DEF ToSet
<1>4. ASSUME NEW x \in ToSet(t) PROVE x \in ToSet(u)
  <2>1. PICK i \in 1 .. Len(t) : t[i] = x
    BY <1>2 DEF ToSet
  <2>2. /\ Len(s) + i \in 1 .. Len(s) + Len(t) /\ ~(Len(s) + i <= Len(s))
        /\ (Len(s) + i) - Len(s) = i
    BY <1>1
  <2>3. u[Len(s) + i] = x
    BY <1>1, <2>1, <2>2
  <2>4. QED
    BY <1>2, <2>2, <2>3 DEF ToSet
<1>5. QED
  BY <1>1, <1>3, <1>4 DEF u

\* A page gets the jobs of the next ranks, and the last one is empty.
LEMMA PageStep ==
    ASSUME QInv, Page
    PROVE  QInv'
<1>. DEFINE f == Matching({}, {})
            n == Len(f)
            end == PageEnd(n, offset, limit)
            page == QueryJobStatuses({}, {}, offset, limit)
<1>1. /\ client = "page" /\ limit' = limit /\ state' = state /\ had' = had
      /\ history' = history /\ recorded' = recorded /\ from' = from /\ polled' = polled
  BY DEF Page, pollVars
<1>2. /\ QueriesType /\ HistoryInv /\ PageInv /\ FromInv /\ PollsInOrder
      /\ offset \in Nat /\ got \in Seq(Nat) /\ limit \in MinInt .. MaxInt
  BY DEF QInv, QueriesType
<1>3. Orders(f, DOMAIN state)
  BY <1>2, PagedStatuses
<1>4. n \in Nat /\ f \in Seq(Nat)
  BY <1>3, OrdersLength DEF Orders
<1>5. Offset(offset) = offset
  BY <1>2 DEF Offset
<1>6. QueryPanics({}, {}, offset, limit) <=> (offset < n /\ end < offset)
  BY <1>5 DEF QueryPanics
<1>7. page = IF offset >= n THEN <<>> ELSE SubSeq(f, offset + 1, end)
  BY <1>5 DEF QueryJobStatuses
<1>8. \A i \in DOMAIN state : \E k \in 1 .. n : f[k] = i /\ Rank(i) = k - 1
  <2>1. \A k \in 1 .. n : Rank(f[k]) = k - 1
    BY <1>3, Ranks, Zenon DEF Rank
  <2>2. \A i \in DOMAIN state : \E k \in 1 .. n : f[k] = i
    BY <1>3, Zenon DEF Orders
  <2>. HIDE DEF f, n
  <2>3. QED
    BY <2>1, <2>2
<1>9. had \subseteq DOMAIN state /\ \A i \in had : i \in ToSet(got) \/ Rank(i) >= offset
  BY <1>2 DEF PageInv
<1>10. \A i : Rank(i)' = Rank(i)
  BY <1>1 DEF Rank
<1>11. polled = <<>> /\ from = 0
  BY <1>1, <1>2 DEF FromInv
<1>12. \/ /\ QueryPanics({}, {}, offset, limit)
          /\ client' = "panic" /\ offset' = offset /\ got' = got
       \/ /\ ~QueryPanics({}, {}, offset, limit)
          /\ client' = IF page = <<>> THEN "end" ELSE client
          /\ offset' = offset + Len(page) /\ got' = got \o page
  BY DEF Page
<1>. HIDE DEF f, n, end, page
<1>13. HistoryInv' /\ PollsInOrder'
  BY <1>1, <1>2 DEF HistoryInv, PollsInOrder
<1>14. client' # "poll" /\ client' # "none" /\ client' \in {"page", "end", "panic"}
  BY <1>1, <1>12
<1>15. FromInv'
  BY <1>1, <1>11 DEF FromInv
<1>16. QueriesType' /\ PageInv' /\ PagingComplete'
  <2>1. CASE QueryPanics({}, {}, offset, limit)
    <3>1. client' = "panic" /\ offset' = offset /\ got' = got
      BY <1>12, <2>1
    <3>2. QueriesType'
      BY <1>1, <1>2, <3>1 DEF QueriesType
    <3>3. PageInv' /\ PagingComplete'
      BY <1>1, <1>9, <1>10, <3>1 DEF PageInv, PagingComplete
    <3>4. QED
      BY <3>2, <3>3
  <2>2. CASE ~QueryPanics({}, {}, offset, limit) /\ offset >= n
    <3>1. page = <<>>
      BY <1>7, <2>2
    <3>2. client' = "end" /\ offset' = offset + Len(<<>>) /\ got' = got \o <<>>
      BY <1>12, <2>2, <3>1
    <3>3. offset' = offset /\ got' = got
      BY <1>2, <3>2
    <3>4. QueriesType'
      BY <1>1, <1>2, <3>2, <3>3 DEF QueriesType
    <3>5. \A i \in had : i \in ToSet(got)
      BY <1>2, <1>4, <1>8, <1>9, <2>2
    <3>6. PageInv' /\ PagingComplete'
      BY <1>1, <1>9, <3>2, <3>3, <3>5 DEF PageInv, PagingComplete
    <3>7. QED
      BY <3>4, <3>6
  <2>3. CASE ~QueryPanics({}, {}, offset, limit) /\ ~(offset >= n)
    <3>1. offset < n /\ ~(end < offset)
      BY <1>2, <1>4, <1>6, <2>3
    <3>2. end \in Nat /\ offset < end /\ end <= n
      BY <1>2, <1>4, <3>1, PageEndMoves DEF end
    <3>3. page = SubSeq(f, offset + 1, end)
      BY <1>7, <2>3
    <3>4. /\ page \in Seq(Nat) /\ Len(page) = end - offset
          /\ \A k \in 1 .. end - offset : page[k] = f[offset + k]
      <4>1. \A k \in offset + 1 .. end : f[k] \in Nat
        BY <1>2, <1>4, <3>2 DEF n
      <4>2. offset + 1 \in Int /\ end \in Int /\ offset + 1 <= end
        BY <1>2, <3>2
      <4>3. /\ SubSeq(f, offset + 1, end) \in Seq(Nat)
            /\ Len(SubSeq(f, offset + 1, end)) =
                  IF offset + 1 <= end THEN end - (offset + 1) + 1 ELSE 0
            /\ \A i \in 1 .. end - (offset + 1) + 1 :
                  SubSeq(f, offset + 1, end)[i] = f[(offset + 1) + i - 1]
        BY <4>1, <4>2, SubSeqProperties
      <4>4. /\ end - (offset + 1) + 1 = end - offset
            /\ \A i \in 1 .. end - offset : (offset + 1) + i - 1 = offset + i
        BY <1>2, <3>2
      <4>5. QED
        BY <3>3, <4>2, <4>3, <4>4
    <3>5. page # <<>>
      BY <1>2, <3>2, <3>4
    <3>6. client' = "page" /\ offset' = end /\ got' = got \o page
      BY <1>1, <1>2, <1>12, <2>3, <3>2, <3>4, <3>5
    <3>7. got' \in Seq(Nat) /\ ToSet(got) \subseteq ToSet(got') /\ ToSet(page) \subseteq ToSet(got')
      BY <1>2, <3>4, <3>6, ToSetOfConcat
    <3>8. QueriesType'
      BY <1>1, <1>2, <3>2, <3>6, <3>7 DEF QueriesType
    <3>9. ASSUME NEW i \in had, i \notin ToSet(got') PROVE Rank(i) >= end
      <4>1. Rank(i) >= offset
        BY <1>9, <3>7, <3>9
      <4>2. PICK k \in 1 .. n : f[k] = i /\ Rank(i) = k - 1
        BY <1>8, <1>9
      <4>3. k > end
        <5>1. SUFFICES ASSUME k <= end PROVE FALSE
          BY <1>4, <3>2
        <5>2. k - offset \in 1 .. end - offset /\ offset + (k - offset) = k
          BY <1>2, <1>4, <3>2, <4>1, <4>2, <5>1
        <5>3. page[k - offset] = i
          BY <3>4, <4>2, <5>2
        <5>4. k - offset \in DOMAIN page
          BY <3>4, <5>2
        <5>5. i \in ToSet(page)
          BY <5>3, <5>4 DEF ToSet
        <5>6. QED
          BY <3>7, <3>9, <5>5
      <4>4. QED
        BY <1>4, <3>2, <4>2, <4>3
    <3>10. PageInv' /\ PagingComplete'
      BY <1>1, <1>9, <1>10, <3>6, <3>9 DEF PageInv, PagingComplete
    <3>11. QED
      BY <3>8, <3>10
  <2>4. QED
    BY <2>1, <2>2, <2>3
<1>17. QED
  BY <1>13, <1>15, <1>16 DEF QInv

\* A job that appears before others moves them back, never forward.
LEMMA ChangeStep ==
    ASSUME QInv, NEW i \in Ids, NEW s \in States, Change(i, s)
    PROVE  QInv'
<1>1. /\ client = "page" /\ client' = client /\ limit' = limit /\ had' = had /\ offset' = offset
      /\ got' = got /\ history' = history /\ recorded' = recorded /\ from' = from
      /\ polled' = polled
  BY DEF Change, pollVars
<1>2. DOMAIN state' = DOMAIN state \cup {i}
  BY DEF Change
<1>3. QueriesType /\ HistoryInv /\ PageInv /\ FromInv /\ PollsInOrder
  BY DEF QInv
<1>4. QueriesType'
  BY <1>1, <1>2, <1>3 DEF QueriesType
<1>5. HistoryInv' /\ FromInv' /\ PollsInOrder' /\ PagingComplete'
  BY <1>1, <1>3 DEF HistoryInv, FromInv, PollsInOrder, PagingComplete
<1>6. ASSUME NEW x PROVE Rank(x)' >= Rank(x) /\ Rank(x)' \in Nat /\ Rank(x) \in Nat
  <2>. DEFINE B == {j \in DOMAIN state : j < x}
              C == {j \in DOMAIN state' : j < x}
  <2>1. B \in SUBSET C
    BY <1>2
  <2>2. C \in SUBSET Ids /\ IsFiniteSet(Ids)
    BY <1>4, QueriesAssumption DEF QueriesType
  <2>3. Rank(x) = Cardinality(B) /\ Rank(x)' = Cardinality(C)
    BY DEF Rank
  <2>. HIDE DEF B, C
  <2>4. IsFiniteSet(C)
    BY <2>2, FS_Subset
  <2>5. IsFiniteSet(B) /\ Cardinality(B) <= Cardinality(C)
    BY <2>1, <2>4, FS_Subset
  <2>6. Cardinality(B) \in Nat /\ Cardinality(C) \in Nat
    BY <2>4, <2>5, FS_CardinalityType
  <2>7. QED
    BY <2>3, <2>5, <2>6
<1>7. PageInv'
  <2>1. offset \in Nat
    BY <1>3 DEF QueriesType
  <2>2. \A x \in had : x \in ToSet(got) \/ Rank(x)' >= offset
    BY <1>3, <1>6, <2>1 DEF PageInv
  <2>3. QED
    BY <1>1, <1>2, <1>3, <2>2 DEF PageInv
<1>8. QED
  BY <1>4, <1>5, <1>7 DEF QInv

\* The history after another run.
LEMMA RecordStep ==
    ASSUME QInv, Record
    PROVE  QInv'
<1>. DEFINE n == Len(history)
            longer == Append(history, recorded + 1)
<1>1. /\ client = "poll" /\ client' = client /\ limit' = limit /\ had' = had /\ offset' = offset
      /\ got' = got /\ state' = state /\ from' = from /\ polled' = polled
      /\ recorded' = recorded + 1
  BY DEF Record, pageVars
<1>2. history' = Limited(longer, HistoryLimit)
  BY <1>1 DEF Record
<1>3. QueriesType /\ HistoryInv /\ PageInv /\ FromInv /\ PollsInOrder /\ PagingComplete
  BY DEF QInv
<1>4. /\ history \in Seq(Nat) /\ recorded \in Nat /\ n \in Nat
      /\ HistoryLimit \in Nat \ {0}
  BY <1>3, LenProperties, QueriesAssumption DEF QueriesType
<1>5. /\ longer \in Seq(Nat) /\ Len(longer) = n + 1 /\ longer[n + 1] = recorded + 1
      /\ \A i \in 1 .. n : longer[i] = history[i]
  BY <1>4
<1>6. /\ n = IF recorded < HistoryLimit THEN recorded ELSE HistoryLimit
      /\ \A i \in 1 .. n : history[i] = recorded - n + i
  BY <1>3 DEF HistoryInv
<1>. HIDE DEF n, longer
<1>7. \A i \in 1 .. n + 1 : longer[i] = recorded - n + i
  <2>1. SUFFICES ASSUME NEW i \in 1 .. n + 1 PROVE longer[i] = recorded - n + i
    OBVIOUS
  <2>2. CASE i = n + 1
    BY <1>4, <1>5, <2>2
  <2>3. CASE i # n + 1
    <3>1. i \in 1 .. n
      BY <1>4, <2>3
    <3>2. QED
      BY <1>5, <1>6, <3>1
  <2>4. QED
    BY <2>2, <2>3
<1>8. history' \in Seq(Nat) /\ HistoryInv'
  <2>1. CASE n + 1 > HistoryLimit
    <3>1. n = HistoryLimit /\ recorded >= HistoryLimit
      BY <1>4, <1>6, <2>1
    <3>2. (n + 1) - HistoryLimit + 1 = 2
      BY <1>4, <3>1
    <3>3. history' = SubSeq(longer, 2, n + 1)
      BY <1>2, <1>4, <1>5, <2>1, <3>2 DEF Limited
    <3>4. /\ SubSeq(longer, 2, n + 1) \in Seq(Nat)
          /\ Len(SubSeq(longer, 2, n + 1)) = IF 2 <= n + 1 THEN (n + 1) - 2 + 1 ELSE 0
          /\ \A i \in 1 .. (n + 1) - 2 + 1 : SubSeq(longer, 2, n + 1)[i] = longer[2 + i - 1]
      <4>1. \A i \in 2 .. n + 1 : longer[i] \in Nat
        BY <1>4, <1>5, ElementOfSeq
      <4>2. 2 \in Int /\ n + 1 \in Int
        BY <1>4
      <4>3. QED
        BY <4>1, <4>2, SubSeqProperties
    <3>5. history' \in Seq(Nat) /\ Len(history') = n
      BY <1>4, <3>1, <3>3, <3>4
    <3>6. \A i \in 1 .. n : history'[i] = recorded' - n + i
      <4>1. SUFFICES ASSUME NEW i \in 1 .. n PROVE history'[i] = recorded' - n + i
        OBVIOUS
      <4>2. i \in 1 .. (n + 1) - 2 + 1 /\ 2 + i - 1 = i + 1 /\ i + 1 \in 1 .. n + 1
        BY <1>4
      <4>3. history'[i] = longer[i + 1]
        BY <3>3, <3>4, <4>2
      <4>4. QED
        BY <1>1, <1>4, <1>7, <4>2, <4>3
    <3>7. QED
      BY <1>1, <1>4, <3>1, <3>5, <3>6 DEF HistoryInv
  <2>2. CASE ~(n + 1 > HistoryLimit)
    <3>1. n = recorded /\ recorded < HistoryLimit
      BY <1>4, <1>6, <2>2
    <3>2. history' = longer
      BY <1>2, <1>4, <1>5, <2>2 DEF Limited
    <3>3. history' \in Seq(Nat) /\ Len(history') = n + 1
      BY <1>5, <3>2
    <3>4. \A i \in 1 .. n + 1 : history'[i] = recorded' - (n + 1) + i
      BY <1>1, <1>4, <1>7, <3>2
    <3>5. QED
      BY <1>1, <1>4, <3>1, <3>3, <3>4 DEF HistoryInv
  <2>3. QED
    BY <2>1, <2>2
<1>9. QueriesType'
  BY <1>1, <1>3, <1>4, <1>8 DEF QueriesType
<1>10. PageInv' /\ FromInv' /\ PollsInOrder' /\ PagingComplete'
  BY <1>1, <1>3 DEF PageInv, Rank, FromInv, PollsInOrder, PagingComplete
<1>11. QED
  BY <1>8, <1>9, <1>10 DEF QInv

\* What PollsInOrder says of the i-th run.
InOrder(p, full, i) ==
    LET before == IF i = 1 THEN 0 ELSE p[i - 1]
    IN  \/ p[i] = before + 1
        \/ p[i] > before /\ p[i] .. p[i] + full - 1 \subseteq ToSet(p)

\* A poll continues where the last one ended, or is full.
LEMMA PollStep ==
    ASSUME QInv, Poll
    PROVE  QInv'
<1>. DEFINE runs == QueryJobHistory(history, from, limit)
            n == Len(polled)
            m == Len(runs)
<1>1. /\ client = "poll" /\ client' = client /\ limit' = limit /\ had' = had /\ offset' = offset
      /\ got' = got /\ state' = state /\ history' = history /\ recorded' = recorded
      /\ runs # <<>> /\ polled' = polled \o runs /\ from' = Last(runs) + 1
  BY DEF Poll, pageVars
<1>2. QueriesType /\ HistoryInv /\ PageInv /\ FromInv /\ PollsInOrder /\ PagingComplete
  BY DEF QInv
<1>3. /\ polled \in Seq(Nat) /\ n \in Nat /\ recorded \in Nat /\ from \in Nat
      /\ limit \in Int /\ HistoryLimit \in Nat \ {0}
  <2>1. MinInt \in Int /\ MaxInt \in Int
    BY MaxIntAssumption DEF MinInt
  <2>2. QED
    BY <1>2, <2>1, LenProperties, QueriesAssumption DEF QueriesType
<1>4. /\ runs \in Seq(Nat)
      /\ \E a \in Nat : /\ Len(runs) = IF a <= recorded THEN recorded - a + 1 ELSE 0
                        /\ \A i \in 1 .. Len(runs) : runs[i] = a + i - 1
                        /\ a >= from /\ a >= 1
                        /\ a = from \/ a = 1 \/ recorded - a + 1 >= Full(limit)
  BY <1>2, <1>3, PollFacts
<1>5. PollsInOrder = \A i \in DOMAIN polled : InOrder(polled, Full(limit), i)
  BY DEF PollsInOrder, InOrder, Full
<1>6. PollsInOrder' = \A i \in DOMAIN polled' : InOrder(polled', Full(limit'), i)
  BY DEF PollsInOrder, InOrder, Full
<1>. HIDE DEF runs
<1>7. m \in Nat \ {0} /\ DOMAIN runs = 1 .. m
  BY <1>1, <1>4, EmptySeq, LenProperties
<1>8. PICK a \in Nat : /\ a <= recorded /\ m = recorded - a + 1
                       /\ \A i \in 1 .. m : runs[i] = a + i - 1
                       /\ a >= from /\ a >= 1
                       /\ a = from \/ a = 1 \/ recorded - a + 1 >= Full(limit)
  BY <1>4, <1>7
<1>9. /\ polled' \in Seq(Nat) /\ Len(polled') = n + m
      /\ \A i \in 1 .. n + m : polled'[i] = IF i <= n THEN polled[i] ELSE runs[i - n]
      /\ DOMAIN polled' = 1 .. n + m /\ DOMAIN polled = 1 .. n
  <2>1. /\ polled \o runs \in Seq(Nat) /\ Len(polled \o runs) = n + m
        /\ \A i \in 1 .. n + m : (polled \o runs)[i] = IF i <= n THEN polled[i] ELSE runs[i - n]
    BY <1>3, <1>4, ConcatProperties
  <2>2. QED
    BY <1>1, <1>3, <2>1, LenProperties
<1>10. ToSet(polled) \subseteq ToSet(polled') /\ ToSet(runs) \subseteq ToSet(polled')
  BY <1>1, <1>3, <1>4, ToSetOfConcat
<1>11. a .. recorded \subseteq ToSet(polled')
  <2>1. SUFFICES ASSUME NEW x \in a .. recorded PROVE x \in ToSet(runs)
    BY <1>10
  <2>2. x - a + 1 \in 1 .. m /\ a + (x - a + 1) - 1 = x
    BY <1>3, <1>8
  <2>3. runs[x - a + 1] = x
    BY <1>8, <2>2
  <2>4. QED
    BY <1>7, <2>2, <2>3 DEF ToSet
<1>12. from' = recorded + 1 /\ polled'[Len(polled')] = recorded /\ polled' # <<>>
  <2>1. m \in 1 .. m /\ n + m \in 1 .. n + m /\ ~(n + m <= n) /\ (n + m) - n = m
    BY <1>3, <1>7
  <2>2. runs[m] = recorded
    BY <1>3, <1>8, <2>1
  <2>3. Last(runs) = recorded
    BY <2>2 DEF Last
  <2>4. polled'[n + m] = recorded
    BY <1>9, <2>1, <2>2
  <2>5. polled' # <<>>
    BY <1>3, <1>7, <1>9
  <2>6. QED
    BY <1>1, <1>9, <2>3, <2>4, <2>5
<1>. HIDE DEF n, m
<1>13. ASSUME NEW i \in 1 .. n + m PROVE InOrder(polled', Full(limit), i)
  <2>1. CASE i <= n
    <3>1. i \in 1 .. n /\ (i # 1 => i - 1 \in 1 .. n + m /\ i - 1 <= n)
      BY <1>3, <1>7, <2>1
    <3>2. polled'[i] = polled[i] /\ (i # 1 => polled'[i - 1] = polled[i - 1])
      BY <1>9, <2>1, <3>1
    <3>3. InOrder(polled, Full(limit), i)
      BY <1>2, <1>5, <1>9, <3>1
    <3>4. QED
      BY <1>10, <3>2, <3>3 DEF InOrder
  <2>2. CASE i = n + 1
    <3>1. 1 \in 1 .. m /\ i - n = 1 /\ ~(i <= n)
      BY <1>3, <1>7, <2>2
    <3>2. runs[1] = a
      BY <1>8, <3>1
    <3>3. polled'[i] = a
      BY <1>9, <3>1, <3>2
    <3>. DEFINE before == IF i = 1 THEN 0 ELSE polled'[i - 1]
    <3>4. before \in Nat /\ (from = before + 1 \/ (from = 0 /\ before = 0))
      <4>1. CASE polled = <<>>
        <5>1. n = 0 /\ from = 0
          BY <1>2, <4>1 DEF FromInv, n
        <5>2. QED
          BY <2>2, <5>1
      <4>2. CASE polled # <<>>
        <5>1. n \in Nat \ {0} /\ from = polled[n] + 1
          BY <1>2, <1>3, <4>2, EmptySeq DEF FromInv, n
        <5>2. i # 1 /\ i - 1 = n /\ n \in 1 .. n /\ n \in 1 .. n + m /\ n <= n
          BY <1>7, <2>2, <5>1
        <5>3. polled'[n] = polled[n] /\ polled[n] \in Nat
          BY <1>3, <1>9, <5>2 DEF n
        <5>4. QED
          BY <5>1, <5>2, <5>3
      <4>3. QED
        BY <4>1, <4>2
    <3>. HIDE DEF before
    <3>5. a > before
      BY <1>3, <1>8, <3>4
    <3>6. CASE a = from \/ a = 1
      <4>1. a = before + 1
        BY <1>3, <1>8, <3>4, <3>5, <3>6
      <4>2. QED
        BY <3>3, <4>1 DEF InOrder, before
    <3>7. CASE recorded - a + 1 >= Full(limit)
      <4>1. Full(limit) \in Int
        BY <1>3 DEF Full
      <4>2. a .. a + Full(limit) - 1 \subseteq a .. recorded
        BY <1>3, <1>8, <3>7, <4>1
      <4>3. a .. a + Full(limit) - 1 \subseteq ToSet(polled')
        BY <1>11, <4>2
      <4>4. QED
        BY <3>3, <3>5, <4>3 DEF InOrder, before
    <3>8. QED
      BY <1>8, <3>6, <3>7
  <2>3. CASE i > n + 1
    <3>1. /\ i - n \in 1 .. m /\ (i - 1) - n \in 1 .. m /\ i - 1 \in 1 .. n + m
          /\ ~(i <= n) /\ ~(i - 1 <= n) /\ i # 1
      BY <1>3, <1>7, <2>3
    <3>2. polled'[i] = a + (i - n) - 1 /\ polled'[i - 1] = a + ((i - 1) - n) - 1
      BY <1>8, <1>9, <3>1
    <3>3. polled'[i] = polled'[i - 1] + 1
      BY <1>3, <3>1, <3>2
    <3>4. QED
      BY <3>1, <3>3 DEF InOrder
  <2>4. QED
    BY <1>3, <1>7, <2>1, <2>2, <2>3
<1>14. PollsInOrder'
  BY <1>1, <1>6, <1>9, <1>13
<1>15. QueriesType'
  BY <1>1, <1>2, <1>3, <1>9, <1>12 DEF QueriesType
<1>16. FromInv'
  BY <1>1, <1>12 DEF FromInv
<1>17. HistoryInv' /\ PageInv' /\ PagingComplete'
  BY <1>1, <1>2 DEF HistoryInv, PageInv, Rank, PagingComplete
<1>18. QED
  BY <1>14, <1>15, <1>16, <1>17 DEF QInv

\* Every step keeps the inductive invariant.
LEMMA QueriesInductive == QInv /\ [QueriesNext]_queriesVars => QInv'
<1>1. SUFFICES ASSUME QInv, [QueriesNext]_queriesVars PROVE QInv'
  OBVIOUS
<1>2. CASE UNCHANGED queriesVars
  BY <1>1, <1>2 DEF queriesVars, pageVars, pollVars, QInv, QueriesType, HistoryInv, PageInv, Rank,
                   FromInv, PagingComplete, PollsInOrder
<1>3. QED
  BY <1>1, <1>2, StartStep, PageStep, ChangeStep, PollStep, RecordStep DEF QueriesNext

\* The inductive invariant of the queries.
LEMMA QueriesInvariant == QueriesSpec => []QInv
BY QueriesInitial, QueriesInductive, PTL DEF QueriesSpec

--------------------------------------------------------------------------------
(***************************************************************************)
(* The theorems                                                            *)
(***************************************************************************)
\* A client of QueryJobStatuses that goes on at the offset it reached finds every job
\* that was known when it began, whatever its limit and however many jobs are added
\* before it meanwhile; a page that overflows panics, and never ends the paging early.
THEOREM PagingFindsAll == QueriesSpec => []PagingComplete
<1>1. QInv => PagingComplete
  BY DEF QInv
<1>2. QED
  BY <1>1, QueriesInvariant, PTL

\* A client of QueryJobHistory that asks from the last sequence on gets the runs in order
\* and each at most once, and misses runs only in front of a poll that was full.
THEOREM PollingInOrder == QueriesSpec => []PollsInOrder
<1>1. QInv => PollsInOrder
  BY DEF QInv
<1>2. QED
  BY <1>1, QueriesInvariant, PTL

\* The page, as the sequence that Sorted gives.
LEMMA StatusesSorted ==
    ASSUME NEW ids, NEW states, NEW off \in MinInt .. MaxInt, NEW lim \in MinInt .. MaxInt,
           off + lim <= MaxInt, NEW F, Orders(Matching(ids, states), F)
    PROVE  /\ ~QueryPanics(ids, states, off, lim)
           /\ QueryJobStatuses(ids, states, off, lim) = Sorted(PageOf(F, off, lim))
<1>1. /\ ~QueryPanics(ids, states, off, lim)
      /\ Orders(QueryJobStatuses(ids, states, off, lim), PageOf(F, off, lim))
  BY StatusesExact
<1>2. QED
  BY ONLY <1>1, SortedIs, Zenon

\* The history, as the sequence that Sorted gives.
LEMMA HistorySorted ==
    ASSUME HistoryInv, QueriesType, NEW seq \in Int, NEW lim \in Int
    PROVE  QueryJobHistory(history, seq, lim) = Sorted(NewestOf(ToSet(history), seq, lim))
<1>1. Orders(history, ToSet(history))
  BY HistoryOrdered
<1>2. Orders(QueryJobHistory(history, seq, lim), NewestOf(ToSet(history), seq, lim))
  BY <1>1, HistoryExact, Zenon DEF NewestOf
<1>3. QED
  BY ONLY <1>2, SortedIs, Zenon

\* QueryJobStatuses and QueryJobHistory return what their reference definitions say, for
\* every filter, offset and limit whose sum does not overflow.
THEOREM QueriesAreExact == QueriesSpec => []QueriesExact
<1>1. ASSUME QInv PROVE QueriesExact
  <2>1. QueriesType /\ HistoryInv
    BY <1>1 DEF QInv
  <2>2. MinInt \in Int /\ MaxInt \in Int /\ \A l \in Limits : l \in MinInt .. MaxInt /\ l \in Int
    BY MaxIntAssumption, QueriesAssumption DEF MinInt
  <2>3. ASSUME NEW ids \in SUBSET Ids, NEW states \in SUBSET States, NEW off \in Limits,
               NEW lim \in Limits, off + lim <= MaxInt
        PROVE  /\ ~QueryPanics(ids, states, off, lim)
               /\ QueryJobStatuses(ids, states, off, lim) =
                     Sorted(PageOf({i \in DOMAIN state : Wanted(i, ids, states)}, off, lim))
    <3>1. Orders(Matching(ids, states), {i \in DOMAIN state : Wanted(i, ids, states)})
      BY <2>1, MatchingOrders, Zenon
    <3>2. off \in MinInt .. MaxInt /\ lim \in MinInt .. MaxInt
      BY <2>2
    <3>. DEFINE F == {i \in DOMAIN state : Wanted(i, ids, states)}
    <3>3. Orders(Matching(ids, states), F)
      BY <3>1
    <3>. HIDE DEF F
    <3>4. /\ ~QueryPanics(ids, states, off, lim)
          /\ QueryJobStatuses(ids, states, off, lim) = Sorted(PageOf(F, off, lim))
      BY <2>3, <3>2, <3>3, StatusesSorted
    <3>5. QED
      BY <3>4 DEF F
  <2>4. ASSUME NEW seq \in Limits, NEW lim \in Limits
        PROVE  QueryJobHistory(history, seq, lim) = Sorted(NewestOf(ToSet(history), seq, lim))
    BY <2>1, <2>2, HistorySorted, Zenon
  <2>5. QED
    BY <2>3, <2>4, Zenon DEF QueriesExact, PageOf, NewestOf
<1>2. QED
  BY <1>1, QueriesInvariant, PTL
================================================================================
