----------------------------- MODULE DataInduction -----------------------------
(***************************************************************************)
(* Induction over the natural numbers, with a set in place of a predicate: *)
(* to show P(n) for every n, take the set of the numbers that satisfy P.   *)
(* The other proofs use it for what recursive definitions compute.         *)
(***************************************************************************)
EXTENDS Integers, FiniteSetsExt, WellFoundedInduction, TLAPS

\* A set of natural numbers has a least element, unless it is empty.
LEMMA LeastNatural ==
    ASSUME NEW S \in SUBSET Nat, S # {}
    PROVE  \E m \in S : \A k \in S : m <= k
<1>1. IsWellFoundedOn(OpToRel(<, Nat), Nat)
  BY NatLessThanWellFounded, Zenon
<1>2. PICK m \in S : \A k \in S : ~(<<k, m>> \in OpToRel(<, Nat))
  BY <1>1, WFMin, Zenon
<1>3. \A k \in S : ~(k < m)
  BY <1>2 DEF OpToRel
<1>4. QED
  BY <1>3

\* A set with 0, and with the successor of each of its numbers, has all of them.
LEMMA NaturalsInSet ==
    ASSUME NEW T, 0 \in T, \A n \in Nat : n \in T => n + 1 \in T
    PROVE  \A n \in Nat : n \in T
<1>1. SUFFICES ASSUME Nat \ T # {} PROVE FALSE
  OBVIOUS
<1>2. PICK m \in Nat \ T : \A k \in Nat \ T : m <= k
  BY <1>1, LeastNatural
<1>3. m # 0 /\ m - 1 \in Nat /\ m - 1 \in T
  BY <1>2
<1>4. (m - 1) + 1 = m
  BY <1>2
<1>5. QED
  BY <1>2, <1>3, <1>4

\* A set of numbers up to n has a greatest element, and Max gives it.
LEMMA MaxOfBounded ==
    ASSUME NEW n \in Nat, NEW S \in SUBSET (1 .. n), S # {}
    PROVE  Max(S) \in S /\ \A i \in S : i <= Max(S)
<1>1. DEFINE D == {n - i : i \in S}
<1>2. D \in SUBSET Nat /\ D # {}
  <2>1. \A i \in S : i \in 1 .. n
    OBVIOUS
  <2>2. \A i \in S : n - i \in Nat
    BY <2>1
  <2>3. QED
    BY <2>2
<1>3. PICK d \in D : \A k \in D : d <= k
  BY <1>2, LeastNatural
<1>4. PICK m \in S : d = n - m
  OBVIOUS
<1>5. \A i \in S : m >= i
  <2>1. SUFFICES ASSUME NEW i \in S PROVE m >= i
    OBVIOUS
  <2>2. n - i \in D
    OBVIOUS
  <2>3. n - m <= n - i
    BY <1>3, <1>4, <2>2
  <2>4. QED
    BY <2>3
<1>6. \E x \in S : \A y \in S : x >= y
  BY <1>5
<1>7. Max(S) \in S /\ \A y \in S : Max(S) >= y
  BY <1>6, Zenon DEF Max
<1>8. QED
  BY <1>7

\* Max of a set that has its upper bound.
LEMMA MaxIsBound ==
    ASSUME NEW n \in Nat, NEW S \in SUBSET (1 .. n), n \in S
    PROVE  Max(S) = n
<1>1. Max(S) \in S /\ \A i \in S : i <= Max(S)
  BY MaxOfBounded
<1>2. \A i \in S : i \in Nat /\ i <= n
  OBVIOUS
<1>3. Max(S) \in Nat /\ Max(S) <= n /\ n <= Max(S)
  BY <1>1, <1>2
<1>4. QED
  BY <1>3
================================================================================
