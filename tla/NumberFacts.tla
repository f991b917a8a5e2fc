----------------------------- MODULE NumberFacts -----------------------------
(***************************************************************************)
(* Facts about integers that the proofs about several components need:     *)
(* least and greatest elements, which stand for induction, and division    *)
(* by a number that is not fixed.                                          *)
(***************************************************************************)
EXTENDS Integers, TLAPS, WellFoundedInduction

\* A set of natural numbers that is not empty has a least element.  To prove
\* something by induction, take the least number for which it fails.
LEMMA LeastElement ==
  ASSUME NEW S \in SUBSET Nat, S # {}
  PROVE  \E n \in S : \A m \in S : n <= m
<1> DEFINE R == {ss \in Nat \X Nat : ss[1] < ss[2]}
<1>1. IsWellFoundedOn(R, Nat)
  BY NatLessThanWellFounded DEF OpToRel
<1> HIDE DEF R
<1>2. PICK n \in S : \A m \in S : ~ (<<m, n>> \in R)
  BY <1>1, WFMin
<1>3. \A m \in S : ~(m < n)
  BY <1>2 DEF R
<1> QED BY <1>3

\* And a greatest one, if it is bounded.
LEMMA GreatestElement ==
  ASSUME NEW b \in Nat, NEW S \in SUBSET (0 .. b), S # {}
  PROVE  \E n \in S : \A m \in S : m <= n
<1> DEFINE T == {k \in Nat : \A m \in S : m <= k}
<1>1. b \in T
  OBVIOUS
<1>2. T \in SUBSET Nat /\ T # {}
  BY <1>1
<1>3. PICK n \in T : \A m \in T : n <= m
  <2> HIDE DEF T
  <2> QED BY <1>2, LeastElement
<1>4. n \in Nat /\ \A m \in S : m <= n
  BY <1>3
<1>5. n \in S
  <2> SUFFICES ASSUME n \notin S PROVE FALSE
    OBVIOUS
  <2>1. PICK m \in S : m \in 0 .. b
    OBVIOUS
  <2>2. n # 0 /\ \A k \in S : k <= n - 1
    BY <1>4
  <2>3. n - 1 \in T
    BY <1>4, <2>2
  <2> QED BY <1>3, <1>4, <2>3
<1> QED BY <1>4, <1>5

\* A number is its quotient times the divisor and the remainder.
LEMMA DivMod ==
  ASSUME NEW d \in Nat \ {0}, NEW n \in Int
  PROVE  /\ n \div d \in Int
         /\ n % d \in 0 .. d - 1
         /\ n = d * (n \div d) + (n % d)
BY SMT

\* Division keeps the order.
LEMMA DivMonotonic ==
  ASSUME NEW d \in Nat \ {0}, NEW m \in Int, NEW n \in Int, m <= n
  PROVE  m \div d <= n \div d
<1> DEFINE a == m \div d
           b == n \div d
<1>1. a \in Int /\ m % d \in 0 .. d - 1 /\ m = d * a + (m % d)
  BY DivMod
<1>2. b \in Int /\ n % d \in 0 .. d - 1 /\ n = d * b + (n % d)
  BY DivMod
<1> HIDE DEF a, b
<1>3. SUFFICES ASSUME b + 1 <= a PROVE FALSE
  BY <1>1, <1>2 DEF a, b
<1>4. d * (b + 1) <= d * a
  BY <1>1, <1>2, <1>3, SMT
<1> QED BY <1>1, <1>2, <1>4, SMT

\* The remainder of a number that is less than one divisor out of range.
LEMMA ModNear ==
  ASSUME NEW d \in Nat \ {0}, NEW n \in Int, 0 - d <= n, n < 2 * d
  PROVE  n % d = IF n < 0 THEN n + d ELSE IF n < d THEN n ELSE n - d
<1>1. CASE n < 0
  BY <1>1, SMT
<1>2. CASE n >= 0 /\ n < d
  BY <1>2, SMT
<1>3. CASE n >= d
  BY <1>3, SMT
<1> QED BY <1>1, <1>2, <1>3
=============================================================================
