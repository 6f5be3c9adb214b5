----------------------------- MODULE Arithmetic -----------------------------
(* What the proofs need of the natural numbers: induction over a set, and  *)
(* quotients and remainders.                                               *)
EXTENDS Integers, FiniteSetTheorems, TLAPS

(* A set of naturals that is not empty has a least element: of the         *)
(* intervals below its elements, which are finite, one is minimal.         *)
LEMMA Least ==
  ASSUME NEW S \in SUBSET Nat, S # {}
  PROVE  \E m \in S : \A n \in S : m <= n
<1> DEFINE T == {0..(n - 1) : n \in S}
<1>1. T \subseteq FiniteSubsetsOf(Nat) /\ T # {}
  <2>1. ASSUME NEW n \in S PROVE 0..(n - 1) \in FiniteSubsetsOf(Nat)
    BY FS_Interval DEF FiniteSubsetsOf
  <2> QED
    BY <2>1
<1>2. IsWellFoundedOn(StrictSubsetOrdering(Nat), FiniteSubsetsOf(Nat))
  BY FS_StrictSubsetOrderingWellFounded
<1>3. PICK x \in T : \A y \in T : <<y, x>> \notin StrictSubsetOrdering(Nat)
  <2> HIDE DEF T
  <2> QED
    BY <1>1, <1>2, WFMin
<1>4. PICK m \in S : x = 0..(m - 1)
  OBVIOUS
<1>5. ASSUME NEW n \in S, n < m PROVE FALSE
  <2>1. /\ 0..(n - 1) \subseteq 0..(m - 1) /\ n \in 0..(m - 1) /\ n \notin 0..(n - 1)
        /\ 0..(n - 1) \in SUBSET Nat /\ 0..(m - 1) \in SUBSET Nat
    BY <1>5
  <2>2. <<0..(n - 1), 0..(m - 1)>> \in StrictSubsetOrdering(Nat)
    BY <2>1 DEF StrictSubsetOrdering
  <2> QED
    BY <2>2, <1>3, <1>4
<1> QED
  BY <1>4, <1>5

(* Induction up to N, over the set of the numbers for which it holds.      *)
LEMMA Induction ==
  ASSUME NEW N \in Nat, NEW S, 0 \in S, \A n \in 0..(N - 1) : n \in S => n + 1 \in S
  PROVE  0..N \subseteq S
<1> SUFFICES ASSUME NEW k \in 0..N, k \notin S PROVE FALSE
  OBVIOUS
<1> DEFINE T == {n \in 0..N : n \notin S}
<1>1. PICK m \in T : \A n \in T : m <= n
  <2>1. T \in SUBSET Nat /\ T # {}
    OBVIOUS
  <2> HIDE DEF T
  <2> QED
    BY <2>1, Least
<1>2. m # 0 /\ m - 1 \in 0..(N - 1)
  BY <1>1
<1>3. m - 1 \in S
  BY <1>1, <1>2
<1> QED
  BY <1>1, <1>2, <1>3

----------------------------------------------------------------------------
LEMMA Monotone ==
  ASSUME NEW a \in Int, NEW b \in Int, NEW k \in Nat, a <= b
  PROVE  a * k <= b * k
  OBVIOUS

LEMMA Divided ==
  ASSUME NEW a \in Nat, NEW k \in Nat \ {0}
  PROVE  a \div k \in Nat /\ a % k \in 0..(k - 1) /\ a = (a \div k) * k + (a % k)
  OBVIOUS

(* Quotient and remainder are the only ones.                               *)
LEMMA Unique ==
  ASSUME NEW k \in Nat \ {0}, NEW q \in Int, NEW p \in Int,
         NEW r \in 0..(k - 1), NEW s \in 0..(k - 1), q * k + r = p * k + s
  PROVE  q = p /\ r = s
<1>1. ASSUME NEW a \in Int, NEW b \in Int, a < b PROVE a * k + k <= b * k
  <2>1. (a + 1) * k <= b * k
    BY <1>1, Monotone
  <2> QED
    BY <2>1
<1>2. q * k \in Int /\ p * k \in Int
  OBVIOUS
<1>3. ~(q < p)
  <2> SUFFICES ASSUME q < p PROVE FALSE
    OBVIOUS
  <2>1. q * k + k <= p * k
    BY <1>1
  <2> QED
    BY <1>2, <2>1
<1>4. ~(p < q)
  <2> SUFFICES ASSUME p < q PROVE FALSE
    OBVIOUS
  <2>1. p * k + k <= q * k
    BY <1>1
  <2> QED
    BY <1>2, <2>1
<1>5. q = p
  BY <1>3, <1>4
<1> QED
  BY <1>2, <1>5

LEMMA Quotient ==
  ASSUME NEW k \in Nat \ {0}, NEW q \in Nat, NEW r \in 0..(k - 1)
  PROVE  q * k + r \in Nat /\ (q * k + r) \div k = q /\ (q * k + r) % k = r
<1>1. q * k \in Nat
  OBVIOUS
<1> DEFINE a == q * k + r
<1>2. a \in Nat
  BY <1>1
<1>3. a \div k \in Nat /\ a % k \in 0..(k - 1) /\ (a \div k) * k + (a % k) = q * k + r
  BY <1>2, Divided
<1> HIDE DEF a
<1>4. a \div k = q /\ a % k = r
  BY <1>3, Unique
<1> QED
  BY <1>2, <1>4 DEF a

LEMMA Small ==
  ASSUME NEW k \in Nat \ {0}, NEW r \in 0..(k - 1)
  PROVE  r \div k = 0 /\ r % k = r
<1>1. 0 * k + r = r
  OBVIOUS
<1>2. (0 * k + r) \div k = 0 /\ (0 * k + r) % k = r
  BY Quotient
<1> QED
  BY <1>1, <1>2

(* One more, and whole multiples more.                                     *)
LEMMA OneMore ==
  ASSUME NEW a \in Nat, NEW k \in Nat \ {0}
  PROVE  /\ a % k = k - 1 => (a + 1) % k = 0 /\ (a + 1) \div k = a \div k + 1
         /\ a % k # k - 1 => (a + 1) % k = (a % k) + 1 /\ (a + 1) \div k = a \div k
<1> DEFINE q == a \div k
           r == a % k
<1>1. q \in Nat /\ r \in 0..(k - 1) /\ a = q * k + r
  BY Divided
<1> HIDE DEF q, r
<1>2. CASE r = k - 1
  <2>1. a + 1 = (q + 1) * k + 0
    BY <1>1, <1>2
  <2>2. (a + 1) \div k = q + 1 /\ (a + 1) % k = 0
    BY <1>1, <2>1, Quotient
  <2> QED
    BY <1>2, <2>2, <1>1 DEF q, r
<1>3. CASE r # k - 1
  <2>1. a + 1 = q * k + (r + 1) /\ r + 1 \in 0..(k - 1)
    BY <1>1, <1>3
  <2>2. (a + 1) \div k = q /\ (a + 1) % k = r + 1
    BY <1>1, <2>1, Quotient
  <2> QED
    BY <1>3, <2>2, <1>1 DEF q, r
<1> QED
  BY <1>2, <1>3

LEMMA WholeMore ==
  ASSUME NEW a \in Nat, NEW n \in Nat, NEW k \in Nat \ {0}
  PROVE  /\ n * k \in Nat
         /\ (n * k + a) % k = a % k /\ (n * k + a) \div k = n + (a \div k)
<1> DEFINE q == a \div k
           r == a % k
<1>1. q \in Nat /\ r \in 0..(k - 1) /\ a = q * k + r
  BY Divided
<1> HIDE DEF q, r
<1>2. n * k \in Nat /\ n * k + a = (n + q) * k + r
  BY <1>1
<1>3. (n * k + a) \div k = n + q /\ (n * k + a) % k = r
  BY <1>1, <1>2, Quotient
<1> QED
  BY <1>2, <1>3 DEF q, r

(* Counting modulo k.                                                      *)
LEMMA Modulo ==
  ASSUME NEW a \in Nat, NEW b \in Nat, NEW k \in Nat \ {0}
  PROVE  ((a % k) + b) % k = (a + b) % k
<1> DEFINE q == a \div k
           r == a % k
<1>1. q \in Nat /\ r \in 0..(k - 1) /\ a = q * k + r
  BY Divided
<1> HIDE DEF q, r
<1>2. a + b = q * k + (r + b) /\ r + b \in Nat
  BY <1>1
<1>3. (q * k + (r + b)) % k = (r + b) % k
  BY <1>1, <1>2, WholeMore
<1> QED
  BY <1>2, <1>3 DEF r
=============================================================================
