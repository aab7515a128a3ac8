------------------------------ MODULE NumberLemmas ------------------------------
(* Facts about numbers that proofs of several components use.              *)
EXTENDS Integers, FiniteSets, FiniteSetsExt, FiniteSetTheorems, WellFoundedInduction, TLAPS

(* Division.                                                               *)
LEMMA DivMod ==
  ASSUME NEW t \in Nat, NEW n \in Nat \ {0}
  PROVE  \E q \in Nat, r \in 0 .. n - 1 : q = t \div n /\ r = t % n /\ q * n + r = t
  <1>1. t \div n \in Nat
    OBVIOUS
  <1>2. t % n \in 0 .. n - 1
    OBVIOUS
  <1>3. t % n = t - n * (t \div n)
    OBVIOUS
  <1>4. PICK q \in Nat, r \in 0 .. n - 1 : q = t \div n /\ r = t % n
    BY <1>1, <1>2
  <1>5. r = t - n * q
    BY <1>3, <1>4
  <1>6. q * n + r = t
    BY <1>5
  <1> QED
    BY <1>4, <1>6

LEMMA DivUnique ==
  ASSUME NEW n \in Nat \ {0}, NEW q \in Nat, NEW r \in 0 .. n - 1
  PROVE  (q * n + r) \div n = q /\ (q * n + r) % n = r
  OBVIOUS

LEMMA DivMonotone ==
  ASSUME NEW n \in Nat \ {0}, NEW a \in Nat, NEW b \in Nat, a <= b
  PROVE  a \div n <= b \div n
  OBVIOUS

(* The least and the greatest number of a set.                             *)
LEMMA LeastOf ==
  ASSUME NEW S \in SUBSET Nat, S # {}
  PROVE  \E x \in S : \A y \in S : x <= y
  <1> DEFINE R == {ss \in Nat \X Nat : ss[1] < ss[2]}
  <1>1. IsWellFoundedOn(R, Nat)
    BY NatLessThanWellFounded, Zenon DEF OpToRel
  <1> HIDE DEF R
  <1>2. PICK x \in S : \A y \in S : ~(<<y, x>> \in R)
    BY <1>1, WFMin
  <1>3. ASSUME NEW y \in S PROVE x <= y
    <2>1. x \in Nat /\ y \in Nat
      OBVIOUS
    <2>2. y < x => <<y, x>> \in R
      BY <2>1, Zenon DEF R
    <2> QED
      BY <1>2, <2>1, <2>2
  <1> QED
    BY <1>3

LEMMA MinIn ==
  ASSUME NEW S \in SUBSET Nat, S # {}
  PROVE  Min(S) \in S /\ \A x \in S : Min(S) <= x
  BY LeastOf DEF Min

LEMMA MaxIn ==
  ASSUME NEW n \in Nat, NEW S \in SUBSET (0 .. n), S # {}
  PROVE  Max(S) \in S /\ \A x \in S : x <= Max(S)
  <1> DEFINE D == {n - x : x \in S}
  <1>1. D \in SUBSET Nat
    OBVIOUS
  <1>2. D # {}
    OBVIOUS
  <1>3. PICK d \in D : \A y \in D : d <= y
    BY <1>1, <1>2, LeastOf
  <1>4. PICK x \in S : d = n - x
    OBVIOUS
  <1>5. ASSUME NEW y \in S PROVE x >= y
    <2>1. n - y \in D
      OBVIOUS
    <2>2. n - x <= n - y
      BY <1>3, <1>4, <2>1
    <2>3. x \in Int /\ y \in Int
      OBVIOUS
    <2> QED
      BY <2>2, <2>3
  <1> HIDE DEF D
  <1>6. \E m \in S : \A y \in S : m >= y
    BY <1>5
  <1>7. Max(S) \in S /\ \A y \in S : Max(S) >= y
    BY <1>6, Zenon DEF Max
  <1> QED
    BY <1>7
-----------------------------------------------------------------------------
(* Powers of two count the subsets of a set.                               *)
LEMMA PowCounts ==
  ASSUME NEW n \in Nat
  PROVE  IsFiniteSet(SUBSET (1 .. n)) /\ Cardinality(SUBSET (1 .. n)) = 2^n
  <1>1. IsFiniteSet(1 .. n) /\ Cardinality(1 .. n) = n
    BY FS_Interval
  <1> QED
    BY <1>1, FS_SUBSET

LEMMA PowDouble ==
  ASSUME NEW n \in Nat
  PROVE  2^n \in Nat /\ 2^(n + 1) = 2 * 2^n
  <1> DEFINE A == SUBSET (1 .. n)
             B == {X \cup {n + 1} : X \in A}
             f == [X \in A |-> X \cup {n + 1}]
  <1>1. IsFiniteSet(A) /\ Cardinality(A) = 2^n /\ 2^n \in Nat
    BY PowCounts, FS_CardinalityType
  <1>2. n + 1 \in Nat /\ Cardinality(SUBSET (1 .. n + 1)) = 2^(n + 1)
    BY PowCounts
  <1>3. SUBSET (1 .. n + 1) = A \cup B
    <2>1. ASSUME NEW X \in SUBSET (1 .. n + 1) PROVE X \in A \cup B
      <3>1. CASE n + 1 \in X
        <4>1. X \ {n + 1} \in A
          OBVIOUS
        <4>2. X = (X \ {n + 1}) \cup {n + 1}
          BY <3>1
        <4> QED
          BY <4>1, <4>2
      <3>2. CASE n + 1 \notin X
        BY <3>2
      <3> QED
        BY <3>1, <3>2
    <2>2. ASSUME NEW X \in A \cup B PROVE X \in SUBSET (1 .. n + 1)
      OBVIOUS
    <2> QED
      BY <2>1, <2>2
  <1>4. A \cap B = {}
    OBVIOUS
  <1>5. IsFiniteSet(B) /\ Cardinality(B) = Cardinality(A)
    <2>1. f \in [A -> B] /\ \A Y \in B : \E X \in A : f[X] = Y
      OBVIOUS
    <2>2. \A X, Y \in A : f[X] = f[Y] => X = Y
      OBVIOUS
    <2>3. ExistsBijection(A, B)
      BY <2>1, <2>2 DEF ExistsBijection, Bijection, Injection, Surjection, IsInjective
    <2> QED
      BY <1>1, <2>3, FS_Bijection
  <1> HIDE DEF A, B
  <1>6. Cardinality(A \cup B) = 2^n + 2^n - 0
    BY <1>1, <1>4, <1>5, FS_Union, FS_EmptySet
  <1>7. 2^(n + 1) = 2^n + 2^n - 0
    BY <1>2, <1>3, <1>6
  <1>8. PICK p \in Nat : p = 2^n
    BY <1>1
  <1>9. p + p - 0 = 2 * p
    OBVIOUS
  <1> QED
    BY <1>7, <1>8, <1>9

(* The powers of two: positive, increasing, and multiples of each other.   *)
LEMMA PowAdd ==
  ASSUME NEW m \in Nat, NEW n \in Nat
  PROVE  2^(m + n) = 2^m * 2^n
  <1> DEFINE S == {k \in Nat : 2^(m + k) # 2^m * 2^k}
  <1>1. S \in SUBSET Nat
    OBVIOUS
  <1>2. SUFFICES ASSUME S # {} PROVE FALSE
    OBVIOUS
  <1>3. PICK x \in S : \A y \in S : x <= y
    BY <1>1, <1>2, LeastOf
  <1>4. 2^0 = 1 /\ 2^m \in Nat
    BY PowDouble
  <1>5. x # 0
    <2>1. PICK a \in Nat : a = 2^m
      BY <1>4
    <2>2. a = a * 1
      OBVIOUS
    <2>3. m + 0 = m
      OBVIOUS
    <2>4. 2^(m + 0) = 2^m * 2^0
      BY <1>4, <2>1, <2>2, <2>3
    <2> QED
      BY <2>4
  <1>6. PICK y \in Nat : x = y + 1
    BY <1>5
  <1>7. 2^(m + y) = 2^m * 2^y
    BY <1>3, <1>6
  <1>8. 2^x = 2 * 2^y /\ 2^(m + x) = 2 * 2^(m + y)
    <2>1. m + x = (m + y) + 1 /\ m + y \in Nat
      BY <1>6
    <2> QED
      BY <1>6, <2>1, PowDouble
  <1>9. PICK a \in Nat, b \in Nat, c \in Nat : a = 2^m /\ b = 2^y /\ c = 2^(m + y)
    BY PowDouble
  <1>10. 2 * (a * b) = a * (2 * b)
    OBVIOUS
  <1>11. 2^(m + x) = 2^m * 2^x
    BY <1>7, <1>8, <1>9, <1>10
  <1> QED
    BY <1>11

LEMMA PowPositive ==
  ASSUME NEW n \in Nat
  PROVE  2^n \in Nat \ {0} /\ (n > 0 => 2^n > 1)
  <1>1. ASSUME NEW k \in Nat PROVE 2^k \in Nat \ {0}
    <2>1. {} \in SUBSET (1 .. k)
      OBVIOUS
    <2>2. SUBSET (1 .. k) # {}
      BY <2>1
    <2>3. IsFiniteSet(SUBSET (1 .. k)) /\ Cardinality(SUBSET (1 .. k)) = 2^k
      BY PowCounts
    <2>4. 2^k \in Nat
      BY PowDouble
    <2> QED
      BY <2>2, <2>3, <2>4, FS_EmptySet
  <1>2. ASSUME n > 0 PROVE 2^n > 1
    <2>1. PICK k \in Nat : n = k + 1
      BY <1>2
    <2>2. PICK p \in Nat \ {0} : p = 2^k
      BY <1>1
    <2>3. 2^n = 2 * p
      BY <2>1, <2>2, PowDouble
    <2> QED
      BY <2>3
  <1> QED
    BY <1>1, <1>2

LEMMA PowDivides ==
  ASSUME NEW m \in Nat, NEW n \in Nat, m <= n
  PROVE  \E q \in Nat \ {0} : 2^n = q * 2^m
  <1>1. PICK k \in Nat : n = m + k
    BY m <= n
  <1>2. 2^n = 2^m * 2^k
    BY <1>1, PowAdd
  <1>3. PICK a \in Nat \ {0}, b \in Nat \ {0} : a = 2^m /\ b = 2^k
    BY PowPositive
  <1>4. a * b = b * a
    OBVIOUS
  <1>5. 2^n = b * 2^m
    BY <1>2, <1>3, <1>4
  <1> QED
    BY <1>5

LEMMA PowMonotone ==
  ASSUME NEW m \in Nat, NEW n \in Nat, m <= n
  PROVE  2^m <= 2^n
  <1>1. PICK q \in Nat \ {0} : 2^n = q * 2^m
    BY PowDivides
  <1>2. PICK p \in Nat \ {0} : p = 2^m
    BY PowPositive
  <1>3. q * p >= p
    OBVIOUS
  <1> QED
    BY <1>1, <1>2, <1>3

(* An aligned block ends inside of a larger space.                         *)
LEMMA BlockFits ==
  ASSUME NEW m \in Nat, NEW n \in Nat, m <= n, NEW x \in 0 .. 2^n - 1, x % 2^m = 0
  PROVE  x + 2^m <= 2^n
  <1>1. PICK q \in Nat \ {0} : 2^n = q * 2^m
    BY PowDivides
  <1>2. PICK p \in Nat \ {0} : p = 2^m
    BY PowPositive
  <1>3. x \in Nat /\ x < q * p /\ x % p = 0
    <2>1. PICK s \in Nat : s = q * p
      OBVIOUS
    <2>2. s = 2^n
      BY <1>1, <1>2, <2>1
    <2>3. x \in 0 .. s - 1
      BY <2>2
    <2>4. x % p = 0
      BY <1>2
    <2> QED
      BY <2>1, <2>3, <2>4
  <1>4. PICK k \in Nat : k = x \div p
    BY <1>2, <1>3
  <1>5. x = k * p
    <2>1. PICK a \in Nat, r \in 0 .. p - 1 : a = x \div p /\ r = x % p /\ a * p + r = x
      BY <1>3, DivMod
    <2> QED
      BY <1>3, <1>4, <2>1
  <1>6. k + 1 <= q
    <2> SUFFICES ASSUME k >= q PROVE FALSE
      OBVIOUS
    <2>1. k * p >= q * p
      OBVIOUS
    <2>2. PICK u \in Nat, v \in Nat : u = k * p /\ v = q * p
      OBVIOUS
    <2> QED
      BY <1>3, <1>5, <2>1, <2>2
  <1>7. (k + 1) * p <= q * p
    BY <1>6
  <1>8. (k + 1) * p = k * p + p
    OBVIOUS
  <1>9. x + p <= q * p
    BY <1>5, <1>7, <1>8
  <1> QED
    BY <1>1, <1>2, <1>9
=============================================================================
