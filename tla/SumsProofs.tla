----------------------------- MODULE SumsProofs -----------------------------
(***************************************************************************)
(* What the other proof modules rest on: Euclidean division and congruence *)
(* (rem_euclid, div_euclid), induction, the recursion equation of SumTo    *)
(* and the algebra of finite sums.  The induction principle is stated for  *)
(* a set of naturals, from the well-foundedness of < on Nat, so that it    *)
(* can be cited with a set comprehension for the property to prove.        *)
(***************************************************************************)
EXTENDS Sums, TLAPS, WellFoundedInduction, FiniteSetTheorems

(************************* division and congruence *************************)
\* Division with a positive divisor: exact split, remainder in 0..m-1.
LEMMA DivMod ==
    ASSUME NEW a \in Int, NEW m \in Nat \ {0}
    PROVE  /\ a \div m \in Int
           /\ a % m \in 0..(m - 1)
           /\ a = m * (a \div m) + (a % m)
  OBVIOUS

\* A multiple of m strictly between -m and m is zero.
LEMMA SmallMultiple ==
    ASSUME NEW m \in Nat \ {0}, NEW k \in Int, NEW d \in Int,
           d = m * k, -m < d, d < m
    PROVE  d = 0
  OBVIOUS

\* The remainder is the only value in 0..m-1 that splits a by m.
LEMMA ModUnique ==
    ASSUME NEW a \in Int, NEW m \in Nat \ {0}, NEW q \in Int, NEW r \in 0..(m - 1),
           a = m * q + r
    PROVE  r = a % m
<1>1. a = m * (a \div m) + (a % m) /\ a % m \in 0..(m - 1) /\ a \div m \in Int
  BY DivMod
<1> DEFINE d == r - (a % m)
           k == (a \div m) - q
<1>2. d = m * k /\ d \in Int /\ k \in Int /\ -m < d /\ d < m
  BY <1>1
<1>3. d = 0
  <2> HIDE DEF d, k
  <2> QED BY <1>2, SmallMultiple
<1> QED BY <1>3, <1>1

\* a and b differ by a multiple of m.
Cong(a, b, m) == \E k \in Int : a = b + m * k

\* Congruent integers are those with equal remainders.
LEMMA CongMod ==
    ASSUME NEW a \in Int, NEW b \in Int, NEW m \in Nat \ {0}
    PROVE  Cong(a, b, m) <=> a % m = b % m
<1>1. /\ a = m * (a \div m) + (a % m) /\ a \div m \in Int
      /\ b = m * (b \div m) + (b % m) /\ b \div m \in Int
      /\ a % m \in 0..(m - 1) /\ b % m \in 0..(m - 1)
  BY DivMod
<1>2. ASSUME NEW k \in Int, a = b + m * k
      PROVE  a % m = b % m
  <2> DEFINE q == (b \div m) + k
             r == b % m
  <2>1. a = m * q + r /\ q \in Int /\ r \in 0..(m - 1)
    BY <1>1, <1>2
  <2>2. r = a % m
    <3> HIDE DEF q, r
    <3> QED BY <2>1, ModUnique
  <2> QED BY <2>2
<1>3. ASSUME a % m = b % m
      PROVE  \E k \in Int : a = b + m * k
  <2> WITNESS (a \div m) - (b \div m) \in Int
  <2> QED BY <1>1, <1>3
<1> QED BY <1>2, <1>3 DEF Cong

\* Congruence is compatible with the ring operations.
LEMMA CongRing ==
    ASSUME NEW a \in Int, NEW b \in Int, NEW c \in Int, NEW d \in Int, NEW m \in Nat \ {0},
           Cong(a, b, m), Cong(c, d, m)
    PROVE  Cong(a + c, b + d, m) /\ Cong(a - c, b - d, m) /\ Cong(a * c, b * d, m)
<1>1. PICK i \in Int : a = b + m * i
  BY DEF Cong
<1>2. PICK j \in Int : c = d + m * j
  BY DEF Cong
<1>3. Cong(a + c, b + d, m)
  <2>1. a + c = (b + d) + m * (i + j) /\ i + j \in Int
    BY <1>1, <1>2
  <2> QED BY <2>1 DEF Cong
<1>4. Cong(a - c, b - d, m)
  <2>1. a - c = (b - d) + m * (i - j) /\ i - j \in Int
    BY <1>1, <1>2
  <2> QED BY <2>1 DEF Cong
<1>5. Cong(a * c, b * d, m)
  <2> DEFINE k == i * d + b * j + m * (i * j)
  <2>1. a * c = b * d + m * k /\ k \in Int
    BY <1>1, <1>2
  <2> HIDE DEF k
  <2> QED BY <2>1 DEF Cong
<1> QED BY <1>3, <1>4, <1>5

\* Every integer is congruent to its remainder, and to itself.
LEMMA CongRefl ==
    ASSUME NEW a \in Int, NEW m \in Nat \ {0}
    PROVE  Cong(a, a, m) /\ Cong(a % m, a, m) /\ a % m \in Int
<1>1. a = a + m * 0 /\ 0 \in Int
  OBVIOUS
<1>2. a = m * (a \div m) + (a % m) /\ a \div m \in Int /\ a % m \in Int
  BY DivMod
<1>3. a % m = a + m * (-(a \div m)) /\ -(a \div m) \in Int
  BY <1>2
<1> QED BY <1>1, <1>2, <1>3 DEF Cong

\* A remainder may be taken before or after an addition, a subtraction or a
\* multiplication.
LEMMA ModRing ==
    ASSUME NEW a \in Int, NEW b \in Int, NEW m \in Nat \ {0}
    PROVE  /\ ((a % m) + (b % m)) % m = (a + b) % m
           /\ ((a % m) - (b % m)) % m = (a - b) % m
           /\ ((a % m) * (b % m)) % m = (a * b) % m
<1> DEFINE x == a % m
           y == b % m
<1>1. x \in Int /\ y \in Int /\ Cong(x, a, m) /\ Cong(y, b, m)
  BY CongRefl
<1> HIDE DEF x, y
<1>2. Cong(x + y, a + b, m) /\ Cong(x - y, a - b, m) /\ Cong(x * y, a * b, m)
  BY <1>1, CongRing
<1>3. /\ x + y \in Int /\ x - y \in Int /\ x * y \in Int
      /\ a + b \in Int /\ a - b \in Int /\ a * b \in Int
  BY <1>1
<1>4. (x + y) % m = (a + b) % m
  BY <1>2, <1>3, CongMod
<1>5. (x - y) % m = (a - b) % m
  BY <1>2, <1>3, CongMod
<1>6. (x * y) % m = (a * b) % m
  BY <1>2, <1>3, CongMod
<1> QED BY <1>4, <1>5, <1>6 DEF x, y

\* Two congruent integers less than m apart are equal.
LEMMA CongruentAndClose ==
    ASSUME NEW a \in Int, NEW b \in Int, NEW m \in Nat \ {0},
           Cong(a, b, m), -m < a - b, a - b < m
    PROVE  a = b
<1>1. PICK k \in Int : a = b + m * k
  BY DEF Cong
<1> DEFINE d == a - b
<1>2. d \in Int /\ d = m * k /\ -m < d /\ d < m
  BY <1>1
<1>3. d = 0
  <2> HIDE DEF d
  <2> QED BY <1>2, SmallMultiple
<1> QED BY <1>3

\* Floor division by a positive divisor is monotone.
LEMMA DivMonotone ==
    ASSUME NEW a \in Int, NEW b \in Int, a <= b, NEW m \in Nat \ {0}
    PROVE  a \div m <= b \div m
<1> DEFINE i == a \div m
           j == b \div m
<1>1. /\ i \in Int /\ j \in Int
      /\ a = m * i + (a % m) /\ a % m \in 0..(m - 1)
      /\ b = m * j + (b % m) /\ b % m \in 0..(m - 1)
  BY DivMod
<1> HIDE DEF i, j
<1>2. m * (i - j) < m
  <2>1. m * (i - j) = m * i - m * j
    BY <1>1
  <2>2. m * i \in Int /\ m * j \in Int
    BY <1>1
  <2> QED BY <1>1, <2>1, <2>2
<1>3. ~(i - j >= 1)
  <2>1. SUFFICES ASSUME i - j >= 1 PROVE FALSE
    OBVIOUS
  <2>2. m * ((i - j) - 1) >= 0
    BY <1>1, <2>1, (i - j) - 1 \in Nat, m \in Nat
  <2>3. m * ((i - j) - 1) = m * (i - j) - m /\ m * (i - j) \in Int
    BY <1>1
  <2> QED BY <1>2, <2>2, <2>3
<1>4. i <= j
  BY <1>1, <1>3
<1> QED BY <1>4 DEF i, j

(****************************** powers of two ******************************)
\* A power of two counts the subsets of 1..k: it is positive.
LEMMA Power ==
    ASSUME NEW k \in Nat
    PROVE  /\ 2^k \in Nat \ {0}
           /\ IsFiniteSet(SUBSET (1..k)) /\ Cardinality(SUBSET (1..k)) = 2^k
<1>1. IsFiniteSet(1..k) /\ Cardinality(1..k) = k
  BY FS_Interval
<1>2. IsFiniteSet(SUBSET (1..k)) /\ Cardinality(SUBSET (1..k)) = 2^k
  BY <1>1, FS_SUBSET
<1>3. Cardinality(SUBSET (1..k)) \in Nat
  BY <1>2, FS_CardinalityType
<1>4. Cardinality(SUBSET (1..k)) # 0
  <2>1. SUBSET (1..k) # {}
    OBVIOUS
  <2> QED BY <1>2, <2>1, FS_EmptySet
<1> QED BY <1>2, <1>3, <1>4

LEMMA PowerMonotone ==
    ASSUME NEW j \in Nat, NEW k \in Nat, j <= k
    PROVE  2^j <= 2^k
<1>1. SUBSET (1..j) \in SUBSET (SUBSET (1..k))
  OBVIOUS
<1>2. Cardinality(SUBSET (1..j)) <= Cardinality(SUBSET (1..k))
  BY <1>1, Power, FS_Subset
<1> QED BY <1>2, Power

(*************************** induction over sets ***************************)
\* Every nonempty set of naturals has a least element.
LEMMA LeastNat ==
    ASSUME NEW T, T \subseteq Nat, T # {}
    PROVE  \E x \in T : \A y \in T : x <= y
<1> DEFINE R == OpToRel(<, Nat)
<1>1. IsWellFoundedOn(R, Nat)
  BY NatLessThanWellFounded
<1>2. PICK x \in T : \A y \in T : ~(<<y, x>> \in R)
  <2> HIDE DEF R
  <2> QED BY <1>1, WFMin
<1>3. ASSUME NEW y \in T
      PROVE  x <= y
  <2>1. SUFFICES ASSUME y < x PROVE FALSE
    OBVIOUS
  <2>2. <<y, x>> \in R
    BY <2>1 DEF OpToRel
  <2> QED BY <2>2, <1>2
<1> QED BY <1>3

\* A set of naturals that holds 0 and is closed under successor is Nat.
LEMMA SetInduction ==
    ASSUME NEW S, 0 \in S, \A n \in Nat : n \in S => n + 1 \in S
    PROVE  \A n \in Nat : n \in S
<1> DEFINE T == Nat \ S
<1>1. SUFFICES ASSUME T # {} PROVE FALSE
  OBVIOUS
<1>2. PICK m \in T : \A y \in T : m <= y
  <2>1. T \subseteq Nat
    OBVIOUS
  <2> HIDE DEF T
  <2> QED BY <1>1, <2>1, LeastNat
<1>3. m # 0 /\ m - 1 \in Nat
  BY <1>2
<1>4. m - 1 \in S
  BY <1>2, <1>3
<1>5. (m - 1) + 1 \in S
  BY <1>3, <1>4
<1> QED BY <1>2, <1>5

\* A nonempty sequence of at most one entry.
LEMMA Singleton ==
    ASSUME NEW S, NEW s \in Seq(S), s # <<>>, Len(s) <= 1
    PROVE  /\ Len(s) = 1 /\ DOMAIN s = {1} /\ s[1] \in S
           /\ Head(s) = s[1] /\ s = << s[1] >>
<1>1. Len(s) \in Nat /\ Len(s) # 0
  OBVIOUS
<1>2. Len(s) = 1
  BY <1>1
<1>3. DOMAIN s = {1} /\ s[1] \in S
  BY <1>2
<1>4. Head(s) = s[1]
  BY <1>2
<1>5. s = << s[1] >>
  BY <1>2
<1> QED BY <1>2, <1>3, <1>4, <1>5

(************************* the recursion is well defined *******************)
\* g computes the sums of f up to n.
Partial(f, n, g) ==
    /\ DOMAIN g = 0..n
    /\ \A k \in 0..n : g[k] = IF k = 0 THEN 0 ELSE g[k - 1] + f[k]

\* The recursion equations of SumTo have a solution.
LEMMA PartialExists ==
    ASSUME NEW f
    PROVE  \A n \in Nat : \E g : Partial(f, n, g)
<1> DEFINE S == { n \in Nat : \E g : Partial(f, n, g) }
<1>1. 0 \in S
  <2>1. Partial(f, 0, [k \in 0..0 |-> 0])
    BY DEF Partial
  <2> QED BY <2>1
<1>2. ASSUME NEW n \in Nat, n \in S
      PROVE  n + 1 \in S
  <2>1. PICK g : Partial(f, n, g)
    BY <1>2
  <2> DEFINE h == [k \in 0..(n + 1) |-> IF k = n + 1 THEN g[n] + f[n + 1] ELSE g[k]]
  <2>2. ASSUME NEW k \in 0..(n + 1)
        PROVE  h[k] = IF k = 0 THEN 0 ELSE h[k - 1] + f[k]
    <3>1. CASE k = n + 1
      BY <3>1
    <3>2. CASE k # n + 1
      <4>1. k \in 0..n /\ (k # 0 => k - 1 \in 0..n /\ k - 1 # n + 1)
        BY <3>2
      <4>2. h[k] = g[k] /\ (k # 0 => h[k - 1] = g[k - 1])
        BY <3>2, <4>1
      <4>3. g[k] = IF k = 0 THEN 0 ELSE g[k - 1] + f[k]
        BY <2>1, <4>1 DEF Partial
      <4> HIDE DEF h
      <4> QED BY <4>2, <4>3
    <3> QED BY <3>1, <3>2
  <2>3. Partial(f, n + 1, h)
    BY <2>2 DEF Partial
  <2> QED BY <2>3
<1> HIDE DEF S
<1>3. \A n \in Nat : n \in S
  BY <1>1, <1>2, SetInduction
<1> QED BY <1>3 DEF S

\* Two solutions of the recursion equations of SumTo agree up to n.
LEMMA PartialUnique ==
    ASSUME NEW f, NEW n \in Nat, NEW m \in Nat, n <= m,
           NEW g, NEW h, Partial(f, n, g), Partial(f, m, h)
    PROVE  \A k \in 0..n : g[k] = h[k]
<1> DEFINE T == { k \in 0..n : g[k] # h[k] }
<1>1. SUFFICES ASSUME T # {} PROVE FALSE
  OBVIOUS
<1>2. PICK k \in T : \A y \in T : k <= y
  <2>1. T \subseteq Nat
    OBVIOUS
  <2> HIDE DEF T
  <2> QED BY <1>1, <2>1, LeastNat
<1>3. k # 0
  BY DEF Partial
<1>4. k - 1 \in 0..n /\ k - 1 \notin T
  BY <1>2, <1>3
<1>5. g[k - 1] = h[k - 1]
  BY <1>4
<1> QED BY <1>2, <1>3, <1>5 DEF Partial

\* The equations of the recursive function: the empty sum, and one more term.
LEMMA SumToStep ==
    ASSUME NEW f
    PROVE  /\ SumTo(f, 0) = 0
           /\ \A n \in Nat : SumTo(f, n + 1) = SumTo(f, n) + f[n + 1]
<1> DEFINE G(n) == CHOOSE g : Partial(f, n, g)
           s0 == [k \in Nat |-> G(k)[k]]
           Eq(s) == s = [k \in Nat |-> IF k = 0 THEN 0 ELSE s[k - 1] + f[k]]
<1>1. \A n \in Nat : Partial(f, n, G(n))
  BY PartialExists
<1>2. ASSUME NEW k \in Nat
      PROVE  s0[k] = IF k = 0 THEN 0 ELSE s0[k - 1] + f[k]
  <2>1. Partial(f, k, G(k))
    BY <1>1
  <2>2. CASE k = 0
    BY <2>1, <2>2 DEF Partial
  <2>3. CASE k # 0
    <3>1. k - 1 \in Nat /\ k - 1 \in 0..k /\ k \in 0..k /\ k - 1 <= k /\ k - 1 \in 0..(k - 1)
      BY <2>3
    <3>2. Partial(f, k - 1, G(k - 1))
      BY <1>1, <3>1
    <3>3. G(k - 1)[k - 1] = G(k)[k - 1]
      <4> HIDE DEF G
      <4> QED BY <2>1, <3>1, <3>2, PartialUnique
    <3>4. G(k)[k] = G(k)[k - 1] + f[k]
      BY <2>1, <2>3, <3>1 DEF Partial
    <3>5. s0[k - 1] = G(k - 1)[k - 1] /\ s0[k] = G(k)[k]
      BY <3>1
    <3> HIDE DEF s0, G
    <3> QED BY <3>3, <3>4, <3>5, <2>3
  <2> QED BY <2>2, <2>3
<1>3. Eq(s0)
  <2>1. s0 = [k \in Nat |-> s0[k]]
    OBVIOUS
  <2> HIDE DEF s0
  <2> QED BY <2>1, <1>2
<1> DEFINE s == CHOOSE s : Eq(s)
<1>4. Eq(s)
  <2> HIDE DEF s0, Eq
  <2> QED BY <1>3
<1>5. \A n \in Nat : SumTo(f, n) = s[n]
  BY DEF SumTo
<1>6. \A k \in Nat : s[k] = IF k = 0 THEN 0 ELSE s[k - 1] + f[k]
  <2> HIDE DEF s
  <2> QED BY <1>4
<1> HIDE DEF s
<1>7. SumTo(f, 0) = 0
  BY <1>5, <1>6
<1>8. ASSUME NEW n \in Nat
      PROVE  SumTo(f, n + 1) = SumTo(f, n) + f[n + 1]
  <2>1. n + 1 \in Nat /\ n + 1 # 0 /\ (n + 1) - 1 = n
    OBVIOUS
  <2>2. s[n + 1] = s[n] + f[n + 1]
    BY <1>6, <2>1
  <2> QED BY <1>5, <2>1, <2>2
<1> QED BY <1>7, <1>8

(**************************** algebra of sums ******************************)
\* A sum of integers is an integer.
LEMMA SumType ==
    ASSUME NEW f, NEW n \in Nat, \A i \in 1..n : f[i] \in Int
    PROVE  SumTo(f, n) \in Int
<1> DEFINE S == { k \in Nat : k <= n => SumTo(f, k) \in Int }
<1>1. 0 \in S
  BY SumToStep
<1>2. ASSUME NEW k \in Nat, k \in S
      PROVE  k + 1 \in S
  <2>1. SUFFICES ASSUME k + 1 <= n PROVE SumTo(f, k + 1) \in Int
    OBVIOUS
  <2>2. k <= n /\ k + 1 \in 1..n
    BY <2>1
  <2> QED BY <1>2, <2>2, SumToStep
<1> HIDE DEF S
<1>3. \A k \in Nat : k \in S
  BY <1>1, <1>2, SetInduction
<1> QED BY <1>3 DEF S

\* Sums of functions that agree on 1..n are equal.
LEMMA SumExt ==
    ASSUME NEW f, NEW g, NEW n \in Nat, \A i \in 1..n : f[i] = g[i]
    PROVE  SumTo(f, n) = SumTo(g, n)
<1> DEFINE S == { k \in Nat : k <= n => SumTo(f, k) = SumTo(g, k) }
<1>1. 0 \in S
  BY SumToStep
<1>2. ASSUME NEW k \in Nat, k \in S
      PROVE  k + 1 \in S
  <2>1. SUFFICES ASSUME k + 1 <= n PROVE SumTo(f, k + 1) = SumTo(g, k + 1)
    OBVIOUS
  <2>2. k <= n /\ k + 1 \in 1..n
    BY <2>1
  <2> QED BY <1>2, <2>2, SumToStep
<1> HIDE DEF S
<1>3. \A k \in Nat : k \in S
  BY <1>1, <1>2, SetInduction
<1> QED BY <1>3 DEF S

\* The sum of a sum of functions.
LEMMA SumAdd ==
    ASSUME NEW f, NEW g, NEW h, NEW n \in Nat,
           \A i \in 1..n : f[i] \in Int /\ g[i] \in Int /\ h[i] = f[i] + g[i]
    PROVE  SumTo(h, n) = SumTo(f, n) + SumTo(g, n)
<1> DEFINE S == { k \in Nat : k <= n => SumTo(h, k) = SumTo(f, k) + SumTo(g, k) }
<1>1. 0 \in S
  BY SumToStep
<1>2. ASSUME NEW k \in Nat, k \in S
      PROVE  k + 1 \in S
  <2>1. SUFFICES ASSUME k + 1 <= n PROVE SumTo(h, k + 1) = SumTo(f, k + 1) + SumTo(g, k + 1)
    OBVIOUS
  <2>2. k <= n /\ k + 1 \in 1..n
    BY <2>1
  <2>3. SumTo(f, k) \in Int /\ SumTo(g, k) \in Int
    <3>1. \A i \in 1..k : f[i] \in Int /\ g[i] \in Int
      BY <2>2
    <3> QED BY <3>1, SumType
  <2>4. /\ SumTo(h, k + 1) = SumTo(h, k) + h[k + 1]
        /\ SumTo(f, k + 1) = SumTo(f, k) + f[k + 1]
        /\ SumTo(g, k + 1) = SumTo(g, k) + g[k + 1]
    BY SumToStep
  <2> QED BY <1>2, <2>2, <2>3, <2>4
<1> HIDE DEF S
<1>3. \A k \in Nat : k \in S
  BY <1>1, <1>2, SetInduction
<1> QED BY <1>3 DEF S

\* A constant factor leaves the sum.
LEMMA SumScale ==
    ASSUME NEW c \in Int, NEW f, NEW h, NEW n \in Nat,
           \A i \in 1..n : f[i] \in Int /\ h[i] = c * f[i]
    PROVE  SumTo(h, n) = c * SumTo(f, n)
<1> DEFINE S == { k \in Nat : k <= n => SumTo(h, k) = c * SumTo(f, k) }
<1>1. 0 \in S
  BY SumToStep
<1>2. ASSUME NEW k \in Nat, k \in S
      PROVE  k + 1 \in S
  <2>1. SUFFICES ASSUME k + 1 <= n PROVE SumTo(h, k + 1) = c * SumTo(f, k + 1)
    OBVIOUS
  <2>2. k <= n /\ k + 1 \in 1..n
    BY <2>1
  <2>3. SumTo(f, k) \in Int
    <3>1. \A i \in 1..k : f[i] \in Int
      BY <2>2
    <3> QED BY <3>1, SumType
  <2>4. /\ SumTo(h, k + 1) = SumTo(h, k) + h[k + 1]
        /\ SumTo(f, k + 1) = SumTo(f, k) + f[k + 1]
    BY SumToStep
  <2>5. c * (SumTo(f, k) + f[k + 1]) = c * SumTo(f, k) + c * f[k + 1]
    BY <2>2, <2>3
  <2> QED BY <1>2, <2>2, <2>4, <2>5
<1> HIDE DEF S
<1>3. \A k \in Nat : k \in S
  BY <1>1, <1>2, SetInduction
<1> QED BY <1>3 DEF S

\* n terms within -b..b sum to a value within -(n*b)..n*b.
LEMMA SumBound ==
    ASSUME NEW b \in Nat, NEW f, NEW n \in Nat, \A i \in 1..n : f[i] \in -b..b
    PROVE  SumTo(f, n) \in Int /\ -(n * b) <= SumTo(f, n) /\ SumTo(f, n) <= n * b
<1> DEFINE S == { k \in Nat : k <= n => -(k * b) <= SumTo(f, k) /\ SumTo(f, k) <= k * b }
<1>1. 0 \in S
  BY SumToStep
<1>2. ASSUME NEW k \in Nat, k \in S
      PROVE  k + 1 \in S
  <2>1. SUFFICES ASSUME k + 1 <= n
                 PROVE  -((k + 1) * b) <= SumTo(f, k + 1) /\ SumTo(f, k + 1) <= (k + 1) * b
    OBVIOUS
  <2>2. k <= n /\ k + 1 \in 1..n
    BY <2>1
  <2>3. SumTo(f, k) \in Int
    <3>1. \A i \in 1..k : f[i] \in Int
      BY <2>2
    <3> QED BY <3>1, SumType
  <2>4. SumTo(f, k + 1) = SumTo(f, k) + f[k + 1]
    BY SumToStep
  <2>5. (k + 1) * b = k * b + b /\ k * b \in Int
    OBVIOUS
  <2>6. f[k + 1] \in Int /\ -b <= f[k + 1] /\ f[k + 1] <= b
    BY <2>2
  <2>7. -(k * b) <= SumTo(f, k) /\ SumTo(f, k) <= k * b
    BY <1>2, <2>2
  <2> DEFINE kb == k * b
             s == SumTo(f, k)
             t == f[k + 1]
  <2>8. kb \in Int /\ s \in Int /\ t \in Int /\ -kb <= s /\ s <= kb /\ -b <= t /\ t <= b
    BY <2>3, <2>5, <2>6, <2>7
  <2> HIDE DEF kb, s, t
  <2>9. -(kb + b) <= s + t /\ s + t <= kb + b
    BY <2>8
  <2> QED BY <2>4, <2>5, <2>9 DEF kb, s, t
<1> HIDE DEF S
<1>3. \A k \in Nat : k \in S
  BY <1>1, <1>2, SetInduction
<1>4. SumTo(f, n) \in Int
  BY SumType
<1> QED BY <1>3, <1>4 DEF S

\* A sum grows with its terms.
LEMMA SumMonotone ==
    ASSUME NEW f, NEW g, NEW n \in Nat,
           \A i \in 1..n : f[i] \in Int /\ g[i] \in Int /\ f[i] <= g[i]
    PROVE  SumTo(f, n) \in Int /\ SumTo(g, n) \in Int /\ SumTo(f, n) <= SumTo(g, n)
<1> DEFINE S == { k \in Nat : k <= n => SumTo(f, k) \in Int /\ SumTo(g, k) \in Int
                                      /\ SumTo(f, k) <= SumTo(g, k) }
<1>1. 0 \in S
  BY SumToStep
<1>2. ASSUME NEW k \in Nat, k \in S
      PROVE  k + 1 \in S
  <2>1. CASE k + 1 <= n
    <3>1. SumTo(f, k + 1) = SumTo(f, k) + f[k + 1] /\ SumTo(g, k + 1) = SumTo(g, k) + g[k + 1]
      BY SumToStep
    <3>2. f[k + 1] \in Int /\ g[k + 1] \in Int /\ f[k + 1] <= g[k + 1]
      BY <2>1
    <3>3. SumTo(f, k) \in Int /\ SumTo(g, k) \in Int /\ SumTo(f, k) <= SumTo(g, k)
      BY <1>2, <2>1
    <3> QED BY <3>1, <3>2, <3>3
  <2>2. CASE ~(k + 1 <= n)
    BY <2>2
  <2> QED BY <2>1, <2>2
<1> HIDE DEF S
<1>3. \A k \in Nat : k \in S
  BY <1>1, <1>2, SetInduction
<1> QED BY <1>3 DEF S

LEMMA SumConst ==
    ASSUME NEW c \in Int, NEW f, NEW n \in Nat, \A i \in 1..n : f[i] = c
    PROVE  SumTo(f, n) = n * c
<1> DEFINE S == { k \in Nat : k <= n => SumTo(f, k) = k * c }
<1>1. 0 \in S
  BY SumToStep
<1>2. ASSUME NEW k \in Nat, k \in S
      PROVE  k + 1 \in S
  <2>1. CASE k + 1 <= n
    <3>1. SumTo(f, k + 1) = SumTo(f, k) + f[k + 1]
      BY SumToStep
    <3>2. f[k + 1] = c
      BY <2>1
    <3>3. SumTo(f, k) = k * c /\ k * c \in Int /\ (k + 1) * c = k * c + c
      BY <1>2, <2>1
    <3> QED BY <3>1, <3>2, <3>3
  <2>2. CASE ~(k + 1 <= n)
    BY <2>2
  <2> QED BY <2>1, <2>2
<1> HIDE DEF S
<1>3. \A k \in Nat : k \in S
  BY <1>1, <1>2, SetInduction
<1> QED BY <1>3 DEF S

\* Sums of congruent terms are congruent.
LEMMA SumCong ==
    ASSUME NEW m \in Nat \ {0}, NEW f, NEW g, NEW n \in Nat,
           \A i \in 1..n : f[i] \in Int /\ g[i] \in Int /\ Cong(f[i], g[i], m)
    PROVE  SumTo(f, n) \in Int /\ SumTo(g, n) \in Int /\ Cong(SumTo(f, n), SumTo(g, n), m)
<1> DEFINE S == { k \in Nat : k <= n => Cong(SumTo(f, k), SumTo(g, k), m) }
<1>1. 0 \in S
  BY SumToStep, CongRefl
<1>2. ASSUME NEW k \in Nat, k \in S
      PROVE  k + 1 \in S
  <2>1. SUFFICES ASSUME k + 1 <= n PROVE Cong(SumTo(f, k + 1), SumTo(g, k + 1), m)
    OBVIOUS
  <2>2. k <= n /\ k + 1 \in 1..n
    BY <2>1
  <2>3. SumTo(f, k) \in Int /\ SumTo(g, k) \in Int
    <3>1. \A i \in 1..k : f[i] \in Int /\ g[i] \in Int
      BY <2>2
    <3> QED BY <3>1, SumType
  <2>4. /\ SumTo(f, k + 1) = SumTo(f, k) + f[k + 1]
        /\ SumTo(g, k + 1) = SumTo(g, k) + g[k + 1]
    BY SumToStep
  <2>5. Cong(SumTo(f, k), SumTo(g, k), m) /\ Cong(f[k + 1], g[k + 1], m)
    BY <1>2, <2>2
  <2>6. f[k + 1] \in Int /\ g[k + 1] \in Int
    BY <2>2
  <2>7. Cong(SumTo(f, k) + f[k + 1], SumTo(g, k) + g[k + 1], m)
    BY <2>3, <2>5, <2>6, CongRing
  <2> QED BY <2>4, <2>7
<1> HIDE DEF S
<1>3. \A k \in Nat : k \in S
  BY <1>1, <1>2, SetInduction
<1>4. SumTo(f, n) \in Int /\ SumTo(g, n) \in Int
  BY SumType
<1> QED BY <1>3, <1>4 DEF S

\* A sum of zeros is zero.
LEMMA SumZero ==
    ASSUME NEW f, NEW n \in Nat, \A i \in 1..n : f[i] = 0
    PROVE  SumTo(f, n) = 0
<1>1. \A i \in 1..n : f[i] \in -0..0
  OBVIOUS
<1>2. SumTo(f, n) \in Int /\ -(n * 0) <= SumTo(f, n) /\ SumTo(f, n) <= n * 0
  BY <1>1, SumBound
<1> QED BY <1>2

\* The columns of a matrix of integers, summed over its first k rows.
ColumnSums(A, m, k) == [j \in 1..m |-> SumTo([i \in 1..k |-> A[i][j]], k)]

RowSums(A, m, k) == [i \in 1..k |-> SumTo([j \in 1..m |-> A[i][j]], m)]

\* Summing by columns or by rows gives the same total.
LEMMA SumExchange ==
    ASSUME NEW n \in Nat, NEW m \in Nat, NEW A \in [1..n -> [1..m -> Int]]
    PROVE  SumTo(ColumnSums(A, m, n), m) = SumTo(RowSums(A, m, n), n)
<1> DEFINE S == { k \in Nat : k <= n => SumTo(ColumnSums(A, m, k), m) = SumTo(RowSums(A, m, k), k) }
<1>1. 0 \in S
  <2>1. \A j \in 1..m : ColumnSums(A, m, 0)[j] = 0
    BY SumToStep DEF ColumnSums
  <2>2. SumTo(ColumnSums(A, m, 0), m) = 0
    BY <2>1, SumZero
  <2> QED BY <2>2, SumToStep
<1>2. ASSUME NEW k \in Nat, k \in S
      PROVE  k + 1 \in S
  <2>1. SUFFICES ASSUME k + 1 <= n
                 PROVE  SumTo(ColumnSums(A, m, k + 1), m) = SumTo(RowSums(A, m, k + 1), k + 1)
    OBVIOUS
  <2>2. k <= n /\ k + 1 \in 1..n /\ k + 1 \in Nat /\ \A i \in 1..k : i \in 1..n /\ i \in 1..(k + 1)
    BY <2>1
  <2> DEFINE row == [j \in 1..m |-> A[k + 1][j]]
  <2>3. ASSUME NEW j \in 1..m
        PROVE  /\ ColumnSums(A, m, k)[j] \in Int
               /\ row[j] \in Int
               /\ ColumnSums(A, m, k + 1)[j] = ColumnSums(A, m, k)[j] + row[j]
    <3> DEFINE short == [i \in 1..k |-> A[i][j]]
               long == [i \in 1..(k + 1) |-> A[i][j]]
    <3>1. \A i \in 1..k : short[i] \in Int /\ short[i] = long[i]
      BY <2>2
    <3>2. long[k + 1] = row[j] /\ row[j] \in Int
      BY <2>2
    <3>3. ColumnSums(A, m, k)[j] = SumTo(short, k) /\ ColumnSums(A, m, k + 1)[j] = SumTo(long, k + 1)
      BY DEF ColumnSums
    <3> HIDE DEF short, long, row
    <3>4. SumTo(long, k + 1) = SumTo(long, k) + long[k + 1]
      BY SumToStep
    <3>5. SumTo(short, k) = SumTo(long, k)
      BY <3>1, SumExt
    <3>6. SumTo(short, k) \in Int
      BY <3>1, SumType
    <3> QED BY <3>2, <3>3, <3>4, <3>5, <3>6
  <2>4. SumTo(ColumnSums(A, m, k + 1), m) = SumTo(ColumnSums(A, m, k), m) + SumTo(row, m)
    <3> DEFINE before == ColumnSums(A, m, k)
               after == ColumnSums(A, m, k + 1)
    <3>1. \A j \in 1..m : before[j] \in Int /\ row[j] \in Int /\ after[j] = before[j] + row[j]
      BY <2>3
    <3> HIDE DEF row, S, before, after
    <3>2. SumTo(after, m) = SumTo(before, m) + SumTo(row, m)
      BY <3>1, SumAdd
    <3> QED BY <3>2 DEF before, after
  <2>5. \A i \in 1..k : RowSums(A, m, k)[i] = RowSums(A, m, k + 1)[i]
    BY <2>2 DEF RowSums
  <2>6. SumTo(RowSums(A, m, k), k) = SumTo(RowSums(A, m, k + 1), k)
    BY <2>5, SumExt
  <2>7. RowSums(A, m, k + 1)[k + 1] = SumTo(row, m)
    BY <2>2 DEF RowSums
  <2>8. SumTo(RowSums(A, m, k + 1), k + 1) = SumTo(RowSums(A, m, k + 1), k) + RowSums(A, m, k + 1)[k + 1]
    BY SumToStep
  <2>9. SumTo(ColumnSums(A, m, k), m) = SumTo(RowSums(A, m, k), k)
    BY <1>2, <2>2
  <2> HIDE DEF row
  <2> QED BY <2>4, <2>6, <2>7, <2>8, <2>9
<1> HIDE DEF S
<1>3. \A k \in Nat : k \in S
  BY <1>1, <1>2, SetInduction
<1> QED BY <1>3 DEF S

\* A sum with at most one term that is not zero.
LEMMA SumSpike ==
    ASSUME NEW f, NEW n \in Nat, NEW i \in 1..n, NEW v \in Int,
           f[i] = v, \A j \in 1..n : j # i => f[j] = 0
    PROVE  SumTo(f, n) = v
<1> DEFINE S == { k \in Nat : k <= n => SumTo(f, k) = IF k >= i THEN v ELSE 0 }
<1>1. 0 \in S
  BY SumToStep
<1>2. ASSUME NEW k \in Nat, k \in S
      PROVE  k + 1 \in S
  <2>1. SUFFICES ASSUME k + 1 <= n
                 PROVE  SumTo(f, k + 1) = IF k + 1 >= i THEN v ELSE 0
    OBVIOUS
  <2>2. SumTo(f, k) = IF k >= i THEN v ELSE 0
    BY <1>2, <2>1
  <2>3. SumTo(f, k + 1) = SumTo(f, k) + f[k + 1]
    BY SumToStep
  <2>4. CASE k + 1 = i
    BY <2>2, <2>3, <2>4
  <2>5. CASE k + 1 # i
    <3>1. f[k + 1] = 0
      BY <2>1, <2>5
    <3> QED BY <2>2, <2>3, <2>5, <3>1
  <2> QED BY <2>4, <2>5
<1> HIDE DEF S
<1>3. n \in S
  BY <1>1, <1>2, SetInduction
<1> QED BY <1>3 DEF S
=============================================================================
