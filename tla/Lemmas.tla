------------------------------- MODULE Lemmas -------------------------------
(***************************************************************************)
(* What the proofs about the monitor and the image tools have in common: a *)
(* least counterexample, which stands for induction; the arithmetic of     *)
(* quotients and remainders, by which numbers are sent and stored digit by *)
(* digit and addresses split into a bank and an offset; and what a sequence*)
(* that is put together from parts holds where.                            *)
(***************************************************************************)
EXTENDS Integers, SequencesExt, SequenceTheorems, WellFoundedInduction, TLAPS

(* Every set of naturals has a least element. *)
LEMMA LeastNat ==
  ASSUME NEW T \in SUBSET Nat, T # {}
  PROVE  \E x \in T : \A y \in T : x <= y
<1>1. PICK x \in T : \A y \in T : ~ (<<y, x>> \in OpToRel(<, Nat))
  BY WFMin, NatLessThanWellFounded, Zenon
<1>2. \A y \in T : ~ (y < x)
  <2> SUFFICES ASSUME NEW y \in T, y < x PROVE FALSE
    OBVIOUS
  <2>1. <<y, x>> \in Nat \X Nat /\ <<y, x>>[1] = y /\ <<y, x>>[2] = x
    OBVIOUS
  <2>2. <<y, x>> \in OpToRel(<, Nat)
    BY <2>1, y < x, Zenon DEF OpToRel
  <2> QED
    BY <1>1, <2>2, Zenon
<1> QED
  BY <1>2

LEMMA DivSplit ==
  ASSUME NEW a \in Nat, NEW m \in Nat \ {0}
  PROVE  /\ a \div m \in Nat /\ a % m \in 0 .. m - 1
         /\ a = m * (a \div m) + (a % m)
  OBVIOUS

LEMMA ProductIsNat ==
  ASSUME NEW a \in Nat, NEW b \in Nat
  PROVE  a * b \in Nat /\ (a # 0 /\ b # 0 => a * b \in Nat \ {0})
  OBVIOUS

(* Quotient and remainder are determined by what they add up to.           *)
LEMMA DivUnique ==
  ASSUME NEW m \in Nat \ {0}, NEW s \in Nat, NEW u \in 0 .. m - 1
  PROVE  (m * s + u) \div m = s /\ (m * s + u) % m = u
<1> DEFINE a == m * s + u
           q == a \div m
           r == a % m
<1>1. a \in Nat /\ a = m * s + u
  BY ProductIsNat
<1> HIDE DEF a
<1>2. q \in Nat /\ r \in 0 .. m - 1 /\ a = m * q + r
  BY <1>1, DivSplit
<1> HIDE DEF q, r
<1>3. m * s + u = m * q + r
  BY <1>1, <1>2
<1>4. m * (s - q) = r - u /\ r - u < m /\ r - u > - m
  BY <1>2, <1>3
<1>5. ~ (s > q)
  <2> SUFFICES ASSUME s - q - 1 >= 0 PROVE FALSE
    BY <1>2
  <2>1. m * (s - q - 1) >= 0
    BY <1>2
  <2>2. m * (s - q - 1) = m * (s - q) - m
    BY <1>2
  <2> QED
    BY <1>2, <1>4, <2>1, <2>2
<1>6. ~ (q > s)
  <2> SUFFICES ASSUME q - s - 1 >= 0 PROVE FALSE
    BY <1>2
  <2>1. m * (q - s - 1) >= 0
    BY <1>2
  <2>2. m * (q - s - 1) = - (m * (s - q)) - m
    BY <1>2
  <2> QED
    BY <1>2, <1>4, <2>1, <2>2
<1>7. q = s
  BY <1>2, <1>5, <1>6
<1>8. r = u
  BY <1>2, <1>3, <1>7
<1> QED
  BY <1>7, <1>8 DEF q, r, a

LEMMA ModSmall ==
  ASSUME NEW m \in Nat \ {0}, NEW u \in 0 .. m - 1
  PROVE  u \div m = 0 /\ u % m = u
<1>1. m * 0 + u = u
  OBVIOUS
<1> QED
  BY <1>1, DivUnique

(* A multiple of m does not change a remainder.                            *)
LEMMA ModShift ==
  ASSUME NEW m \in Nat \ {0}, NEW s \in Nat, NEW a \in Nat
  PROVE  (m * s + a) % m = a % m
<1> DEFINE q == a \div m
           r == a % m
<1>1. q \in Nat /\ r \in 0 .. m - 1 /\ a = m * q + r
  BY DivSplit
<1> HIDE DEF q, r
<1>2. q \in Nat /\ r \in 0 .. m - 1 /\ m * s + a = m * s + (m * q + r)
  BY <1>1
<1>3. m * s + (m * q + r) = m * (s + q) + r /\ s + q \in Nat
  BY <1>2
<1>4. (m * (s + q) + r) % m = r
  BY <1>2, <1>3, DivUnique
<1>5. (m * s + a) % m = r
  BY <1>2, <1>3, <1>4
<1> QED
  BY <1>5 DEF r

(* A number below p with one more digit in front of it.                    *)
LEMMA AddDigit ==
  ASSUME NEW b \in Nat \ {0}, NEW p \in Nat \ {0}, NEW c \in 0 .. b - 1, NEW a \in 0 .. p - 1
  PROVE  a + c * p \in 0 .. b * p - 1
<1>1. c * p \in Nat /\ (b - 1 - c) * p \in Nat
  OBVIOUS
<1>2. b * p = c * p + (b - 1 - c) * p + p
  OBVIOUS
<1>3. b * p \in Nat /\ a \in Nat /\ a < p
  OBVIOUS
<1> QED
  BY <1>1, <1>2, <1>3

(* The remainder by b * p has one more digit than the one by p.            *)
LEMMA NextDigit ==
  ASSUME NEW a \in Nat, NEW b \in Nat \ {0}, NEW p \in Nat \ {0}
  PROVE  /\ (a \div p) % b \in 0 .. b - 1
         /\ a % (b * p) = (a % p) + ((a \div p) % b) * p
         /\ (a % (b * p)) \div p = (a \div p) % b
         /\ (a % (b * p)) % p = a % p
<1> DEFINE q == a \div p
           r == a % p
           s == q \div b
           t == q % b
           n == r + t * p
<1>1. q \in Nat /\ r \in 0 .. p - 1 /\ a = p * q + r
  BY DivSplit
<1> HIDE DEF q, r
<1>2. s \in Nat /\ t \in 0 .. b - 1 /\ q = b * s + t
  BY <1>1, DivSplit
<1> HIDE DEF s, t
<1>3. n \in 0 .. b * p - 1 /\ b * p \in Nat \ {0}
  BY <1>1, <1>2, AddDigit, ProductIsNat
<1>4. a = (b * p) * s + n
  <2>1. p * (b * s + t) = (b * p) * s + t * p
    BY <1>1, <1>2
  <2>2. (b * p) * s \in Nat /\ t * p \in Nat
    BY <1>2, <1>3, ProductIsNat
  <2> QED
    BY <1>1, <1>2, <2>1, <2>2
<1> DEFINE m == b * p
<1>5. m \in Nat \ {0} /\ n \in 0 .. m - 1 /\ a = m * s + n
  BY <1>3, <1>4
<1> HIDE DEF m, n
<1>6. a % m = n
  BY <1>2, <1>5, DivUnique
<1>7. n = p * t + r
  BY <1>1, <1>2 DEF n
<1>8. n \div p = t /\ n % p = r
  BY <1>1, <1>2, <1>7, DivUnique
<1>9. a % (b * p) = n /\ n = (a % p) + ((a \div p) % b) * p
  BY <1>6 DEF m, n, t, q, r
<1>10. n \div p = (a \div p) % b /\ n % p = a % p /\ (a \div p) % b \in 0 .. b - 1
  BY <1>2, <1>8 DEF t, q, r
<1> QED
  BY <1>9, <1>10

(* Reduced by a multiple of m first, a sum has the same remainder by m.     *)
Multiple(n, m) == n % m = 0
SameWithin(n, m, a, k) == ((a % n) + k) % m = (a + k) % m

LEMMA ReducedSum ==
  ASSUME NEW a \in Nat, NEW k \in Nat, NEW m \in Nat \ {0}, NEW n \in Nat \ {0}, Multiple(n, m)
  PROVE  SameWithin(n, m, a, k)
<1> SUFFICES ((a % n) + k) % m = (a + k) % m
  BY DEF SameWithin
<1>0. n % m = 0
  BY DEF Multiple
<1> DEFINE q == a \div n
           r == a % n
           d == n \div m
<1>1. q \in Nat /\ r \in 0 .. n - 1 /\ a = n * q + r
  BY DivSplit
<1>2. d \in Nat /\ n = m * d + (n % m)
  BY DivSplit
<1> HIDE DEF q, r, d
<1>3. n = m * d
  BY <1>0, <1>2
<1>4. a + k = m * (d * q) + (r + k) /\ d * q \in Nat /\ r + k \in Nat
  <2>1. (m * d) * q = m * (d * q)
    BY <1>1, <1>2
  <2>2. d * q \in Nat /\ m * (d * q) \in Nat
    BY <1>1, <1>2, ProductIsNat
  <2> QED
    BY <1>1, <1>3, <2>1, <2>2
<1>5. (m * (d * q) + (r + k)) % m = (r + k) % m
  BY <1>4, ModShift
<1> QED
  BY <1>4, <1>5 DEF r

LEMMA ReducedTwice ==
  ASSUME NEW a \in Nat, NEW m \in Nat \ {0}, NEW n \in Nat \ {0}, n % m = 0
  PROVE  (a % n) % m = a % m
<1> DEFINE q == a \div n
           r == a % n
           d == n \div m
<1>1. q \in Nat /\ r \in 0 .. n - 1 /\ a = n * q + r
  BY DivSplit
<1>2. d \in Nat /\ n = m * d + (n % m)
  BY DivSplit
<1> HIDE DEF q, r, d
<1>3. n = m * d
  BY <1>2
<1>4. a = m * (d * q) + r /\ d * q \in Nat /\ r \in Nat
  <2>1. (m * d) * q = m * (d * q)
    BY <1>1, <1>2
  <2>2. d * q \in Nat
    BY <1>1, <1>2, ProductIsNat
  <2> QED
    BY <1>1, <1>3, <2>1, <2>2
<1>5. (m * (d * q) + r) % m = r % m
  BY <1>4, ModShift
<1> QED
  BY <1>4, <1>5 DEF r

(* Numbers that are less than m apart have different remainders.           *)
LEMMA ModDistinct ==
  ASSUME NEW m \in Nat \ {0}, NEW a \in Nat, NEW j \in 0 .. m - 1, NEW k \in 0 .. m - 1,
         (a + j) % m = (a + k) % m
  PROVE  j = k
<1> DEFINE x == a + j
           y == a + k
           q == x \div m
           r == x % m
           s == y \div m
<1>1. x \in Nat /\ y \in Nat /\ x - y = j - k /\ y % m = r
  OBVIOUS
<1> HIDE DEF x, y
<1>2. q \in Nat /\ r \in 0 .. m - 1 /\ x = m * q + r
  BY <1>1, DivSplit
<1>3. s \in Nat /\ y = m * s + r
  BY <1>1, DivSplit
<1> HIDE DEF q, r, s
<1>4. j - k = m * (q - s)
  BY <1>1, <1>2, <1>3
<1> DEFINE d == q - s
<1>5. d \in Int /\ j - k = m * d
  BY <1>2, <1>3, <1>4
<1> HIDE DEF d
<1>6. d = 0
  <2>1. d >= 1 => m * d >= m
    BY <1>5
  <2>2. d <= -1 => m * d <= -m
    BY <1>5
  <2> QED
    BY <1>5, <2>1, <2>2
<1> QED
  BY <1>5, <1>6

(* A bit of weight w in a number below t: it can be set and cleared.        *)
LEMMA SetBit ==
  ASSUME NEW w \in Nat \ {0}, NEW t \in Nat \ {0}, t % (2 * w) = 0,
         NEW a \in 0 .. t - 1, (a \div w) % 2 = 0
  PROVE  a + w \in 0 .. t - 1 /\ ((a + w) \div w) % 2 = 1
<1> DEFINE h == 2 * w
           q == a \div h
           r == a % h
           n == t \div h
<1>1. h \in Nat \ {0} /\ a \in Nat /\ t \in Nat /\ h = 2 * w /\ t % h = 0
  OBVIOUS
<1> HIDE DEF h
<1>2. q \in Nat /\ r \in 0 .. h - 1 /\ a = h * q + r
  BY <1>1, DivSplit
<1>3. n \in Nat /\ t = h * n
  <2>1. n \in Nat /\ t = h * n + (t % h)
    BY <1>1, DivSplit
  <2> HIDE DEF n
  <2> QED
    BY <1>1, <2>1
<1>4. r = a % w /\ r \in 0 .. w - 1
  <2>1. a % (2 * w) = (a % w) + ((a \div w) % 2) * w
    <3>1. a \in Nat /\ w \in Nat \ {0} /\ 2 \in Nat \ {0}
      OBVIOUS
    <3> QED
      BY ONLY <3>1, NextDigit, ZenonT(60)
  <2>2. a % w \in 0 .. w - 1
    BY <1>1, DivSplit
  <2>3. (a % w) + 0 * w = a % w
    BY <2>2
  <2>4. a % (2 * w) = a % w
    BY <2>1, <2>3
  <2>5. r = a % (2 * w)
    BY <1>1
  <2> QED
    BY <2>2, <2>4, <2>5
<1> HIDE DEF h, q, r, n
<1>5. q + 1 <= n
  <2> SUFFICES ASSUME n <= q PROVE FALSE
    BY <1>2, <1>3
  <2>1. h * n <= h * q
    <3>1. h * q = h * n + h * (q - n) /\ h * (q - n) \in Nat
      BY <1>1, <1>2, <1>3
    <3> QED
      BY <1>1, <1>2, <1>3, <3>1
  <2> QED
    BY <1>1, <1>2, <1>3, <2>1
<1>6. h * q + h <= t
  <2>1. h * n = h * q + h + h * (n - q - 1) /\ h * (n - q - 1) \in Nat
    BY <1>1, <1>2, <1>3, <1>5
  <2>2. h * q \in Nat
    BY <1>1, <1>2
  <2> QED
    BY <1>1, <1>3, <2>1, <2>2
<1>7. a + w \in 0 .. t - 1
  <2>1. h * q \in Nat
    BY <1>1, <1>2
  <2> QED
    BY <1>1, <1>2, <1>4, <1>6, <2>1
<1>8. ((a + w) \div w) % 2 = 1
  <2>1. a + w = w * (2 * q + 1) + r /\ 2 * q + 1 \in Nat
    BY <1>1, <1>2, <1>4
  <2>2. (w * (2 * q + 1) + r) \div w = 2 * q + 1
    BY <1>4, <2>1, DivUnique
  <2>3. (2 * q + 1) % 2 = 1
    BY <1>2
  <2> QED
    BY <2>1, <2>2, <2>3
<1> QED
  BY <1>7, <1>8

LEMMA ClearBit ==
  ASSUME NEW w \in Nat \ {0}, NEW a \in Nat, (a \div w) % 2 = 1
  PROVE  a - w \in Nat
<1> DEFINE q == a \div w
           r == a % w
<1>1. q \in Nat /\ r \in 0 .. w - 1 /\ a = w * q + r
  BY DivSplit
<1>2. q # 0
  OBVIOUS
<1> HIDE DEF q, r
<1>3. w * q = w + w * (q - 1) /\ w * (q - 1) \in Nat
  BY <1>1, <1>2
<1> QED
  BY <1>1, <1>3

LEMMA DivDiv ==
  ASSUME NEW a \in Nat, NEW b \in Nat \ {0}, NEW p \in Nat \ {0}
  PROVE  a \div (b * p) = (a \div p) \div b
<1> DEFINE q == a \div p
           r == a % p
           s == q \div b
           u == q % b
           n == b * p
<1>1. q \in Nat /\ r \in 0 .. p - 1 /\ a = p * q + r
  BY DivSplit
<1> HIDE DEF q, r
<1>2. s \in Nat /\ u \in 0 .. b - 1 /\ q = b * s + u
  BY <1>1, DivSplit
<1> HIDE DEF s, u
<1>3. r + u * p \in 0 .. b * p - 1 /\ n \in Nat \ {0}
  BY <1>1, <1>2, AddDigit, ProductIsNat
<1>4. a = b * p * s + (r + u * p)
  <2>1. p * (b * s + u) = b * p * s + u * p
    BY <1>1, <1>2
  <2>2. b * p * s \in Nat /\ u * p \in Nat /\ r \in Nat
    BY <1>1, <1>2
  <2> QED
    BY <1>1, <1>2, <2>1, <2>2
<1>5. a = n * s + (r + u * p) /\ r + u * p \in 0 .. n - 1
  BY <1>3, <1>4
<1> HIDE DEF n
<1> DEFINE d == r + u * p
<1> HIDE DEF d
<1>6. a = n * s + d /\ d \in 0 .. n - 1
  BY <1>5 DEF d
<1>7. (n * s + d) \div n = s
  BY <1>2, <1>3, <1>6, DivUnique
<1> QED
  BY <1>6, <1>7 DEF n, s, q

-----------------------------------------------------------------------------
(* A function that is defined by recursion over 0 .. n exists; its step is *)
(* a function, because a fact cannot be about every operator.              *)
IsStep(g, A, n) == g \in [A \X (1 .. n) -> A]
Iterates(f, A, a, g, n) ==
  f \in [0 .. n -> A] /\ f[0] = a /\ \A k \in 1 .. n : f[k] = g[<<f[k - 1], k>>]

LEMMA RecursionExists ==
  ASSUME NEW n \in Nat, NEW A, NEW a \in A, NEW g, IsStep(g, A, n)
  PROVE  \E f : Iterates(f, A, a, g, n)
<1>0. g \in [A \X (1 .. n) -> A]
  BY DEF IsStep
<1> SUFFICES \E f \in [0 .. n -> A] : f[0] = a /\ \A k \in 1 .. n : f[k] = g[<<f[k - 1], k>>]
  BY DEF Iterates
<1> DEFINE Upto(f, m) == /\ f \in [0 .. m -> A] /\ f[0] = a
                         /\ \A k \in 1 .. m : f[k] = g[<<f[k - 1], k>>]
           T == {m \in 0 .. n : ~ \E f : Upto(f, m)}
<1>1. T = {}
  <2> SUFFICES ASSUME T # {} PROVE FALSE
    OBVIOUS
  <2>1. PICK m \in T : \A y \in T : m <= y
    <3>1. T \in SUBSET Nat
      OBVIOUS
    <3> QED
      BY <3>1, LeastNat
  <2>2. m \in 0 .. n /\ ~ \E f : Upto(f, m)
    OBVIOUS
  <2>3. m # 0
    <3>1. Upto([k \in 0 .. 0 |-> a], 0)
      OBVIOUS
    <3> QED
      BY <2>2, <3>1
  <2>4. m - 1 \in 0 .. n /\ ~ (m <= m - 1)
    BY <2>2, <2>3
  <2>5. PICK f : Upto(f, m - 1)
    BY <2>1, <2>4
  <2> DEFINE last == g[<<f[m - 1], m>>]
             h == [k \in 0 .. m |-> IF k = m THEN last ELSE f[k]]
  <2>6. f[m - 1] \in A /\ m \in 1 .. n
    BY <2>2, <2>3, <2>5
  <2>7. last \in A
    BY <1>0, <2>6
  <2>8. h \in [0 .. m -> A] /\ h[0] = a
    <3> HIDE DEF last
    <3> QED
      BY <2>2, <2>3, <2>5, <2>7
  <2>9. \A k \in 1 .. m : h[k] = g[<<h[k - 1], k>>]
    <3> TAKE k \in 1 .. m
    <3>1. CASE k = m
      <4>1. h[k] = last /\ h[k - 1] = f[m - 1]
        BY <2>2, <2>3, <3>1
      <4> HIDE DEF h
      <4> QED
        BY <3>1, <4>1
    <3>2. CASE k # m
      <4>1. k \in 1 .. m - 1 /\ h[k] = f[k] /\ h[k - 1] = f[k - 1]
        BY <2>2, <3>2
      <4> HIDE DEF h
      <4> QED
        BY <2>5, <4>1
    <3> QED
      BY <3>1, <3>2
  <2>10. Upto(h, m)
    BY <2>8, <2>9
  <2> QED
    BY <2>2, <2>10
<1>2. n \in 0 .. n
  OBVIOUS
<1>3. PICK f : Upto(f, n)
  BY <1>1, <1>2
<1> QED
  BY <1>3

-----------------------------------------------------------------------------
(* Numbers in base b; p[n] is its n-th power.                              *)
IsPowers(p, b, m) ==
  /\ b \in Nat \ {0} /\ m \in Nat
  /\ p \in [0 .. m -> Nat \ {0}] /\ p[0] = 1
  /\ \A n \in 0 .. m - 1 : p[n + 1] = b * p[n]

LEMMA PowersGrow ==
  ASSUME NEW b, NEW m, NEW p, IsPowers(p, b, m), NEW j \in 0 .. m
  PROVE  \A n \in j .. m : p[j] <= p[n]
<1> DEFINE T == {n \in j .. m : ~ (p[j] <= p[n])}
<1>1. /\ b \in Nat \ {0} /\ m \in Nat /\ p \in [0 .. m -> Nat \ {0}]
      /\ \A n \in 0 .. m - 1 : p[n + 1] = b * p[n]
  BY DEF IsPowers
<1>2. T = {}
  <2> SUFFICES ASSUME T # {} PROVE FALSE
    OBVIOUS
  <2>1. PICK n \in T : \A y \in T : n <= y
    <3>1. T \in SUBSET Nat
      BY <1>1
    <3> QED
      BY <3>1, LeastNat
  <2>2. n \in j .. m /\ ~ (p[j] <= p[n])
    OBVIOUS
  <2>3. n # j /\ j \in Nat
    BY <1>1, <2>2
  <2> DEFINE i == n - 1
  <2>4. i \in j .. m /\ i \in 0 .. m - 1 /\ i + 1 = n /\ ~ (n <= i)
    BY <1>1, <2>2, <2>3
  <2> DEFINE x == p[i]
             y == p[j]
  <2>5. y <= x
    BY <2>1, <2>4
  <2>6. p[n] = b * x /\ x \in Nat /\ y \in Nat
    BY <1>1, <2>4
  <2> HIDE DEF x, T
  <2>7. x <= b * x
    <3>1. b * x = x + (b - 1) * x /\ (b - 1) * x \in Nat
      BY <1>1, <2>6
    <3> QED
      BY <1>1, <2>6, <3>1
  <2> QED
    BY <1>1, <2>2, <2>5, <2>6, <2>7
<1> QED
  BY <1>2

LEMMA PowersDivide ==
  ASSUME NEW b, NEW m, NEW p, IsPowers(p, b, m), NEW j \in 0 .. m
  PROVE  \A n \in j .. m : p[n] % p[j] = 0
<1> DEFINE T == {n \in 0 .. m : j <= n /\ p[n] % p[j] # 0}
<1>1. /\ b \in Nat \ {0} /\ m \in Nat /\ p \in [0 .. m -> Nat \ {0}]
      /\ \A n \in 0 .. m - 1 : p[n + 1] = b * p[n]
  BY DEF IsPowers
<1>2. T = {}
  <2> SUFFICES ASSUME T # {} PROVE FALSE
    OBVIOUS
  <2>1. PICK n \in T : \A y \in T : n <= y
    <3>1. T \in SUBSET Nat
      BY <1>1
    <3> QED
      BY <3>1, LeastNat
  <2>2. n \in 0 .. m /\ j <= n /\ p[n] % p[j] # 0
    OBVIOUS
  <2> DEFINE d == p[j]
             k == n - 1
  <2>3. d \in Nat \ {0}
    BY <1>1
  <2>4. n # j
    <3>1. d % d = 0
      <4>1. d * 1 + 0 = d
        BY <2>3
      <4>2. (d * 1 + 0) % d = 0
        BY <2>3, DivUnique
      <4> QED
        BY <4>1, <4>2
    <3> QED
      BY <2>2, <3>1
  <2>5. k \in 0 .. m - 1 /\ j <= k /\ ~ (n <= k) /\ k + 1 = n /\ k \in 0 .. m
    BY <1>1, <2>2, <2>4
  <2> HIDE DEF k
  <2>6. p[k] % d = 0
    BY <2>1, <2>5
  <2>7. p[n] = b * p[k] /\ p[k] \in Nat
    BY <1>1, <2>5
  <2> DEFINE x == p[k]
             q == x \div d
  <2>8. x \in Nat /\ q \in Nat /\ x = d * q + (x % d)
    BY <2>3, <2>7, DivSplit
  <2>9. x = d * q
    BY <2>3, <2>6, <2>8
  <2> HIDE DEF x, q, d
  <2>10. b * x = d * (b * q) + 0 /\ b * q \in Nat
    BY <1>1, <2>3, <2>8, <2>9
  <2>11. (d * (b * q) + 0) % d = 0
    BY <2>3, <2>10, DivUnique
  <2> QED
    BY <2>2, <2>7, <2>10, <2>11 DEF x, d
<1> TAKE n \in j .. m
<1>3. n \in 0 .. m /\ j <= n
  BY <1>1
<1> QED
  BY <1>2, <1>3

(* What digits add up to, the lowest first: the sum of the first j of them *)
(* is the remainder by the j-th power, and each digit can be got back.     *)
IsSum(s, a, p, size) ==
  s[0] = 0 /\ \A k \in 0 .. size - 1 : s[k + 1] = s[k] + a[k] * p[k]

LEMMA SumBelow ==
  ASSUME NEW b, NEW m, NEW p, IsPowers(p, b, m), NEW size \in 0 .. m,
         NEW a \in [0 .. size - 1 -> 0 .. b - 1], NEW s, IsSum(s, a, p, size)
  PROVE  \A n \in 0 .. size : s[n] \in 0 .. p[n] - 1
<1> DEFINE T == {n \in 0 .. size : s[n] \notin 0 .. p[n] - 1}
<1>1. /\ b \in Nat \ {0} /\ m \in Nat /\ p \in [0 .. m -> Nat \ {0}] /\ p[0] = 1
      /\ \A n \in 0 .. m - 1 : p[n + 1] = b * p[n]
  BY DEF IsPowers
<1>2. T = {}
  <2> SUFFICES ASSUME T # {} PROVE FALSE
    OBVIOUS
  <2>1. PICK n \in T : \A y \in T : n <= y
    <3>1. T \in SUBSET Nat
      BY <1>1
    <3> QED
      BY <3>1, LeastNat
  <2>2. n \in 0 .. size /\ s[n] \notin 0 .. p[n] - 1
    OBVIOUS
  <2>3. n # 0
    BY <1>1, <2>2 DEF IsSum
  <2> DEFINE k == n - 1
  <2>4. k \in 0 .. size /\ k \in 0 .. size - 1 /\ k \in 0 .. m - 1 /\ k \in 0 .. m
        /\ ~ (n <= k) /\ k + 1 = n
    BY <1>1, <2>2, <2>3
  <2> HIDE DEF k
  <2>5. s[k] \in 0 .. p[k] - 1
    BY <2>1, <2>4
  <2>6. s[n] = s[k] + a[k] * p[k] /\ p[n] = b * p[k]
    BY <1>1, <2>4 DEF IsSum
  <2>7. a[k] \in 0 .. b - 1 /\ p[k] \in Nat \ {0}
    BY <1>1, <2>4
  <2> DEFINE x == s[k]
             y == a[k]
             z == p[k]
  <2>8. x \in 0 .. z - 1 /\ y \in 0 .. b - 1 /\ z \in Nat \ {0}
        /\ s[n] = x + y * z /\ p[n] = b * z
    BY <2>5, <2>6, <2>7
  <2> HIDE DEF x, y, z
  <2>9. x + y * z \in 0 .. b * z - 1
    BY <1>1, <2>8, AddDigit
  <2> QED
    BY <2>2, <2>8, <2>9
<1> QED
  BY <1>2

LEMMA SumRemainder ==
  ASSUME NEW b, NEW m, NEW p, IsPowers(p, b, m), NEW size \in 0 .. m,
         NEW a \in [0 .. size - 1 -> 0 .. b - 1], NEW s, IsSum(s, a, p, size)
  PROVE  \A n \in 0 .. size : \A j \in 0 .. n : s[n] % p[j] = s[j]
<1> DEFINE T == {n \in 0 .. size : ~ \A j \in 0 .. n : s[n] % p[j] = s[j]}
<1>1. /\ b \in Nat \ {0} /\ m \in Nat /\ p \in [0 .. m -> Nat \ {0}] /\ p[0] = 1
      /\ \A n \in 0 .. m - 1 : p[n + 1] = b * p[n]
  BY DEF IsPowers
<1>2. \A n \in 0 .. size : s[n] \in 0 .. p[n] - 1
  BY SumBelow
<1>3. T = {}
  <2> SUFFICES ASSUME T # {} PROVE FALSE
    OBVIOUS
  <2>1. PICK n \in T : \A y \in T : n <= y
    <3>1. T \in SUBSET Nat
      BY <1>1
    <3> QED
      BY <3>1, LeastNat
  <2>2. n \in 0 .. size
    OBVIOUS
  <2>3. PICK j \in 0 .. n : s[n] % p[j] # s[j]
    OBVIOUS
  <2>4. j # n
    <3>1. s[n] \in 0 .. p[n] - 1 /\ p[n] \in Nat \ {0}
      BY <1>1, <1>2, <2>2, SMTT(30)
    <3>2. s[n] % p[n] = s[n]
      BY <3>1, ModSmall
    <3> QED
      BY <2>3, <3>2
  <2> DEFINE k == n - 1
  <2>5. k \in 0 .. size /\ k \in 0 .. size - 1 /\ k \in j .. m /\ j \in 0 .. k /\ j \in 0 .. m
        /\ ~ (n <= k) /\ k + 1 = n
    BY <1>1, <2>2, <2>3, <2>4
  <2> HIDE DEF k
  <2>6. s[k] % p[j] = s[j]
    BY <2>1, <2>5
  <2> DEFINE x == s[k]
             y == a[k]
             z == p[k]
             d == p[j]
             v == s[n]
  <2>7. x \in 0 .. z - 1 /\ y \in Nat /\ z \in Nat \ {0} /\ d \in Nat \ {0} /\ v = x + y * z
        /\ v \in Nat
    <3>1. s[n] = s[k] + a[k] * p[k]
      BY <2>5 DEF IsSum
    <3>2. k \in 0 .. m /\ n \in 0 .. m /\ a[k] \in 0 .. b - 1
      BY <1>1, <2>2, <2>5, SMTT(60)
    <3>3. s[k] \in 0 .. p[k] - 1 /\ s[n] \in 0 .. p[n] - 1
      BY <1>2, <2>2, <2>5
    <3>4. p[k] \in Nat \ {0} /\ p[j] \in Nat \ {0} /\ p[n] \in Nat \ {0}
      BY <1>1, <2>5, <3>2
    <3>5. a[k] \in Nat
      BY <1>1, <3>2
    <3>6. s[n] \in Nat
      BY <3>3, <3>4
    <3> QED
      BY <3>1, <3>3, <3>4, <3>5, <3>6
  <2>8. z % d = 0
    <3>1. \A i \in j .. m : p[i] % p[j] = 0
      BY <2>5, PowersDivide
    <3> QED
      BY <2>5, <3>1
  <2> HIDE DEF x, y, z, d, v
  <2>9. v % z = x
    <3>1. v = z * y + x
      BY <2>7
    <3>2. (z * y + x) % z = x
      BY <2>7, DivUnique
    <3> QED
      BY <3>1, <3>2
  <2>10. (v % z) % d = v % d
    <3>1. v \in Nat /\ d \in Nat \ {0} /\ z \in Nat \ {0}
      BY <2>7
    <3> QED
      BY <2>8, <3>1, ReducedTwice, Zenon
  <2> QED
    BY <2>3, <2>6, <2>9, <2>10 DEF x, d, v
<1> QED
  BY <1>3

LEMMA SumDigit ==
  ASSUME NEW b, NEW m, NEW p, IsPowers(p, b, m), NEW size \in 0 .. m,
         NEW a \in [0 .. size - 1 -> 0 .. b - 1], NEW s, IsSum(s, a, p, size)
  PROVE  \A k \in 0 .. size - 1 : (s[size] \div p[k]) % b = a[k]
<1>1. /\ b \in Nat \ {0} /\ m \in Nat /\ p \in [0 .. m -> Nat \ {0}] /\ p[0] = 1
      /\ \A n \in 0 .. m - 1 : p[n + 1] = b * p[n]
  BY DEF IsPowers
<1>2. \A n \in 0 .. size : s[n] \in 0 .. p[n] - 1
  BY SumBelow
<1>3. \A n \in 0 .. size : \A j \in 0 .. n : s[n] % p[j] = s[j]
  BY SumRemainder
<1> TAKE k \in 0 .. size - 1
<1> DEFINE x == s[k]
           y == a[k]
           z == p[k]
           v == s[size]
           w == s[k + 1]
<1>4. k \in 0 .. m /\ k \in 0 .. m - 1 /\ k \in 0 .. size /\ size \in 0 .. size
      /\ k + 1 \in 0 .. size
  BY <1>1
<1>5. x \in 0 .. z - 1 /\ y \in 0 .. b - 1 /\ z \in Nat \ {0} /\ w = x + y * z
  BY <1>1, <1>2, <1>4 DEF IsSum
<1>6. v \in Nat
  <2>1. s[size] \in 0 .. p[size] - 1 /\ p[size] \in Nat \ {0}
    BY <1>1, <1>2, <1>4
  <2> QED
    BY <2>1
<1>7. v % (b * z) = w
  <2>1. s[size] % p[k + 1] = s[k + 1]
    BY <1>3, <1>4
  <2>2. p[k + 1] = b * p[k]
    BY <1>1, <1>4
  <2> QED
    BY <2>1, <2>2
<1> HIDE DEF x, y, z, v, w
<1>8. (v % (b * z)) \div z = (v \div z) % b
  BY <1>1, <1>5, <1>6, NextDigit
<1>9. (z * y + x) \div z = y
  <2>1. y \in Nat
    BY <1>1, <1>5
  <2>2. x \in 0 .. z - 1 /\ z \in Nat \ {0}
    BY <1>5
  <2> QED
    BY <2>1, <2>2, DivUnique, Zenon
<1>10. w = z * y + x
  <2>1. y \in Nat
    BY <1>1, <1>5
  <2> QED
    BY <1>5, <2>1
<1> QED
  BY <1>7, <1>8, <1>9, <1>10 DEF v, y, z

LEMMA DigitsSum ==
  ASSUME NEW b, NEW m, NEW p, IsPowers(p, b, m), NEW size \in 0 .. m,
         NEW v \in 0 .. p[size] - 1, NEW a, NEW s, IsSum(s, a, p, size),
         \A k \in 0 .. size - 1 : a[k] = (v \div p[k]) % b
  PROVE  s[size] = v
<1> DEFINE T == {n \in 0 .. size : s[n] # v % p[n]}
<1>1. /\ b \in Nat \ {0} /\ m \in Nat /\ p \in [0 .. m -> Nat \ {0}] /\ p[0] = 1
      /\ \A n \in 0 .. m - 1 : p[n + 1] = b * p[n]
  BY DEF IsPowers
<1>2. p[size] \in Nat \ {0} /\ v \in Nat
  <2>1. p[size] \in Nat \ {0}
    BY <1>1
  <2> QED
    BY <2>1
<1>3. T = {}
  <2> SUFFICES ASSUME T # {} PROVE FALSE
    OBVIOUS
  <2>1. PICK n \in T : \A y \in T : n <= y
    <3>1. T \in SUBSET Nat
      BY <1>1
    <3> QED
      BY <3>1, LeastNat
  <2>2. n \in 0 .. size /\ s[n] # v % p[n]
    OBVIOUS
  <2>3. n # 0
    <3>1. v % 1 = 0
      BY <1>2
    <3> QED
      BY <1>1, <2>2, <3>1 DEF IsSum
  <2> DEFINE k == n - 1
  <2>4. k \in 0 .. size /\ k \in 0 .. size - 1 /\ k \in 0 .. m - 1 /\ k \in 0 .. m
        /\ ~ (n <= k) /\ k + 1 = n
    BY <1>1, <2>2, <2>3
  <2> HIDE DEF k
  <2>5. s[k] = v % p[k]
    BY <2>1, <2>4
  <2>6. s[n] = s[k] + a[k] * p[k] /\ p[n] = b * p[k] /\ a[k] = (v \div p[k]) % b
    BY <1>1, <2>4 DEF IsSum
  <2> DEFINE z == p[k]
  <2>7. z \in Nat \ {0} /\ s[n] = (v % z) + ((v \div z) % b) * z /\ p[n] = b * z
    BY <1>1, <2>4, <2>5, <2>6
  <2> HIDE DEF z
  <2>8. v % (b * z) = (v % z) + ((v \div z) % b) * z
    <3>1. v \in Nat /\ b \in Nat \ {0} /\ z \in Nat \ {0}
      BY <1>1, <1>2, <2>7
    <3> QED
      BY <3>1, NextDigit, ZenonT(60)
  <2> QED
    BY <2>2, <2>7, <2>8
<1>4. s[size] = v % p[size]
  <2>1. size \in 0 .. size
    BY <1>1
  <2> QED
    BY <1>3, <2>1
<1>5. v % p[size] = v
  BY <1>2, ModSmall
<1> QED
  BY <1>4, <1>5

(* Digits taken from the highest on: h is the number after each of them.    *)
IsHorner(h, b, d, n) ==
  h[0] = 0 /\ \A k \in 1 .. n : h[k] = h[k - 1] * b + d[k]

LEMMA HornerBelow ==
  ASSUME NEW b, NEW m, NEW p, IsPowers(p, b, m), NEW n \in 0 .. m, NEW d,
         \A k \in 1 .. n : d[k] \in 0 .. b - 1, NEW h, IsHorner(h, b, d, n)
  PROVE  \A k \in 0 .. n : h[k] \in 0 .. p[k] - 1
<1> DEFINE T == {k \in 0 .. n : h[k] \notin 0 .. p[k] - 1}
<1>1. /\ b \in Nat \ {0} /\ m \in Nat /\ p \in [0 .. m -> Nat \ {0}] /\ p[0] = 1
      /\ \A k \in 0 .. m - 1 : p[k + 1] = b * p[k]
  BY DEF IsPowers
<1>2. h[0] = 0 /\ \A k \in 1 .. n : h[k] = h[k - 1] * b + d[k]
  BY DEF IsHorner
<1>3. T = {}
  <2> SUFFICES ASSUME T # {} PROVE FALSE
    OBVIOUS
  <2>1. PICK k \in T : \A y \in T : k <= y
    <3>1. T \in SUBSET Nat
      BY <1>1
    <3> QED
      BY <3>1, LeastNat
  <2>2. k \in 0 .. n /\ h[k] \notin 0 .. p[k] - 1
    OBVIOUS
  <2>3. k # 0
    <3>1. 0 \in 0 .. p[0] - 1
      BY <1>1
    <3> QED
      BY <1>2, <2>2, <3>1
  <2> DEFINE j == k - 1
  <2>4. j \in 0 .. n /\ j \in 0 .. m - 1 /\ k \in 1 .. n /\ j + 1 = k /\ ~ (k <= j)
    BY <1>1, <2>2, <2>3
  <2> DEFINE x == h[j]
             z == p[j]
  <2>5. x \in 0 .. z - 1
    BY <2>1, <2>4
  <2>6. p[k] = b * z /\ h[k] = x * b + d[k] /\ z \in Nat \ {0} /\ d[k] \in 0 .. b - 1
    BY <1>1, <1>2, <2>4
  <2> HIDE DEF x, z, T
  <2>7. x * b + d[k] \in 0 .. b * z - 1
    <3>1. x * b \in Nat /\ (z - 1 - x) * b \in Nat
      BY <1>1, <2>5, <2>6
    <3>2. b * z = x * b + b + (z - 1 - x) * b
      BY <1>1, <2>5, <2>6
    <3> QED
      BY <1>1, <2>6, <3>1, <3>2, SMTT(30)
  <2> QED
    BY <2>2, <2>6, <2>7
<1> QED
  BY <1>3

HasDigits(d, v, p, b, n) ==
  v \in 0 .. p[n] - 1 /\ \A k \in 1 .. n : d[k] = (v \div p[n - k]) % b

LEMMA HornerDigits ==
  ASSUME NEW b, NEW m, NEW p, IsPowers(p, b, m), NEW n \in 0 .. m,
         NEW v, NEW d, HasDigits(d, v, p, b, n), NEW h, IsHorner(h, b, d, n)
  PROVE  h[n] = v
<1>0. v \in 0 .. p[n] - 1 /\ \A k \in 1 .. n : d[k] = (v \div p[n - k]) % b
  BY DEF HasDigits
<1> DEFINE T == {k \in 0 .. n : h[k] # v \div p[n - k]}
<1>1. /\ b \in Nat \ {0} /\ m \in Nat /\ p \in [0 .. m -> Nat \ {0}] /\ p[0] = 1
      /\ \A k \in 0 .. m - 1 : p[k + 1] = b * p[k]
  BY DEF IsPowers
<1>2. h[0] = 0 /\ \A k \in 1 .. n : h[k] = h[k - 1] * b + d[k]
  BY DEF IsHorner
<1>3. p[n] \in Nat \ {0} /\ v \in Nat /\ v < p[n]
  <2>1. p[n] \in Nat \ {0}
    BY <1>1
  <2> QED
    BY <1>0, <2>1
<1>4. T = {}
  <2> SUFFICES ASSUME T # {} PROVE FALSE
    OBVIOUS
  <2>1. PICK k \in T : \A y \in T : k <= y
    <3>1. T \in SUBSET Nat
      BY <1>1
    <3> QED
      BY <3>1, LeastNat
  <2>2. k \in 0 .. n /\ h[k] # v \div p[n - k]
    OBVIOUS
  <2>3. k # 0
    <3>1. n - 0 = n
      BY <1>1
    <3> DEFINE x == p[n]
    <3>2. x \in Nat \ {0} /\ v < x
      BY <1>3
    <3> HIDE DEF x
    <3>3. v \div x = 0
      BY <1>3, <3>2
    <3> QED
      BY <1>2, <2>2, <3>1, <3>3 DEF x
  <2> DEFINE j == k - 1
             e == n - k
  <2>4. /\ j \in 0 .. n /\ k \in 1 .. n /\ ~ (k <= j)
        /\ n - j = e + 1 /\ e \in 0 .. m - 1
    BY <1>1, <2>2, <2>3
  <2> DEFINE x == h[j]
             z == p[e]
             q == v \div z
  <2>5. x = v \div p[n - j]
    BY <2>1, <2>4
  <2>6. h[k] = x * b + d[k] /\ d[k] = q % b /\ p[n - j] = b * z /\ z \in Nat \ {0}
    BY <1>0, <1>1, <1>2, <2>4
  <2> HIDE DEF x, z, T
  <2>7. x = q \div b
    <3>1. v \div (b * z) = (v \div z) \div b
      BY <1>1, <1>3, <2>6, DivDiv
    <3> QED
      BY <2>5, <2>6, <3>1
  <2>8. q \in Nat
    BY <1>3, <2>6, DivSplit
  <2>9. h[k] = q
    <3> HIDE DEF q
    <3>1. q = b * (q \div b) + (q % b)
      BY <1>1, <2>8, DivSplit
    <3>2. x \in Nat /\ q % b \in Nat
      <4>1. q \div b \in Nat /\ q % b \in 0 .. b - 1
        BY <1>1, <2>8, DivSplit
      <4> QED
        BY <1>1, <2>7, <4>1
    <3> QED
      BY <1>1, <2>6, <2>7, <3>1, <3>2
  <2> QED
    BY <2>2, <2>9 DEF z
<1>5. h[n] = v \div p[n - n]
  <2>1. n \in 0 .. n
    BY <1>1
  <2> QED
    BY <1>4, <2>1
<1>6. n - n = 0 /\ v \div 1 = v
  BY <1>1, <1>3
<1> QED
  BY <1>1, <1>5, <1>6

-----------------------------------------------------------------------------
(* Concatenation of a sequence of sequences: FlattenSeq is defined by a    *)
(* recursive function.  IsFlat says what it is, for the first n of them.   *)
IsFlat(f, s, S) ==
  /\ f \in [1 .. Len(s) -> Seq(S)]
  /\ \A n \in 1 .. Len(s) : f[n] = IF n = 1 THEN s[1] ELSE f[n - 1] \o s[n]

LEMMA FlatExists ==
  ASSUME NEW S, NEW s \in Seq(Seq(S))
  PROVE  \E f : IsFlat(f, s, S)
<1> DEFINE Upto(f, m) == /\ f \in [1 .. m -> Seq(S)]
                         /\ \A n \in 1 .. m : f[n] = IF n = 1 THEN s[1] ELSE f[n - 1] \o s[n]
           T == {m \in 0 .. Len(s) : ~ \E f : Upto(f, m)}
<1>1. T = {}
  <2> SUFFICES ASSUME T # {} PROVE FALSE
    OBVIOUS
  <2>1. PICK m \in T : \A y \in T : m <= y
    <3>1. T \in SUBSET Nat
      OBVIOUS
    <3> QED
      BY <3>1, LeastNat
  <2>2. m \in 0 .. Len(s) /\ ~ \E f : Upto(f, m)
    OBVIOUS
  <2>3. m # 0
    <3>1. Upto([n \in 1 .. 0 |-> <<>>], 0)
      OBVIOUS
    <3> QED
      BY <2>2, <3>1
  <2>4. m - 1 \in 0 .. Len(s) /\ ~ (m <= m - 1)
    BY <2>2, <2>3
  <2>5. PICK f : Upto(f, m - 1)
    BY <2>1, <2>4
  <2> DEFINE last == IF m = 1 THEN s[1] ELSE f[m - 1] \o s[m]
             g == [n \in 1 .. m |-> IF n = m THEN last ELSE f[n]]
  <2>6. last \in Seq(S)
    <3>1. s[m] \in Seq(S) /\ s[1] \in Seq(S)
      BY <2>2, <2>3
    <3>2. m # 1 => f[m - 1] \in Seq(S)
      BY <2>2, <2>3, <2>5
    <3> QED
      BY <3>1, <3>2, ConcatProperties
  <2>7. g \in [1 .. m -> Seq(S)]
    <3> HIDE DEF last
    <3> QED
      BY <2>2, <2>5, <2>6
  <2>8. \A n \in 1 .. m : g[n] = IF n = 1 THEN s[1] ELSE g[n - 1] \o s[n]
    <3> TAKE n \in 1 .. m
    <3>1. CASE n = m
      BY <2>2, <3>1
    <3>2. CASE n # m
      <4>1. n \in 1 .. m - 1 /\ g[n] = f[n] /\ (n # 1 => g[n - 1] = f[n - 1])
        BY <2>2, <3>2
      <4> HIDE DEF g
      <4> QED
        BY <2>5, <4>1
    <3> QED
      BY <3>1, <3>2
  <2>9. Upto(g, m)
    BY <2>7, <2>8
  <2> QED
    BY <2>2, <2>9
<1>2. Len(s) \in 0 .. Len(s)
  OBVIOUS
<1> QED
  BY <1>1, <1>2 DEF IsFlat

LEMMA FlatRule ==
  ASSUME NEW S, NEW s \in Seq(Seq(S)), NEW f, IsFlat(f, s, S)
  PROVE  \A n \in 1 .. Len(s) :
           f[n] \in Seq(S) /\ f[n] = IF n = 1 THEN s[1] ELSE f[n - 1] \o s[n]
  BY DEF IsFlat

LEMMA FlatIs ==
  ASSUME NEW S, NEW s \in Seq(Seq(S)), s # <<>>
  PROVE  \E f : IsFlat(f, s, S) /\ FlattenSeq(s) = f[Len(s)]
<1> DEFINE G(f) == [n \in 1 .. Len(s) |-> IF n = 1 THEN s[n] ELSE f[n - 1] \o s[n]]
           h == CHOOSE f : f = G(f)
<1>1. PICK f : IsFlat(f, s, S)
  BY FlatExists
<1>2. f = G(f)
  BY <1>1 DEF IsFlat
<1>3. h = G(h)
  BY <1>2
<1>4. FlattenSeq(s) = h[Len(s)]
  BY DEF FlattenSeq
<1> HIDE DEF h
<1>5. \A n \in 1 .. Len(s) : h[n] = IF n = 1 THEN s[1] ELSE h[n - 1] \o s[n]
  BY <1>3
<1> DEFINE T == {n \in 1 .. Len(s) : h[n] \notin Seq(S)}
<1>6. T = {}
  <2> SUFFICES ASSUME T # {} PROVE FALSE
    OBVIOUS
  <2>1. PICK n \in T : \A y \in T : n <= y
    <3>1. T \in SUBSET Nat
      OBVIOUS
    <3> QED
      BY <3>1, LeastNat
  <2>2. n \in 1 .. Len(s) /\ h[n] \notin Seq(S) /\ s[n] \in Seq(S)
    OBVIOUS
  <2>3. n # 1
    BY <1>5, <2>2
  <2>4. h[n - 1] \in Seq(S)
    BY <2>1, <2>2, <2>3
  <2> QED
    BY <1>5, <2>2, <2>3, <2>4, ConcatProperties
<1>7. \A n \in 1 .. Len(s) : h[n] \in Seq(S)
  BY <1>6
<1>8. h \in [1 .. Len(s) -> Seq(S)]
  <2>1. DOMAIN h = 1 .. Len(s) /\ h = [n \in 1 .. Len(s) |-> h[n]]
    <3> DEFINE F(n) == IF n = 1 THEN s[n] ELSE h[n - 1] \o s[n]
    <3>1. h = [n \in 1 .. Len(s) |-> F(n)]
      BY <1>3
    <3> HIDE DEF F
    <3> QED
      BY <3>1
  <2> QED
    BY <1>7, <2>1
<1> QED
  BY <1>4, <1>5, <1>8 DEF IsFlat

LEMMA FlatEmpty == FlattenSeq(<<>>) = <<>>
  BY DEF FlattenSeq

LEMMA FlatType ==
  ASSUME NEW S, NEW s \in Seq(Seq(S))
  PROVE  FlattenSeq(s) \in Seq(S)
<1>1. CASE s = <<>>
  BY <1>1, FlatEmpty, EmptySeq
<1>2. CASE s # <<>>
  <2>1. PICK f : IsFlat(f, s, S) /\ FlattenSeq(s) = f[Len(s)]
    BY <1>2, FlatIs
  <2>2. Len(s) \in 1 .. Len(s)
    BY <1>2
  <2> QED
    BY <2>1, <2>2 DEF IsFlat
<1> QED
  BY <1>1, <1>2

(* It can be taken apart at its end ...                                    *)
LEMMA FlatAppend ==
  ASSUME NEW S, NEW s \in Seq(Seq(S)), NEW x \in Seq(S)
  PROVE  FlattenSeq(Append(s, x)) = FlattenSeq(s) \o x
<1> DEFINE t == Append(s, x)
<1>1. t \in Seq(Seq(S)) /\ Len(t) = Len(s) + 1 /\ t # <<>> /\ t[Len(s) + 1] = x
      /\ \A n \in 1 .. Len(s) : t[n] = s[n]
  BY AppendProperties
<1> HIDE DEF t
<1>2. PICK g : IsFlat(g, t, S) /\ FlattenSeq(t) = g[Len(t)]
  BY <1>1, FlatIs
<1>5. \A n \in 1 .. Len(t) : g[n] = IF n = 1 THEN t[1] ELSE g[n - 1] \o t[n]
  <2>1. t \in Seq(Seq(S)) /\ IsFlat(g, t, S)
    BY <1>1, <1>2
  <2> QED
    BY <2>1, FlatRule
<1>3. CASE s = <<>>
  <2>1. FlattenSeq(t) = x
    BY <1>1, <1>2, <1>3 DEF IsFlat
  <2>2. FlattenSeq(s) \o x = x
    BY <1>3, FlatEmpty
  <2> QED
    BY <2>1, <2>2 DEF t
<1>4. CASE s # <<>>
  <2>1. PICK f : IsFlat(f, s, S) /\ FlattenSeq(s) = f[Len(s)]
    BY <1>4, FlatIs
  <2> DEFINE T == {n \in 1 .. Len(s) : f[n] # g[n]}
  <2>2. T = {}
    <3> SUFFICES ASSUME T # {} PROVE FALSE
      OBVIOUS
    <3>1. PICK n \in T : \A y \in T : n <= y
      <4>1. T \in SUBSET Nat
        OBVIOUS
      <4> QED
        BY <4>1, LeastNat
    <3>2. n \in 1 .. Len(s) /\ f[n] # g[n] /\ Len(s) \in Nat
      OBVIOUS
    <3>3. n # 1 => n - 1 \in 1 .. Len(s) /\ f[n - 1] = g[n - 1]
      BY <3>1, <3>2
    <3>4. f[n] = IF n = 1 THEN s[1] ELSE f[n - 1] \o s[n]
      BY <2>1, <3>2 DEF IsFlat
    <3>5. g[n] = IF n = 1 THEN t[1] ELSE g[n - 1] \o t[n]
      <4>1. n \in 1 .. Len(t)
        BY <1>1, <3>2
      <4> QED
        BY <1>5, <4>1
    <3> QED
      BY <1>1, <3>2, <3>3, <3>4, <3>5
  <2>3. Len(s) \in 1 .. Len(s)
    BY <1>4
  <2>4. f[Len(s)] = g[Len(s)]
    BY <2>2, <2>3
  <2>5. g[Len(s) + 1] = g[Len(s)] \o t[Len(s) + 1]
    <3>1. Len(s) + 1 \in 1 .. Len(t) /\ Len(s) + 1 # 1 /\ Len(s) + 1 - 1 = Len(s)
      BY <1>1, <2>3
    <3> DEFINE k == Len(s) + 1
    <3> HIDE DEF k
    <3>2. k \in 1 .. Len(t) /\ k # 1 /\ k - 1 = Len(s)
      BY <3>1 DEF k
    <3>3. g[k] = g[k - 1] \o t[k]
      BY <1>5, <3>2
    <3> QED
      BY <3>2, <3>3 DEF k
  <2> QED
    BY <1>1, <1>2, <2>1, <2>4, <2>5 DEF t
<1> QED
  BY <1>3, <1>4

(* ... and at its front.                                                   *)
LEMMA FlatHead ==
  ASSUME NEW S, NEW s \in Seq(Seq(S)), s # <<>>
  PROVE  FlattenSeq(s) = Head(s) \o FlattenSeq(Tail(s))
<1> DEFINE t == Tail(s)
<1>1. /\ t \in Seq(Seq(S)) /\ Len(t) = Len(s) - 1 /\ Head(s) = s[1]
      /\ \A n \in 1 .. Len(t) : t[n] = s[n + 1]
  BY HeadTailProperties
<1> HIDE DEF t
<1>2. Len(s) \in Nat \ {0} /\ Len(t) \in Nat /\ (t = <<>> <=> Len(s) = 1) /\ s[1] \in Seq(S)
  <2>1. Len(s) \in Nat \ {0}
    OBVIOUS
  <2>2. t = <<>> <=> Len(t) = 0
    BY <1>1, EmptySeq
  <2>3. 1 \in 1 .. Len(s)
    BY <2>1
  <2>4. s[1] \in Seq(S)
    BY <2>3
  <2> QED
    BY <1>1, <2>1, <2>2, <2>4
<1>3. PICK f : IsFlat(f, s, S) /\ FlattenSeq(s) = f[Len(s)]
  BY FlatIs
<1>6. \A n \in 1 .. Len(s) : f[n] = IF n = 1 THEN s[1] ELSE f[n - 1] \o s[n]
  BY <1>3, FlatRule
<1>4. CASE t = <<>>
  <2>1. FlattenSeq(s) = s[1]
    <3>1. Len(s) = 1 /\ 1 \in 1 .. Len(s)
      BY <1>2, <1>4
    <3> QED
      BY <1>3, <3>1, FlatRule
  <2>2. s[1] \o FlattenSeq(t) = s[1]
    BY <1>2, <1>4, FlatEmpty
  <2> QED
    BY <1>1, <2>1, <2>2 DEF t
<1>5. CASE t # <<>>
  <2>1. PICK g : IsFlat(g, t, S) /\ FlattenSeq(t) = g[Len(t)]
    BY <1>1, <1>5, FlatIs
  <2>5. \A n \in 1 .. Len(t) : g[n] = IF n = 1 THEN t[1] ELSE g[n - 1] \o t[n]
    <3>1. t \in Seq(Seq(S)) /\ IsFlat(g, t, S)
      BY <1>1, <2>1
    <3> QED
      BY <3>1, FlatRule
  <2> DEFINE T == {n \in 1 .. Len(t) : f[n + 1] # s[1] \o g[n]}
  <2>2. T = {}
    <3> SUFFICES ASSUME T # {} PROVE FALSE
      OBVIOUS
    <3>1. PICK n \in T : \A y \in T : n <= y
      <4>1. T \subseteq 1 .. Len(t) /\ Len(t) \in Nat
        BY <1>2
      <4> HIDE DEF T
      <4> QED
        BY <4>1, LeastNat, SMTT(60)
    <3>2. n \in 1 .. Len(t) /\ f[n + 1] # s[1] \o g[n] /\ Len(t) \in Nat /\ n \in Nat
      <4>1. n \in 1 .. Len(t) /\ f[n + 1] # s[1] \o g[n]
        BY <3>1
      <4>2. Len(t) \in Nat
        BY <1>2
      <4>3. n \in Nat
        BY <4>1, <4>2
      <4> QED
        BY <4>1, <4>2, <4>3, Zenon
    <3>3. f[n + 1] = f[n] \o s[n + 1]
      <4> DEFINE k == n + 1
      <4> HIDE DEF k
      <4>1. k \in 1 .. Len(s) /\ k # 1 /\ k - 1 = n
        BY <1>1, <1>2, <3>2 DEF k
      <4>2. f[k] = f[k - 1] \o s[k]
        BY <1>6, <4>1
      <4> QED
        BY <4>1, <4>2 DEF k
    <3>4. g[n] = IF n = 1 THEN t[1] ELSE g[n - 1] \o t[n]
      BY <2>5, <3>2
    <3>5. t[n] = s[n + 1] /\ t[n] \in Seq(S)
      BY <1>1, <3>2
    <3>6. CASE n = 1
      <4>1. f[1] = s[1]
        <5>1. 1 \in 1 .. Len(s)
          BY <1>2
        <5> QED
          BY <1>3, <5>1, FlatRule
      <4> QED
        BY <3>2, <3>3, <3>4, <3>5, <3>6, <4>1
    <3>7. CASE n # 1
      <4> DEFINE k == n - 1
      <4> HIDE DEF k
      <4>4. k \in 1 .. Len(t) /\ k + 1 = n /\ ~ (n <= k)
        BY <3>2, <3>7 DEF k
      <4>1. f[k + 1] = s[1] \o g[k]
        BY <3>1, <4>4
      <4>2. f[n] = s[1] \o g[n - 1] /\ g[n - 1] \in Seq(S)
        <5>1. g[k] \in Seq(S)
          BY <1>1, <2>1, <4>4, FlatRule
        <5> QED
          BY <4>1, <4>4, <5>1 DEF k
      <4>3. (s[1] \o g[n - 1]) \o t[n] = s[1] \o (g[n - 1] \o t[n])
        <5>1. \A u, v, w \in Seq(S) : (u \o v) \o w = u \o (v \o w)
          BY ConcatAssociative, SMTT(60)
        <5> QED
          BY <1>2, <3>5, <4>2, <5>1
      <4> QED
        BY <3>2, <3>3, <3>4, <3>5, <3>7, <4>2, <4>3
    <3> QED
      BY <3>6, <3>7
  <2>3. Len(t) \in 1 .. Len(t) /\ Len(t) + 1 = Len(s)
    BY <1>1, <1>2, <1>5
  <2>4. f[Len(t) + 1] = s[1] \o g[Len(t)]
    BY <2>2, <2>3
  <2> QED
    BY <1>1, <1>3, <2>1, <2>3, <2>4 DEF t
<1> QED
  BY <1>4, <1>5

(* Where it holds what, with p the places at which the parts end.          *)
LEMMA FlatPlaces ==
  ASSUME NEW S, NEW s \in Seq(Seq(S)), NEW p \in [0 .. Len(s) -> Nat], p[0] = 0,
         \A k \in 1 .. Len(s) : p[k] = p[k - 1] + Len(s[k])
  PROVE  /\ FlattenSeq(s) \in Seq(S) /\ Len(FlattenSeq(s)) = p[Len(s)]
         /\ \A k \in 1 .. Len(s) : \A j \in 1 .. Len(s[k]) :
              p[k - 1] + j <= p[Len(s)] /\ FlattenSeq(s)[p[k - 1] + j] = s[k][j]
<1>1. CASE s = <<>>
  BY <1>1, FlatEmpty, EmptySeq
<1>2. CASE s # <<>>
  <2>1. PICK f : IsFlat(f, s, S) /\ FlattenSeq(s) = f[Len(s)]
    BY <1>2, FlatIs
  <2>2. \A n \in 1 .. Len(s) :
          f[n] \in Seq(S) /\ f[n] = IF n = 1 THEN s[1] ELSE f[n - 1] \o s[n]
    BY <2>1, FlatRule
  <2> DEFINE Good(n) == /\ Len(f[n]) = p[n]
                        /\ \A k \in 1 .. n : \A j \in 1 .. Len(s[k]) :
                             p[k - 1] + j <= p[n] /\ f[n][p[k - 1] + j] = s[k][j]
             T == {n \in 1 .. Len(s) : ~Good(n)}
  <2>3. T = {}
    <3> SUFFICES ASSUME T # {} PROVE FALSE
      OBVIOUS
    <3>1. PICK n \in T : \A y \in T : n <= y
      <4>1. T \in SUBSET Nat
        OBVIOUS
      <4> QED
        BY <4>1, LeastNat
    <3>2. n \in 1 .. Len(s) /\ ~Good(n) /\ Len(s) \in Nat /\ s[n] \in Seq(S)
      BY SMTT(30)
    <3>3. CASE n = 1
      <4>1. f[1] = s[1] /\ p[1] = Len(s[1])
        BY <2>2, <3>2, <3>3
      <4>2. Len(s[1]) \in Nat
        BY <3>2, <3>3
      <4> QED
        BY <3>2, <3>3, <4>1, <4>2
    <3>4. CASE n # 1
      <4> DEFINE m == n - 1
      <4>1. m \in 1 .. Len(s) /\ m + 1 = n /\ ~ (n <= m)
        BY <3>2, <3>4
      <4>2. Good(m)
        BY <3>1, <4>1
      <4>3. f[n] = f[m] \o s[n] /\ f[m] \in Seq(S)
        BY <2>2, <3>2, <3>4, <4>1
      <4>4. p[n] = p[m] + Len(s[n]) /\ p[m] \in Nat /\ Len(s[n]) \in Nat
        BY <3>2, <4>1, SMTT(30)
      <4> HIDE DEF m, T
      <4>5. /\ Len(f[n]) = Len(f[m]) + Len(s[n])
            /\ \A i \in 1 .. Len(f[m]) + Len(s[n]) :
                 f[n][i] = IF i <= Len(f[m]) THEN f[m][i] ELSE s[n][i - Len(f[m])]
        <5> DEFINE u == f[m]
                   v == s[n]
        <5>1. u \in Seq(S) /\ v \in Seq(S) /\ f[n] = u \o v
          BY <3>2, <4>3
        <5> HIDE DEF u, v
        <5>2. /\ Len(f[n]) = Len(u) + Len(v)
              /\ \A i \in 1 .. Len(u) + Len(v) :
                   f[n][i] = IF i <= Len(u) THEN u[i] ELSE v[i - Len(u)]
          BY <5>1, ConcatProperties
        <5> QED
          BY <5>2 DEF u, v
      <4>6. ASSUME NEW k \in 1 .. n, NEW j \in 1 .. Len(s[k])
            PROVE  p[k - 1] + j <= p[n] /\ f[n][p[k - 1] + j] = s[k][j]
        <5>1. CASE k = n
          <6>1. k - 1 = m
            BY <3>2, <4>1, <5>1
          <6>2. j \in 1 .. Len(s[n])
            BY <4>6, <5>1
          <6>3. /\ Len(f[m]) = p[m] /\ p[m] + j \in 1 .. Len(f[m]) + Len(s[n])
                /\ ~ (p[m] + j <= p[m]) /\ p[m] + j - p[m] = j /\ p[m] + j <= p[n]
            BY <4>2, <4>4, <6>2, SMTT(30)
          <6> DEFINE i == p[m] + j
          <6>4. f[n][i] = s[n][j]
            <7> HIDE DEF i
            <7>1. i \in 1 .. Len(f[m]) + Len(s[n]) /\ ~ (i <= Len(f[m])) /\ i - Len(f[m]) = j
              BY <6>3 DEF i
            <7> QED
              BY <4>5, <7>1
          <6> QED
            BY <5>1, <6>1, <6>3, <6>4
        <5>2. CASE k # n
          <6>1. k \in 1 .. m /\ k - 1 \in 0 .. Len(s) /\ k \in 1 .. Len(s)
            BY <3>2, <4>1, <5>2, SMTT(30)
          <6>2. p[k - 1] \in Nat /\ Len(s[k]) \in Nat
            <7>1. s[k] \in Seq(S)
              BY <6>1
            <7>2. Len(s[k]) \in Nat
              BY <7>1
            <7> QED
              BY <6>1, <7>2
          <6>3. p[k - 1] + j <= p[m] /\ f[m][p[k - 1] + j] = s[k][j]
            BY <4>2, <4>6, <6>1
          <6> DEFINE i == p[k - 1] + j
          <6>4. i \in 1 .. Len(f[m]) + Len(s[n]) /\ i <= Len(f[m]) /\ i <= p[n]
            <7>1. Len(f[m]) = p[m] /\ j \in 1 .. Len(s[k])
              BY <4>2, <4>6
            <7> DEFINE x == p[k - 1]
                       y == p[m]
                       z == Len(s[n])
            <7>2. x \in Nat /\ y \in Nat /\ z \in Nat /\ j \in Nat \ {0} /\ x + j <= y /\ p[n] = y + z
              BY <4>4, <6>2, <6>3, <7>1
            <7> HIDE DEF x, y, z
            <7>3. x + j \in 1 .. y + z /\ x + j <= y /\ x + j <= p[n]
              BY <7>2
            <7> QED
              BY <7>1, <7>3 DEF x, y, z
          <6> HIDE DEF i
          <6>5. f[n][i] = f[m][i]
            BY <4>5, <6>4
          <6> QED
            BY <6>3, <6>4, <6>5 DEF i
        <5> QED
          BY <5>1, <5>2
      <4> QED
        BY <3>2, <4>2, <4>4, <4>5, <4>6
    <3> QED
      BY <3>3, <3>4
  <2>4. Len(s) \in 1 .. Len(s)
    BY <1>2
  <2> HIDE DEF Good
  <2>5. Good(Len(s)) /\ f[Len(s)] \in Seq(S)
    BY <2>2, <2>3, <2>4
  <2> QED
    BY <2>1, <2>5 DEF Good
<1> QED
  BY <1>1, <1>2

-----------------------------------------------------------------------------
(* Sequences of anything: what holds of their parts and of what they are   *)
(* put together to, without a set of elements to name.                     *)
IsSeq(d) == d \in Seq(Range(d))

LEMMA SeqIs ==
  ASSUME NEW S, NEW d \in Seq(S)
  PROVE  IsSeq(d) /\ Len(d) \in Nat /\ DOMAIN d = 1 .. Len(d)
<1>1. Len(d) \in Nat /\ DOMAIN d = 1 .. Len(d) /\ d = [k \in 1 .. Len(d) |-> d[k]]
  OBVIOUS
<1>2. d \in [1 .. Len(d) -> Range(d)]
  BY <1>1 DEF Range
<1> QED
  BY <1>1, <1>2, SeqDef DEF IsSeq

LEMMA FunctionIs ==
  ASSUME NEW n \in Nat, NEW d, d = [k \in 1 .. n |-> d[k]]
  PROVE  IsSeq(d) /\ Len(d) = n
<1>1. d \in [1 .. n -> Range(d)]
  BY DEF Range
<1> QED
  BY <1>1, SeqDef DEF IsSeq

LEMMA EqualIs ==
  ASSUME NEW c, IsSeq(c), NEW d, IsSeq(d), Len(c) = Len(d),
         \A i \in 1 .. Len(c) : c[i] = d[i]
  PROVE  c = d
  BY DEF IsSeq

LEMMA JoinIs ==
  ASSUME NEW c, IsSeq(c), NEW d, IsSeq(d)
  PROVE  /\ IsSeq(c \o d) /\ Len(c \o d) = Len(c) + Len(d) /\ Len(c) \in Nat /\ Len(d) \in Nat
         /\ \A i \in 1 .. Len(c) + Len(d) :
              (c \o d)[i] = IF i <= Len(c) THEN c[i] ELSE d[i - Len(c)]
<1> DEFINE S == Range(c) \union Range(d)
<1>1. c \in Seq(S) /\ d \in Seq(S)
  <2>1. c \in Seq(Range(c)) /\ d \in Seq(Range(d))
    BY DEF IsSeq
  <2>2. Range(c) \subseteq S /\ Range(d) \subseteq S
    OBVIOUS
  <2> HIDE DEF S
  <2> QED
    BY <2>1, <2>2, SeqMonotonic
<1> HIDE DEF S
<1>2. c \o d \in Seq(S)
  BY <1>1, ConcatProperties
<1>3. IsSeq(c \o d)
  BY <1>2, SeqIs
<1> QED
  BY <1>1, <1>3, ConcatProperties, LenProperties

LEMMA JoinAt ==
  ASSUME NEW c, IsSeq(c), NEW d, IsSeq(d)
  PROVE  /\ IsSeq(c \o d) /\ Len(c \o d) = Len(c) + Len(d)
         /\ \A i \in 1 .. Len(c) : (c \o d)[i] = c[i]
         /\ \A i \in 1 .. Len(d) : (c \o d)[Len(c) + i] = d[i]
<1> DEFINE e == c \o d
<1>1. /\ IsSeq(e) /\ Len(e) = Len(c) + Len(d) /\ Len(c) \in Nat /\ Len(d) \in Nat
      /\ \A i \in 1 .. Len(c) + Len(d) : e[i] = IF i <= Len(c) THEN c[i] ELSE d[i - Len(c)]
  BY JoinIs
<1> HIDE DEF e
<1>2. \A i \in 1 .. Len(c) : e[i] = c[i]
  BY <1>1
<1>3. \A i \in 1 .. Len(d) : e[Len(c) + i] = d[i]
  <2> TAKE i \in 1 .. Len(d)
  <2> DEFINE j == Len(c) + i
  <2>1. j \in 1 .. Len(c) + Len(d) /\ ~ (j <= Len(c)) /\ j - Len(c) = i
    BY <1>1
  <2> HIDE DEF j
  <2>2. e[j] = d[i]
    BY <1>1, <2>1
  <2> QED
    BY <2>2 DEF j
<1> QED
  BY <1>1, <1>2, <1>3 DEF e

LEMMA PartIs ==
  ASSUME NEW d, IsSeq(d), NEW a \in Nat, NEW b \in Nat, a <= b, b <= Len(d)
  PROVE  /\ IsSeq(SubSeq(d, a + 1, b)) /\ Len(SubSeq(d, a + 1, b)) = b - a
         /\ \A i \in 1 .. b - a : SubSeq(d, a + 1, b)[i] = d[a + i]
<1>1. d \in Seq(Range(d)) /\ Len(d) \in Nat
  BY DEF IsSeq
<1>2. \A i \in a + 1 .. b : d[i] \in Range(d)
  <2> HIDE DEF Range
  <2> QED
    BY <1>1
<1> DEFINE e == SubSeq(d, a + 1, b)
<1>3. /\ e \in Seq(Range(d))
      /\ Len(e) = IF a + 1 <= b THEN b - (a + 1) + 1 ELSE 0
      /\ \A i \in 1 .. b - (a + 1) + 1 : e[i] = d[a + 1 + i - 1]
  <2>1. a + 1 \in Int /\ b \in Int
    OBVIOUS
  <2> QED
    BY <1>2, <2>1, SubSeqProperties, SMTT(30)
<1> HIDE DEF e
<1>4. IsSeq(e)
  BY <1>3, SeqIs
<1>5. Len(e) = b - a
  BY <1>3
<1>6. \A i \in 1 .. b - a : e[i] = d[a + i]
  <2> TAKE i \in 1 .. b - a
  <2>1. i \in 1 .. b - (a + 1) + 1 /\ a + 1 + i - 1 = a + i
    BY Len(d) \in Nat, <1>1
  <2> QED
    BY <1>3, <2>1
<1> QED
  BY <1>4, <1>5, <1>6 DEF e

=============================================================================
