----------------------------- MODULE ImageProofs -----------------------------
(***************************************************************************)
(* About the image formats, for every file: that the tools that write and  *)
(* read images agree, and that damage to an image is seen.                 *)
(*                                                                         *)
(* The first part says what the header and the body of an image hold at    *)
(* every offset, what the parser reads there, and what the ROM does with   *)
(* the writes it reads.                                                    *)
(*                                                                         *)
(* The second part is about the sum of the bytes.  It is that of the       *)
(* elements one by one, so that two sequences that differ in one place have*)
(* sums that differ by as much.  An image that lost its end has lost       *)
(* nothing that is read, or is refused; one with another byte in a part    *)
(* that is read has another sum there, unless the byte is of a length.     *)
(***************************************************************************)
EXTENDS FwImage, Lemmas

(* The images of make_image.py.  Numbers in cells, first.                  *)
LEMMA PowersOfBase ==
  /\ Base \in Nat \ {0} /\ Base >= 16 /\ Base^0 = 1 /\ Base^1 = Base
  /\ Base^2 = Base * Base /\ Base^3 = Base * (Base * Base)
  /\ Base^4 = Base * (Base * (Base * Base))
  /\ \A n \in 0..4 : Base^n \in Nat \ {0}
<1>1. Base \in Nat \ {0} /\ Base >= 16
  BY ImageAssumption, BypassAssumption
<1>2. /\ Base^0 = 1
      /\ \A n \in 0..3 : Base^n \in Nat \ {0} /\ Base^(n + 1) = Base * Base^n
  BY PowerAssumption
<1>3. Base^1 = Base * Base^0
  BY <1>2, 0 \in 0..3, 0 + 1 = 1
<1>4. Base^2 = Base * Base^1 /\ Base^1 \in Nat \ {0}
  BY <1>2, 1 \in 0..3, 1 + 1 = 2
<1>5. Base^3 = Base * Base^2 /\ Base^2 \in Nat \ {0}
  BY <1>2, 2 \in 0..3, 2 + 1 = 3
<1>6. Base^4 = Base * Base^3 /\ Base^3 \in Nat \ {0}
  BY <1>2, 3 \in 0..3, 3 + 1 = 4
<1>7. Base^1 = Base
  BY <1>1, <1>2, <1>3
<1>8. Base^4 \in Nat \ {0}
  BY <1>1, <1>6, ProductIsNat
<1>9. \A n \in 0..4 : Base^n \in Nat \ {0}
  BY <1>2, <1>8
<1> QED
  BY <1>1, <1>2, <1>4, <1>5, <1>6, <1>7, <1>9

LEMMA QuotientBelow ==
  ASSUME NEW a \in Nat, NEW b \in Nat \ {0}, NEW p \in Nat \ {0}, a < b * p
  PROVE  a \div b \in 0..p - 1
<1> DEFINE q == a \div b
           r == a % b
<1>1. q \in Nat /\ r \in 0..b - 1 /\ a = b * q + r
  BY DivSplit
<1> HIDE DEF q, r
<1>2. ASSUME q >= p PROVE FALSE
  <2>1. q - p \in Nat /\ b * (q - p) \in Nat
    BY <1>1, <1>2, ProductIsNat
  <2>2. b * q = b * p + b * (q - p)
    BY <1>1
  <2>3. b * p \in Nat /\ b * q \in Nat
    BY <1>1, ProductIsNat
  <2> QED
    BY <1>1, <2>1, <2>2, <2>3
<1> QED
  BY <1>1, <1>2 DEF q

LEMMA LEIs ==
  ASSUME NEW n \in Nat, NEW v
  PROVE  /\ IsSeq(LE(n, v)) /\ Len(LE(n, v)) = n
         /\ \A k \in 1..n : LE(n, v)[k] = (v \div Base^(k - 1)) % Base
<1> DEFINE D(k) == (v \div Base^(k - 1)) % Base
<1>1. LE(n, v) = [k \in 1..n |-> D(k)]
  BY DEF LE
<1> HIDE DEF D
<1>2. LE(n, v) = [k \in 1..n |-> LE(n, v)[k]]
  BY <1>1
<1>3. \A k \in 1..n : LE(n, v)[k] = D(k)
  BY <1>1
<1> QED
  BY <1>2, <1>3, FunctionIs DEF D

(* The numbers of the two ends, and what is read of a number written.      *)
Holds(f, a, n, v) == \A k \in 1..n : f[a + k] = LE(n, v)[k]

LEMMA ReadsOne ==
  ASSUME NEW f, NEW a \in Nat, NEW v \in 0..Base - 1, Holds(f, a, 4, v)
  PROVE  Val(f, a, 1) = v
<1>1. Base \in Nat \ {0} /\ Base^0 = 1
  BY PowersOfBase
<1>2. LE(4, v)[1] = (v \div Base^(1 - 1)) % Base
  BY LEIs
<1>3. v \div 1 = v /\ 1 - 1 = 0
  BY <1>1
<1>4. LE(4, v)[1] = v
  BY <1>1, <1>2, <1>3, ModSmall
<1> QED
  BY <1>4 DEF Holds, Val

LEMMA ReadsTwo ==
  ASSUME NEW f, NEW a \in Nat, NEW n \in {2, 4}, NEW v \in 0..Base^2 - 1, Holds(f, a, n, v)
  PROVE  Val(f, a, 2) = v
<1>1. Base \in Nat \ {0} /\ Base^0 = 1 /\ Base^1 = Base /\ Base^2 = Base * Base
  BY PowersOfBase
<1> DEFINE q == v \div Base
           r == v % Base
<1>2. v \in Nat /\ v < Base * Base
  BY <1>1
<1>3. q \in 0..Base - 1
  BY <1>1, <1>2, QuotientBelow
<1>4. r \in 0..Base - 1 /\ v = Base * q + r
  BY <1>1, <1>2, DivSplit
<1>5. LE(n, v)[1] = (v \div Base^0) % Base /\ LE(n, v)[2] = (v \div Base^1) % Base
  <2>1. 1 \in 1..n /\ 2 \in 1..n /\ n \in Nat
    OBVIOUS
  <2>2. /\ LE(n, v)[1] = (v \div Base^(1 - 1)) % Base
        /\ LE(n, v)[2] = (v \div Base^(2 - 1)) % Base
    BY <2>1, LEIs
  <2> QED
    BY <2>2, 1 - 1 = 0, 2 - 1 = 1
<1>6. LE(n, v)[1] = r /\ LE(n, v)[2] = q
  <2>1. v \div 1 = v
    BY <1>2
  <2>2. q % Base = q
    BY <1>1, <1>3, ModSmall
  <2> QED
    BY <1>1, <1>5, <2>1, <2>2
<1> HIDE DEF q, r
<1>7. f[a + 1] = r /\ f[a + 2] = q
  BY <1>6 DEF Holds
<1>8. r + Base * q = v
  BY <1>1, <1>3, <1>4
<1> QED
  BY <1>7, <1>8 DEF Val

LEMMA ReadsFour ==
  ASSUME NEW f, NEW a \in Nat, NEW v \in 0..Base^4 - 1, Holds(f, a, 4, v)
  PROVE  Val(f, a, 4) = v
<1>1. /\ Base \in Nat \ {0} /\ Base^0 = 1 /\ Base^1 = Base /\ Base^2 = Base * Base
      /\ Base^3 = Base * (Base * Base) /\ Base^4 = Base * (Base * (Base * Base))
  BY PowersOfBase
<1>2. v \in Nat /\ v < Base * (Base * (Base * Base)) /\ Base * Base \in Nat \ {0}
      /\ Base * (Base * Base) \in Nat \ {0}
  BY <1>1, ProductIsNat
<1> DEFINE q1 == v \div Base
           r1 == v % Base
           q2 == q1 \div Base
           r2 == q1 % Base
           q3 == q2 \div Base
           r3 == q2 % Base
<1>3. /\ r1 \in 0..Base - 1 /\ v = Base * q1 + r1
      /\ q1 \in Nat /\ q1 < Base * (Base * Base)
  <2> DEFINE p == Base * (Base * Base)
  <2>1. p \in Nat \ {0} /\ v \in Nat /\ v < Base * p
    BY <1>2
  <2> HIDE DEF p
  <2>2. q1 \in 0..p - 1
    BY <1>1, <2>1, QuotientBelow
  <2>3. r1 \in 0..Base - 1 /\ v = Base * q1 + r1 /\ q1 \in Nat
    BY <1>1, <2>1, DivSplit
  <2>4. q1 < p
    BY <2>1, <2>2
  <2> QED
    BY <2>3, <2>4 DEF p
<1>4. r2 \in 0..Base - 1 /\ q1 = Base * q2 + r2 /\ q2 \in Nat /\ q2 < Base * Base
  <2> DEFINE p == Base * Base
             v1 == v \div Base
  <2>1. p \in Nat \ {0} /\ v1 \in Nat /\ v1 < Base * p
    BY <1>2, <1>3
  <2> HIDE DEF p, v1
  <2>2. v1 \div Base \in 0..p - 1
    BY <1>1, <2>1, QuotientBelow
  <2>3. /\ v1 % Base \in 0..Base - 1 /\ v1 = Base * (v1 \div Base) + (v1 % Base)
        /\ v1 \div Base \in Nat
    BY <1>1, <2>1, DivSplit
  <2>4. v1 \div Base < p
    BY <2>1, <2>2
  <2> QED
    BY <2>3, <2>4 DEF p, v1
<1>5. r3 \in 0..Base - 1 /\ q2 = Base * q3 + r3 /\ q3 \in 0..Base - 1
  BY <1>1, <1>4, DivSplit, QuotientBelow
<1>6. v \div (Base * Base) = q2
  BY <1>1, <1>2, DivDiv
<1>7. v \div (Base * (Base * Base)) = q3
  <2>1. v \div (Base * (Base * Base)) = (v \div (Base * Base)) \div Base
    BY <1>1, <1>2, DivDiv
  <2> QED
    BY <1>6, <2>1
<1>8. /\ LE(4, v)[1] = (v \div Base^0) % Base /\ LE(4, v)[2] = (v \div Base^1) % Base
      /\ LE(4, v)[3] = (v \div Base^2) % Base /\ LE(4, v)[4] = (v \div Base^3) % Base
  <2>1. /\ LE(4, v)[1] = (v \div Base^(1 - 1)) % Base
        /\ LE(4, v)[2] = (v \div Base^(2 - 1)) % Base
        /\ LE(4, v)[3] = (v \div Base^(3 - 1)) % Base
        /\ LE(4, v)[4] = (v \div Base^(4 - 1)) % Base
    BY LEIs
  <2> QED
    BY <2>1, 1 - 1 = 0, 2 - 1 = 1, 3 - 1 = 2, 4 - 1 = 3
<1>9. v \div 1 = v /\ q3 % Base = q3
  <2>1. v \div 1 = v
    BY <1>2
  <2> HIDE DEF q3
  <2>2. q3 % Base = q3
    BY <1>1, <1>5, ModSmall
  <2> QED
    BY <2>1, <2>2
<1>10. /\ LE(4, v)[1] = r1 /\ LE(4, v)[2] = r2 /\ LE(4, v)[3] = r3 /\ LE(4, v)[4] = q3
  BY <1>1, <1>6, <1>7, <1>8, <1>9
<1>11. f[a + 1] = r1 /\ f[a + 2] = r2 /\ f[a + 3] = r3 /\ f[a + 4] = q3
  BY <1>10 DEF Holds
<1> HIDE DEF q1, r1, q2, r2, q3, r3
<1>12. r1 + Base * (r2 + Base * (r3 + Base * q3)) = v
  <2>1. r3 + Base * q3 = q2
    BY <1>1, <1>5
  <2>2. r2 + Base * q2 = q1
    BY <1>1, <1>4
  <2>3. r1 + Base * q1 = v
    BY <1>1, <1>3
  <2> QED
    BY <2>1, <2>2, <2>3
<1> QED
  BY <1>11, <1>12 DEF Val
(* The writes of the bypass header: which they are, that each has a width  *)
(* and a register that can be read back, and that none of those by which   *)
(* the ROM is set up is made twice.                                        *)
IsBypass(w, flash, delay) ==
  /\ IsSeq(w) /\ Len(w) = 14 + delay
  /\ w[1] = <<28, 2, DataLen % Base^2>> /\ w[2] = <<30, 1, DataLen \div Base^2>>
  /\ w[10] = <<43, 2, flash % Base^2>> /\ w[11] = <<45, 1, flash \div Base^2>>
  /\ w[12] = <<46, 1, 13>> /\ w[14 + delay] = <<2, 1, 1>>
  /\ \A k \in 1..14 + delay :
       /\ w[k][1] \in 0..192 /\ w[k][2] \in {1, 2, 4}
       /\ k # 1 => w[k][1] # 28
       /\ k # 2 => w[k][1] # 30
       /\ k # 10 => w[k][1] # 43
       /\ k # 11 => w[k][1] # 45
       /\ k # 12 => w[k][1] # 46
       /\ k # 14 + delay => w[k][1] # 2

LEMMA BypassWritesAre ==
  ASSUME NEW flash, NEW delay \in Nat
  PROVE  IsBypass(BypassWrites(flash, delay), flash, delay)
<1> DEFINE a == << <<28, 2, DataLen % Base^2>>, <<30, 1, DataLen \div Base^2>>,
                   <<32, 1, 1>>, <<33, 1, 3>>, <<34, 1, 3>>, <<35, 1, 0>>, <<36, 1, 1>>,
                   <<38, 2, 0>>, <<40, 1, 0>>,
                   <<43, 2, flash % Base^2>>, <<45, 1, flash \div Base^2>>, <<46, 1, 13>> >>
           b == [k \in 1..delay |-> <<192, 4, Base>>]
           c == << <<0, 1, 3>>, <<2, 1, 1>> >>
           w == BypassWrites(flash, delay)
<1>1. w = (a \o b) \o c
  BY DEF BypassWrites
<1>2. IsSeq(a) /\ Len(a) = 12
  <2>1. Len(a) = 12 /\ a = [k \in 1..12 |-> a[k]]
    OBVIOUS
  <2> HIDE DEF a
  <2> QED
    BY <2>1, FunctionIs
<1>3. IsSeq(b) /\ Len(b) = delay /\ \A k \in 1..delay : b[k] = <<192, 4, Base>>
  <2>1. b = [k \in 1..delay |-> b[k]] /\ \A k \in 1..delay : b[k] = <<192, 4, Base>>
    OBVIOUS
  <2> HIDE DEF b
  <2> QED
    BY <2>1, FunctionIs
<1>4. IsSeq(c) /\ Len(c) = 2
  <2>1. Len(c) = 2 /\ c = [k \in 1..2 |-> c[k]]
    OBVIOUS
  <2> HIDE DEF c
  <2> QED
    BY <2>1, FunctionIs
<1>5. /\ a[1] = <<28, 2, DataLen % Base^2>> /\ a[2] = <<30, 1, DataLen \div Base^2>>
      /\ a[3] = <<32, 1, 1>> /\ a[4] = <<33, 1, 3>> /\ a[5] = <<34, 1, 3>>
      /\ a[6] = <<35, 1, 0>> /\ a[7] = <<36, 1, 1>> /\ a[8] = <<38, 2, 0>>
      /\ a[9] = <<40, 1, 0>> /\ a[10] = <<43, 2, flash % Base^2>>
      /\ a[11] = <<45, 1, flash \div Base^2>> /\ a[12] = <<46, 1, 13>>
      /\ c[1] = <<0, 1, 3>> /\ c[2] = <<2, 1, 1>>
  OBVIOUS
<1> HIDE DEF a, b, c, w
<1>6. /\ IsSeq(a \o b) /\ Len(a \o b) = 12 + delay
      /\ \A i \in 1..12 : (a \o b)[i] = a[i]
      /\ \A i \in 1..delay : (a \o b)[12 + i] = b[i]
  <2>1. /\ IsSeq(a \o b) /\ Len(a \o b) = Len(a) + Len(b)
        /\ \A i \in 1..Len(a) : (a \o b)[i] = a[i]
        /\ \A i \in 1..Len(b) : (a \o b)[Len(a) + i] = b[i]
    <3>1. IsSeq(a) /\ IsSeq(b)
      BY <1>2, <1>3
    <3> QED
      BY <3>1, JoinAt
  <2> QED
    BY <1>2, <1>3, <2>1
<1>7. /\ IsSeq(w) /\ Len(w) = 12 + delay + 2
      /\ \A i \in 1..12 + delay : w[i] = (a \o b)[i]
      /\ \A i \in 1..2 : w[12 + delay + i] = c[i]
  <2> DEFINE m == 12 + delay
             e == a \o b
  <2>1. m \in Nat /\ Len(e) = m /\ IsSeq(e) /\ w = e \o c
    BY <1>1, <1>6
  <2> HIDE DEF m, e
  <2>2. /\ IsSeq(w) /\ Len(w) = m + 2
        /\ \A i \in 1..m : w[i] = e[i]
        /\ \A i \in 1..2 : w[m + i] = c[i]
    <3>1. /\ IsSeq(e \o c) /\ Len(e \o c) = Len(e) + Len(c)
          /\ \A i \in 1..Len(e) : (e \o c)[i] = e[i]
          /\ \A i \in 1..Len(c) : (e \o c)[Len(e) + i] = c[i]
      <4>1. IsSeq(e) /\ IsSeq(c)
        BY <1>4, <2>1
      <4> QED
        BY <4>1, JoinAt
    <3> QED
      BY <1>4, <2>1, <3>1
  <2> QED
    BY <2>2 DEF m, e
<1>8. /\ IsSeq(w) /\ Len(w) = 14 + delay
      /\ \A i \in 1..12 : w[i] = a[i]
      /\ \A i \in 13..12 + delay : w[i] = <<192, 4, Base>>
      /\ w[13 + delay] = c[1] /\ w[14 + delay] = c[2]
  <2>1. ASSUME NEW i \in 1..12 PROVE w[i] = a[i]
    <3>1. i \in 1..12 + delay
      OBVIOUS
    <3> QED
      BY <1>6, <1>7, <3>1
  <2>2. ASSUME NEW i \in 13..12 + delay PROVE w[i] = <<192, 4, Base>>
    <3> DEFINE j == i - 12
    <3>1. j \in 1..delay /\ 12 + j = i /\ i \in 1..12 + delay
      OBVIOUS
    <3> HIDE DEF j
    <3> QED
      BY <1>3, <1>6, <1>7, <3>1, ZenonT(30)
  <2>3. w[13 + delay] = c[1] /\ w[14 + delay] = c[2]
    <3>1. 12 + delay + 1 = 13 + delay /\ 12 + delay + 2 = 14 + delay
      OBVIOUS
    <3>2. w[12 + delay + 1] = c[1] /\ w[12 + delay + 2] = c[2]
      BY <1>7
    <3> QED
      BY <3>1, <3>2
  <2>4. 12 + delay + 2 = 14 + delay
    OBVIOUS
  <2> QED
    BY <1>7, <2>1, <2>2, <2>3, <2>4
<1>9. ASSUME NEW k \in 1..14 + delay
      PROVE  /\ w[k][1] \in 0..192 /\ w[k][2] \in {1, 2, 4}
             /\ k # 1 => w[k][1] # 28
             /\ k # 2 => w[k][1] # 30
             /\ k # 10 => w[k][1] # 43
             /\ k # 11 => w[k][1] # 45
             /\ k # 12 => w[k][1] # 46
             /\ k # 14 + delay => w[k][1] # 2
  <2> DEFINE Fine(t, j) == /\ t[1] \in 0..192 /\ t[2] \in {1, 2, 4}
                           /\ j # 1 => t[1] # 28
                           /\ j # 2 => t[1] # 30
                           /\ j # 10 => t[1] # 43
                           /\ j # 11 => t[1] # 45
                           /\ j # 12 => t[1] # 46
                           /\ j # 14 + delay => t[1] # 2
  <2>1. \A i \in 1..12 : Fine(a[i], i)
    <3>1. Fine(a[1], 1) /\ Fine(a[2], 2) /\ Fine(a[3], 3) /\ Fine(a[4], 4)
      BY <1>5
    <3>2. Fine(a[5], 5) /\ Fine(a[6], 6) /\ Fine(a[7], 7) /\ Fine(a[8], 8)
      BY <1>5
    <3>3. Fine(a[9], 9) /\ Fine(a[10], 10) /\ Fine(a[11], 11) /\ Fine(a[12], 12)
      BY <1>5
    <3> HIDE DEF Fine
    <3> TAKE i \in 1..12
    <3>4. \/ i = 1 \/ i = 2 \/ i = 3 \/ i = 4 \/ i = 5 \/ i = 6
          \/ i = 7 \/ i = 8 \/ i = 9 \/ i = 10 \/ i = 11 \/ i = 12
      OBVIOUS
    <3> QED
      BY <3>1, <3>2, <3>3, <3>4
  <2>2. CASE k \in 1..12
    <3> HIDE DEF Fine
    <3>1. Fine(w[k], k)
      BY <1>8, <2>1, <2>2
    <3> QED
      BY <3>1 DEF Fine
  <2>3. CASE k \in 13..12 + delay
    <3>1. w[k] = <<192, 4, Base>>
      BY <1>8, <2>3
    <3>2. w[k][1] = 192 /\ w[k][2] = 4
      BY <3>1
    <3>3. k # 14 + delay
      BY ONLY <2>3, delay \in Nat
    <3> QED
      BY ONLY <3>2, <3>3
  <2>4. CASE k = 13 + delay
    BY <1>5, <1>8, <2>4, SMTT(30)
  <2>5. CASE k = 14 + delay
    BY <1>5, <1>8, <2>5, SMTT(30)
  <2> QED
    BY <2>2, <2>3, <2>4, <2>5
<1>10. /\ w[1] = <<28, 2, DataLen % Base^2>> /\ w[2] = <<30, 1, DataLen \div Base^2>>
       /\ w[10] = <<43, 2, flash % Base^2>> /\ w[11] = <<45, 1, flash \div Base^2>>
       /\ w[12] = <<46, 1, 13>> /\ w[14 + delay] = <<2, 1, 1>>
  BY <1>5, <1>8, SMTT(30)
<1> QED
  BY <1>8, <1>9, <1>10 DEF IsBypass, w

LEMMA ConfigWordIs ==
  ASSUME NEW w
  PROVE  /\ IsSeq(ConfigWord(w)) /\ Len(ConfigWord(w)) = 8
         /\ ConfigWord(w)[1] = CC /\ ConfigWord(w)[2] = w[2]
         /\ Holds(ConfigWord(w), 2, 2, w[1]) /\ Holds(ConfigWord(w), 4, 4, w[3])
<1> DEFINE a == <<CC, w[2]>>
           b == LE(2, w[1])
           c == LE(4, w[3])
           d == ConfigWord(w)
<1>1. IsSeq(a) /\ Len(a) = 2 /\ a[1] = CC /\ a[2] = w[2]
  <2>1. Len(a) = 2 /\ a = [k \in 1..2 |-> a[k]] /\ a[1] = CC /\ a[2] = w[2]
    OBVIOUS
  <2> HIDE DEF a
  <2> QED
    BY <2>1, FunctionIs
<1>2. IsSeq(b) /\ Len(b) = 2 /\ IsSeq(c) /\ Len(c) = 4
  BY LEIs
<1>3. d = (a \o b) \o c
  BY DEF ConfigWord
<1> HIDE DEF a, b, c, d
<1>4. /\ IsSeq(a \o b) /\ Len(a \o b) = 2 + 2
      /\ \A i \in 1..2 : (a \o b)[i] = a[i]
      /\ \A i \in 1..2 : (a \o b)[2 + i] = b[i]
  <2>1. /\ IsSeq(a \o b) /\ Len(a \o b) = Len(a) + Len(b)
        /\ \A i \in 1..Len(a) : (a \o b)[i] = a[i]
        /\ \A i \in 1..Len(b) : (a \o b)[Len(a) + i] = b[i]
    <3>1. IsSeq(a) /\ IsSeq(b)
      BY <1>1, <1>2
    <3> QED
      BY <3>1, JoinAt
  <2> QED
    BY <1>1, <1>2, <2>1
<1>5. /\ IsSeq(d) /\ Len(d) = 4 + 4
      /\ \A i \in 1..4 : d[i] = (a \o b)[i]
      /\ \A i \in 1..4 : d[4 + i] = c[i]
  <2> DEFINE e == a \o b
  <2>1. IsSeq(e) /\ Len(e) = 4 /\ d = e \o c
    BY <1>3, <1>4
  <2> HIDE DEF e
  <2>2. /\ IsSeq(e \o c) /\ Len(e \o c) = Len(e) + Len(c)
        /\ \A i \in 1..Len(e) : (e \o c)[i] = e[i]
        /\ \A i \in 1..Len(c) : (e \o c)[Len(e) + i] = c[i]
    <3>1. IsSeq(e) /\ IsSeq(c)
      BY <1>2, <2>1
    <3> QED
      BY <3>1, JoinAt
  <2>3. /\ IsSeq(d) /\ Len(d) = 4 + 4
        /\ \A i \in 1..4 : d[i] = e[i]
        /\ \A i \in 1..4 : d[4 + i] = c[i]
    BY <1>2, <2>1, <2>2
  <2> QED
    BY <2>3 DEF e
<1>6. d[1] = CC /\ d[2] = w[2]
  BY <1>1, <1>4, <1>5
<1>7. \A k \in 1..2 : d[2 + k] = b[k]
  <2> TAKE k \in 1..2
  <2>1. 2 + k \in 1..4
    OBVIOUS
  <2> QED
    BY <1>4, <1>5, <2>1
<1> QED
  BY <1>5, <1>6, <1>7 DEF Holds, b, c, d
LEMMA ConfigDataIs ==
  ASSUME NEW w, IsSeq(w)
  PROVE  LET d == FlattenSeq([k \in DOMAIN w |-> ConfigWord(w[k])])
         IN  /\ IsSeq(d) /\ Len(d) = 8 * Len(w)
             /\ \A k \in 1..Len(w) : \A j \in 1..8 :
                  d[8 * (k - 1) + j] = ConfigWord(w[k])[j]
<1> DEFINE n == Len(w)
           C(k) == ConfigWord(w[k])
           s == [k \in DOMAIN w |-> C(k)]
           S == UNION {Range(C(k)) : k \in 1..n}
           p == [k \in 0..n |-> 8 * k]
<1>1. n \in Nat /\ DOMAIN w = 1..n
  BY DEF IsSeq
<1>2. \A k \in 1..n : IsSeq(C(k)) /\ Len(C(k)) = 8
  BY ConfigWordIs
<1> HIDE DEF n, C
<1>3. \A k \in 1..n : C(k) \in Seq(S)
  <2> TAKE k \in 1..n
  <2>1. C(k) \in Seq(Range(C(k)))
    BY <1>2 DEF IsSeq
  <2>2. Range(C(k)) \subseteq S
    OBVIOUS
  <2> HIDE DEF S
  <2> QED
    BY <2>1, <2>2, SeqMonotonic
<1> HIDE DEF S
<1>4. s \in Seq(Seq(S)) /\ Len(s) = n /\ \A k \in 1..n : s[k] = C(k)
  BY <1>1, <1>3
<1>5. /\ p \in [0..n -> Nat] /\ p[0] = 0 /\ p[n] = 8 * n
      /\ \A k \in 1..n : p[k] = p[k - 1] + 8 /\ p[k - 1] = 8 * (k - 1)
  BY <1>1
<1> HIDE DEF p, s
<1>6. \A k \in 1..n : Len(s[k]) = 8
  BY <1>2, <1>4
<1>7. /\ FlattenSeq(s) \in Seq(S) /\ Len(FlattenSeq(s)) = p[n]
      /\ \A k \in 1..n : \A j \in 1..8 : FlattenSeq(s)[p[k - 1] + j] = s[k][j]
  <2>1. \A k \in 1..Len(s) : p[k] = p[k - 1] + Len(s[k])
    BY <1>4, <1>5, <1>6
  <2>2. p \in [0..Len(s) -> Nat]
    BY <1>4, <1>5
  <2>3. /\ FlattenSeq(s) \in Seq(S) /\ Len(FlattenSeq(s)) = p[Len(s)]
        /\ \A k \in 1..Len(s) : \A j \in 1..Len(s[k]) :
             p[k - 1] + j <= p[Len(s)] /\ FlattenSeq(s)[p[k - 1] + j] = s[k][j]
    BY <1>4, <1>5, <2>1, <2>2, FlatPlaces
  <2> QED
    BY <1>4, <1>6, <2>3
<1>8. IsSeq(FlattenSeq(s))
  BY <1>7, SeqIs
<1>9. \A k \in 1..n : \A j \in 1..8 : FlattenSeq(s)[8 * (k - 1) + j] = C(k)[j]
  BY <1>4, <1>5, <1>7
<1> QED
  BY <1>5, <1>7, <1>8, <1>9 DEF n, C, s

(* The header, part by part: its config words, and what is before them.    *)
PadOf(chip)   == IF LenSize(CHIP_INFO[chip]) = 4 THEN Zeros(16) ELSE <<>>
FixedOf(chip) == HeadSize + Len(PadOf(chip))
DelayOf(chip) == (DelayTo - (FixedOf(chip) + 8 * 14)) \div 8
WritesOf(chip, bypass) ==
  IF chip = "ASM3242" /\ bypass
    THEN BypassWrites(FlashAddr(FixedOf(chip), DelayOf(chip)), DelayOf(chip)) ELSE <<>>
DataOf(chip, bypass) ==
  LET writes == WritesOf(chip, bypass)
  IN  PadOf(chip) \o FlattenSeq([k \in DOMAIN writes |-> ConfigWord(writes[k])])
HeadOf(chip, bypass) ==
  LE(2, 0) \o LE(2, 1) \o LE(2, HeadSize + Len(DataOf(chip, bypass)))
    \o <<CHIP_INFO[chip]>> \o DataOf(chip, bypass)

LEMMA HeaderIs ==
  ASSUME NEW chip, NEW bypass
  PROVE  gen_header(chip, bypass) = HeadOf(chip, bypass) \o Sealed(HeadOf(chip, bypass))
  BY DEF gen_header, HeadOf, DataOf, WritesOf, DelayOf, FixedOf, PadOf

LEMMA ChipsAre ==
  ASSUME NEW chip \in DOMAIN CHIP_INFO
  PROVE  /\ CHIP_INFO[chip] \in {1, 2, 3, 4, 5}
         /\ LenSize(CHIP_INFO[chip]) \in {2, 4}
         /\ CHIP_INFO[chip] = 5 <=> chip = "ASM3242"
         /\ CHIP_INFO[chip] = 5 => LenSize(CHIP_INFO[chip]) = 4
<1>1. /\ DOMAIN CHIP_INFO = {"ASM1042", "ASM1042A", "ASM1142", "ASM2142", "ASM3242"}
      /\ CHIP_INFO["ASM1042"] = 1 /\ CHIP_INFO["ASM1042A"] = 2 /\ CHIP_INFO["ASM1142"] = 3
      /\ CHIP_INFO["ASM2142"] = 4 /\ CHIP_INFO["ASM3242"] = 5
  BY DEF CHIP_INFO
<1> QED
  BY <1>1 DEF LenSize

LEMMA PadIs ==
  ASSUME NEW chip \in DOMAIN CHIP_INFO
  PROVE  /\ IsSeq(PadOf(chip)) /\ Len(PadOf(chip)) \in {0, 16}
         /\ chip = "ASM3242" => Len(PadOf(chip)) = 16
         /\ \A i \in 1..Len(PadOf(chip)) : PadOf(chip)[i] = 0
<1>1. IsSeq(<<>>) /\ Len(<<>>) = 0
  BY EmptySeq, SeqIs
<1>2. IsSeq(Zeros(16)) /\ Len(Zeros(16)) = 16 /\ \A i \in 1..16 : Zeros(16)[i] = 0
  <2>1. Zeros(16) = [k \in 1..16 |-> Zeros(16)[k]] /\ \A i \in 1..16 : Zeros(16)[i] = 0
    BY DEF Zeros
  <2> QED
    BY <2>1, FunctionIs
<1>3. CASE LenSize(CHIP_INFO[chip]) = 4
  <2>1. PadOf(chip) = Zeros(16)
    BY <1>3 DEF PadOf
  <2> QED
    BY <1>2, <2>1
<1>4. CASE LenSize(CHIP_INFO[chip]) # 4
  <2>1. PadOf(chip) = <<>> /\ chip # "ASM3242"
    BY <1>4, ChipsAre DEF PadOf
  <2> QED
    BY <1>1, <2>1
<1> QED
  BY <1>3, <1>4

(* The delay writes leave the header shorter than its field can tell.      *)
LEMMA DelayIs ==
  ASSUME NEW chip \in DOMAIN CHIP_INFO, chip = "ASM3242"
  PROVE  /\ FixedOf(chip) = 23 /\ DelayOf(chip) \in Nat
         /\ 23 + 8 * (14 + DelayOf(chip)) <= DelayTo
<1>1. FixedOf(chip) = 23
  <2> DEFINE m == Len(PadOf(chip))
  <2>1. m = 16 /\ FixedOf(chip) = 7 + m
    BY PadIs DEF FixedOf, HeadSize
  <2> HIDE DEF m
  <2> QED
    BY <2>1
<1>2. DelayTo \in Nat /\ DelayTo >= 135
  BY ImageAssumption, BypassAssumption DEF HeadSize
<1> DEFINE a == DelayTo - (23 + 8 * 14)
<1>3. a \in Nat /\ DelayOf(chip) = a \div 8
  BY <1>1, <1>2 DEF DelayOf
<1>4. a \div 8 \in Nat /\ a = 8 * (a \div 8) + (a % 8) /\ a % 8 \in 0..7
  <2> HIDE DEF a
  <2> QED
    BY <1>3, DivSplit
<1> DEFINE q == a \div 8
           r == a % 8
<1>5. q \in Nat /\ r \in 0..7 /\ DelayTo - 135 = 8 * q + r
  BY <1>4
<1> HIDE DEF q, r
<1>6. 23 + 8 * (14 + q) <= DelayTo
  BY <1>2, <1>5
<1> QED
  BY <1>1, <1>3, <1>5, <1>6 DEF q
LEMMA WritesAre ==
  ASSUME NEW chip \in DOMAIN CHIP_INFO, NEW bypass \in BOOLEAN
  PROVE  /\ IsSeq(WritesOf(chip, bypass)) /\ Len(WritesOf(chip, bypass)) \in Nat
         /\ ~ (chip = "ASM3242" /\ bypass) => Len(WritesOf(chip, bypass)) = 0
         /\ chip = "ASM3242" /\ bypass =>
              IsBypass(WritesOf(chip, bypass), FlashAddr(23, DelayOf(chip)), DelayOf(chip))
         /\ FixedOf(chip) + 8 * Len(WritesOf(chip, bypass)) \in 7..Base^2 - 1
<1> DEFINE w == WritesOf(chip, bypass)
<1>1. DelayTo \in Nat /\ DelayTo >= 135 /\ DelayTo < Base^2 /\ Base^2 \in Nat
  BY ImageAssumption, BypassAssumption, PowersOfBase DEF HeadSize
<1>2. CASE chip = "ASM3242" /\ bypass
  <2>1. FixedOf(chip) = 23 /\ DelayOf(chip) \in Nat /\ 23 + 8 * (14 + DelayOf(chip)) <= DelayTo
    BY <1>2, DelayIs
  <2>2. w = BypassWrites(FlashAddr(23, DelayOf(chip)), DelayOf(chip))
    BY <1>2, <2>1 DEF WritesOf
  <2>3. IsBypass(w, FlashAddr(23, DelayOf(chip)), DelayOf(chip))
    BY <2>1, <2>2, BypassWritesAre
  <2> HIDE DEF w
  <2>4. IsSeq(w) /\ Len(w) = 14 + DelayOf(chip)
    BY <2>3 DEF IsBypass
  <2>5. FixedOf(chip) + 8 * Len(w) \in 7..Base^2 - 1
    BY <1>1, <2>1, <2>4
  <2>6. Len(w) \in Nat
    BY <2>1, <2>4
  <2> QED
    BY <1>2, <2>3, <2>4, <2>5, <2>6 DEF w
<1>3. CASE ~ (chip = "ASM3242" /\ bypass)
  <2>1. w = <<>>
    BY <1>3 DEF WritesOf
  <2>2. IsSeq(<<>>) /\ Len(<<>>) = 0
    BY EmptySeq, SeqIs
  <2> DEFINE m == Len(PadOf(chip))
  <2>3. m \in {0, 16} /\ FixedOf(chip) = 7 + m
    BY PadIs DEF FixedOf, HeadSize
  <2> HIDE DEF m
  <2>4. FixedOf(chip) \in 7..23
    BY <2>3
  <2> HIDE DEF w
  <2>5. IsSeq(w) /\ Len(w) = 0
    BY <2>1, <2>2
  <2>6. FixedOf(chip) + 8 * Len(w) \in 7..Base^2 - 1
    BY <1>1, <2>4, <2>5, SMTT(30)
  <2> QED
    BY <1>3, <2>5, <2>6 DEF w
<1> QED
  BY <1>2, <1>3

LEMMA DataIs ==
  ASSUME NEW chip \in DOMAIN CHIP_INFO, NEW bypass \in BOOLEAN
  PROVE  LET pad  == Len(PadOf(chip))
             w    == WritesOf(chip, bypass)
             data == DataOf(chip, bypass)
         IN  /\ IsSeq(data) /\ Len(data) = pad + 8 * Len(w)
             /\ \A i \in 1..pad : data[i] = 0
             /\ \A k \in 1..Len(w) : \A j \in 1..8 :
                  data[pad + (8 * (k - 1) + j)] = ConfigWord(w[k])[j]
<1> DEFINE c == PadOf(chip)
           w == WritesOf(chip, bypass)
           d == FlattenSeq([k \in DOMAIN w |-> ConfigWord(w[k])])
           e == c \o d
<1>1. IsSeq(c) /\ Len(c) \in {0, 16} /\ \A i \in 1..Len(c) : c[i] = 0
  BY PadIs
<1>2. IsSeq(w) /\ Len(w) \in Nat
  BY WritesAre
<1>3. e = DataOf(chip, bypass)
  BY DEF DataOf
<1> HIDE DEF w
<1>4. /\ IsSeq(d) /\ Len(d) = 8 * Len(w)
      /\ \A k \in 1..Len(w) : \A j \in 1..8 : d[8 * (k - 1) + j] = ConfigWord(w[k])[j]
  BY <1>2, ConfigDataIs
<1> HIDE DEF c, d
<1>5. /\ IsSeq(e) /\ Len(e) = Len(c) + Len(d)
      /\ \A i \in 1..Len(c) : e[i] = c[i]
      /\ \A i \in 1..Len(d) : e[Len(c) + i] = d[i]
  <2>1. IsSeq(c) /\ IsSeq(d)
    BY <1>1, <1>4
  <2> QED
    BY <2>1, JoinAt
<1> HIDE DEF e
<1>6. \A i \in 1..Len(c) : e[i] = 0
  BY <1>1, <1>5
<1>7. ASSUME NEW k \in 1..Len(w), NEW j \in 1..8
      PROVE  e[Len(c) + (8 * (k - 1) + j)] = ConfigWord(w[k])[j]
  <2> DEFINE i == 8 * (k - 1) + j
  <2>1. i \in 1..Len(d)
    BY <1>2, <1>4
  <2>2. d[i] = ConfigWord(w[k])[j]
    BY <1>4
  <2> HIDE DEF i
  <2>3. e[Len(c) + i] = d[i]
    BY <1>5, <2>1
  <2> QED
    BY <2>2, <2>3 DEF i
<1>8. Len(e) = Len(c) + 8 * Len(w)
  BY <1>4, <1>5
<1> QED
  BY <1>3, <1>5, <1>6, <1>7, <1>8 DEF c, w

LEMMA HeadIs ==
  ASSUME NEW chip \in DOMAIN CHIP_INFO, NEW bypass \in BOOLEAN
  PROVE  LET head == HeadOf(chip, bypass)
             data == DataOf(chip, bypass)
         IN  /\ IsSeq(head) /\ Len(head) = 7 + Len(data) /\ Len(data) \in Nat
             /\ Len(head) \in 7..Base^2 - 1 /\ (Len(head) - 7) % 8 = 0
             /\ (Len(head) - 7) \div 8 \in Nat
             /\ head[1] = 0 /\ head[7] = CHIP_INFO[chip]
             /\ Holds(head, 4, 2, Len(head))
             /\ \A i \in 1..Len(data) : head[7 + i] = data[i]
<1> DEFINE pad == Len(PadOf(chip))
           w == WritesOf(chip, bypass)
           d == DataOf(chip, bypass)
           n == HeadSize + Len(d)
           p == LE(2, 0)
           q == LE(2, 1)
           r == LE(2, n)
           s == <<CHIP_INFO[chip]>>
           h == HeadOf(chip, bypass)
<1>1. IsSeq(d) /\ Len(d) = pad + 8 * Len(w)
  BY DataIs
<1>2. Len(w) \in Nat /\ FixedOf(chip) + 8 * Len(w) \in 7..Base^2 - 1
  BY WritesAre
<1>3. pad \in {0, 16} /\ FixedOf(chip) = 7 + pad
  BY PadIs DEF FixedOf, HeadSize
<1>4. h = (((p \o q) \o r) \o s) \o d
  BY DEF HeadOf
<1>5. /\ IsSeq(p) /\ Len(p) = 2 /\ IsSeq(q) /\ Len(q) = 2 /\ IsSeq(r) /\ Len(r) = 2
      /\ p[1] = 0
  <2>1. p[1] = (0 \div Base^(1 - 1)) % Base /\ 1 - 1 = 0
    BY LEIs
  <2>2. Base \in Nat \ {0} /\ Base^0 = 1
    BY PowersOfBase
  <2>3. 0 \div 1 = 0 /\ 0 % Base = 0
    BY <2>2, ModSmall
  <2> QED
    BY <2>1, <2>2, <2>3, LEIs
<1>6. IsSeq(s) /\ Len(s) = 1 /\ s[1] = CHIP_INFO[chip]
  <2>1. Len(s) = 1 /\ s = [k \in 1..1 |-> s[k]] /\ s[1] = CHIP_INFO[chip]
    OBVIOUS
  <2> HIDE DEF s
  <2> QED
    BY <2>1, FunctionIs
<1> DEFINE t == p \o q
           u == t \o r
           v == u \o s
<1> HIDE DEF p, q, r, s, d, w, pad
<1>7. /\ IsSeq(t) /\ Len(t) = Len(p) + Len(q)
      /\ \A i \in 1..Len(p) : t[i] = p[i]
  <2>1. IsSeq(p) /\ IsSeq(q)
    BY <1>5
  <2> QED
    BY <2>1, JoinAt
<1> HIDE DEF t
<1>8. /\ IsSeq(u) /\ Len(u) = Len(t) + Len(r)
      /\ \A i \in 1..Len(t) : u[i] = t[i]
      /\ \A i \in 1..Len(r) : u[Len(t) + i] = r[i]
  <2>1. IsSeq(t) /\ IsSeq(r)
    BY <1>5, <1>7
  <2> QED
    BY <2>1, JoinAt
<1> HIDE DEF u
<1>9. /\ IsSeq(v) /\ Len(v) = Len(u) + Len(s)
      /\ \A i \in 1..Len(u) : v[i] = u[i]
      /\ \A i \in 1..Len(s) : v[Len(u) + i] = s[i]
  <2>1. IsSeq(u) /\ IsSeq(s)
    BY <1>6, <1>8
  <2> QED
    BY <2>1, JoinAt
<1> HIDE DEF v
<1>10. /\ IsSeq(h) /\ Len(h) = Len(v) + Len(d)
       /\ \A i \in 1..Len(v) : h[i] = v[i]
       /\ \A i \in 1..Len(d) : h[Len(v) + i] = d[i]
  <2>1. IsSeq(v) /\ IsSeq(d)
    BY <1>1, <1>9
  <2>2. h = v \o d
    BY <1>4 DEF v, u, t
  <2> HIDE DEF h
  <2> QED
    BY <2>1, <2>2, JoinAt
<1> HIDE DEF h
<1>11. Len(t) = 4 /\ Len(u) = 6 /\ Len(v) = 7
  BY <1>5, <1>6, <1>7, <1>8, <1>9
<1>12. h[1] = 0
  BY <1>5, <1>7, <1>8, <1>9, <1>10, <1>11
<1>13. h[7] = CHIP_INFO[chip]
  <2>1. v[6 + 1] = s[1]
    BY <1>6, <1>9, <1>11
  <2>2. h[7] = v[7]
    BY <1>10, <1>11
  <2> QED
    BY <1>6, <2>1, <2>2
<1>14. \A k \in 1..2 : h[4 + k] = r[k]
  <2> TAKE k \in 1..2
  <2>1. u[4 + k] = r[k]
    BY <1>5, <1>8, <1>11
  <2>2. 4 + k \in 1..6 /\ 4 + k \in 1..7
    OBVIOUS
  <2>3. h[4 + k] = v[4 + k] /\ v[4 + k] = u[4 + k]
    BY <1>9, <1>10, <1>11, <2>2
  <2> QED
    BY <2>1, <2>3
<1>15. /\ Len(h) = 7 + Len(d) /\ Len(d) \in Nat /\ n = Len(h)
       /\ Len(h) \in 7..Base^2 - 1 /\ Len(h) - 7 = pad + 8 * Len(w)
  BY <1>1, <1>2, <1>3, <1>10, <1>11 DEF HeadSize
<1>16. (Len(h) - 7) % 8 = 0 /\ (Len(h) - 7) \div 8 \in Nat
  <2>1. PICK m \in Nat : Len(h) - 7 = 8 * m + 0
    <3>1. CASE pad = 0
      BY <1>2, <1>15, <3>1
    <3>2. CASE pad = 16
      <4>1. Len(w) + 2 \in Nat /\ Len(h) - 7 = 8 * (Len(w) + 2) + 0
        BY <1>2, <1>15, <3>2
      <4> QED
        BY <4>1
    <3> QED
      BY <1>3, <3>1, <3>2
  <2>2. 8 \in Nat \ {0} /\ 0 \in 0..8 - 1
    OBVIOUS
  <2>3. (8 * m + 0) % 8 = 0 /\ (8 * m + 0) \div 8 = m
    BY <2>2, DivUnique
  <2> QED
    BY <2>1, <2>3
<1>17. Holds(h, 4, 2, Len(h))
  BY <1>14, <1>15 DEF Holds, r
<1>18. \A i \in 1..Len(d) : h[7 + i] = d[i]
  BY <1>10, <1>11
<1> QED
  BY <1>10, <1>12, <1>13, <1>15, <1>16, <1>17, <1>18 DEF h, d
LEMMA SliceIs ==
  ASSUME NEW f, IsSeq(f), NEW a \in Nat, NEW b \in Nat, a <= b, b <= Len(f),
         NEW d, IsSeq(d), Len(d) = b - a, \A i \in 1..b - a : f[a + i] = d[i]
  PROVE  Slice(f, a, b) = d
<1> DEFINE g == SubSeq(f, a + 1, b)
<1>1. IsSeq(g) /\ Len(g) = b - a /\ \A i \in 1..b - a : g[i] = f[a + i]
  BY PartIs
<1> HIDE DEF g
<1>2. Len(g) = Len(d) /\ \A i \in 1..Len(g) : g[i] = d[i]
  BY <1>1
<1>3. g = d
  BY <1>1, <1>2, EqualIs
<1> QED
  BY <1>3 DEF g, Slice

LEMMA SealedIs ==
  ASSUME NEW d
  PROVE  IsSeq(Sealed(d)) /\ Len(Sealed(d)) = 5
<1> DEFINE a == <<checksum(d)>>
           b == LE(4, crc32(d))
<1>1. IsSeq(a) /\ Len(a) = 1
  <2>1. Len(a) = 1 /\ a = [k \in 1..1 |-> a[k]]
    OBVIOUS
  <2> HIDE DEF a
  <2> QED
    BY <2>1, FunctionIs
<1>2. IsSeq(b) /\ Len(b) = 4
  BY LEIs
<1>3. Sealed(d) = a \o b
  BY DEF Sealed
<1> HIDE DEF a, b
<1>4. IsSeq(a) /\ IsSeq(b)
  BY <1>1, <1>2
<1>5. IsSeq(a \o b) /\ Len(a \o b) = Len(a) + Len(b)
  BY <1>4, JoinAt
<1> QED
  BY <1>1, <1>2, <1>3, <1>5

(* The body: the length, the code, the magic, the checksums, and for an    *)
(* ASM3242 the null signature.                                             *)
BodyWidth(chip) == LenSize(CHIP_INFO[chip])
BodyLen(chip, code) ==
  BodyWidth(chip) + Len(code) + 6 + IF chip = "ASM3242" THEN 3 + SigSize ELSE 0

LEMMA BodyIs ==
  ASSUME NEW chip \in DOMAIN CHIP_INFO, NEW code \in Seq(Nat)
  PROVE  LET g == gen_body(chip, code)
             n == BodyWidth(chip)
             m == Len(code)
         IN  /\ IsSeq(g) /\ Len(g) = BodyLen(chip, code) /\ Len(g) \in Nat
             /\ Holds(g, 0, n, m)
             /\ \A i \in 1..m : g[n + i] = code[i]
             /\ \A i \in 1..5 : g[n + m + 1 + i] = Sealed(code)[i]
             /\ chip = "ASM3242" => g[n + m + 8] = 6
<1> DEFINE n == BodyWidth(chip)
           m == Len(code)
           a == LE(n, m)
           b == <<CHIP_INFO[chip]>>
           c == Sealed(code)
           null == <<0, 3 * 2, 0>> \o Zeros(SigSize)
           e == IF CHIP_INFO[chip] = 5 THEN null ELSE <<>>
           g == gen_body(chip, code)
<1>1. g = (((a \o code) \o b) \o c) \o e
  BY DEF gen_body, BodyWidth
<1>2. n \in {2, 4} /\ m \in Nat /\ IsSeq(code) /\ SigSize \in Nat
  BY ChipsAre, SeqIs, ImageAssumption DEF BodyWidth
<1>3. IsSeq(a) /\ Len(a) = n
  <2> HIDE DEF n, m
  <2> QED
    BY <1>2, LEIs
<1>4. IsSeq(b) /\ Len(b) = 1
  <2>1. Len(b) = 1 /\ b = [k \in 1..1 |-> b[k]]
    OBVIOUS
  <2> HIDE DEF b
  <2> QED
    BY <2>1, FunctionIs
<1>5. IsSeq(c) /\ Len(c) = 5
  BY SealedIs
<1>6. /\ IsSeq(e) /\ Len(e) = IF chip = "ASM3242" THEN 3 + SigSize ELSE 0
      /\ chip = "ASM3242" => e[2] = 6
  <2>1. CASE chip = "ASM3242"
    <3> DEFINE x == <<0, 3 * 2, 0>>
               y == Zeros(SigSize)
    <3>1. IsSeq(x) /\ Len(x) = 3 /\ x[2] = 6
      <4>1. Len(x) = 3 /\ x = [k \in 1..3 |-> x[k]] /\ x[2] = 6
        OBVIOUS
      <4> HIDE DEF x
      <4> QED
        BY <4>1, FunctionIs
    <3>2. IsSeq(y) /\ Len(y) = SigSize
      <4>1. y = [k \in 1..SigSize |-> y[k]]
        BY DEF Zeros
      <4> HIDE DEF y
      <4> QED
        BY <1>2, <4>1, FunctionIs
    <3>3. e = x \o y
      BY <2>1, ChipsAre
    <3> HIDE DEF x, y, e
    <3>4. /\ IsSeq(x \o y) /\ Len(x \o y) = Len(x) + Len(y)
          /\ \A i \in 1..Len(x) : (x \o y)[i] = x[i]
      <4>1. IsSeq(x) /\ IsSeq(y)
        BY <3>1, <3>2
      <4> QED
        BY <4>1, JoinAt
    <3> QED
      BY <1>2, <2>1, <3>1, <3>2, <3>3, <3>4
  <2>2. CASE chip # "ASM3242"
    <3>1. e = <<>>
      BY <2>2, ChipsAre
    <3> HIDE DEF e
    <3>2. IsSeq(<<>>) /\ Len(<<>>) = 0
      BY EmptySeq, SeqIs
    <3> QED
      BY <2>2, <3>1, <3>2
  <2> QED
    BY <2>1, <2>2
<1> DEFINE t == a \o code
           u == t \o b
           v == u \o c
<1> HIDE DEF n, m, a, b, c, e
<1>7. /\ IsSeq(t) /\ Len(t) = Len(a) + Len(code)
      /\ \A i \in 1..Len(a) : t[i] = a[i]
      /\ \A i \in 1..Len(code) : t[Len(a) + i] = code[i]
  <2>1. IsSeq(a) /\ IsSeq(code)
    BY <1>2, <1>3
  <2> QED
    BY <2>1, JoinAt
<1> HIDE DEF t
<1>8. /\ IsSeq(u) /\ Len(u) = Len(t) + Len(b)
      /\ \A i \in 1..Len(t) : u[i] = t[i]
  <2>1. IsSeq(t) /\ IsSeq(b)
    BY <1>4, <1>7
  <2> QED
    BY <2>1, JoinAt
<1> HIDE DEF u
<1>9. /\ IsSeq(v) /\ Len(v) = Len(u) + Len(c)
      /\ \A i \in 1..Len(u) : v[i] = u[i]
      /\ \A i \in 1..Len(c) : v[Len(u) + i] = c[i]
  <2>1. IsSeq(u) /\ IsSeq(c)
    BY <1>5, <1>8
  <2> QED
    BY <2>1, JoinAt
<1> HIDE DEF v
<1>10. /\ IsSeq(g) /\ Len(g) = Len(v) + Len(e)
       /\ \A i \in 1..Len(v) : g[i] = v[i]
       /\ \A i \in 1..Len(e) : g[Len(v) + i] = e[i]
  <2>1. IsSeq(v) /\ IsSeq(e)
    BY <1>6, <1>9
  <2>2. g = v \o e
    BY <1>1 DEF v, u, t
  <2> HIDE DEF g
  <2> QED
    BY <2>1, <2>2, JoinAt
<1> HIDE DEF g
<1>11. m = Len(code)
  BY DEF m
<1>12. Len(t) = n + m /\ Len(u) = n + m + 1 /\ Len(v) = n + m + 6
  BY <1>2, <1>3, <1>4, <1>5, <1>7, <1>8, <1>9, <1>11
<1>13. Len(g) = BodyLen(chip, code) /\ Len(g) \in Nat
  BY <1>2, <1>6, <1>10, <1>12 DEF BodyLen, n, m
<1>14. \A i \in 1..n + m : g[i] = t[i]
  <2> TAKE i \in 1..n + m
  <2>1. i \in 1..Len(t) /\ i \in 1..Len(u) /\ i \in 1..Len(v)
    BY <1>2, <1>12
  <2>2. g[i] = v[i] /\ v[i] = u[i] /\ u[i] = t[i]
    BY <1>8, <1>9, <1>10, <2>1
  <2> QED
    BY <2>2
<1>15. \A k \in 1..n : g[0 + k] = a[k]
  BY <1>2, <1>3, <1>7, <1>14
<1>16. \A i \in 1..m : g[n + i] = code[i]
  <2> TAKE i \in 1..m
  <2>1. t[n + i] = code[i]
    BY <1>3, <1>7, <1>11
  <2> DEFINE j == n + i
  <2>2. j \in 1..n + m
    BY <1>2
  <2> HIDE DEF j
  <2>3. g[j] = t[j]
    BY <1>14, <2>2
  <2> QED
    BY <2>1, <2>3 DEF j
<1>17. \A i \in 1..5 : g[n + m + 1 + i] = c[i]
  <2> TAKE i \in 1..5
  <2>1. v[Len(u) + i] = c[i]
    BY <1>5, <1>9
  <2> DEFINE j == Len(u) + i
  <2>2. j \in 1..Len(v) /\ j = n + m + 1 + i
    BY <1>2, <1>12
  <2> HIDE DEF j
  <2>3. g[j] = v[j]
    BY <1>10, <2>2
  <2> QED
    BY <2>1, <2>2, <2>3 DEF j
<1>18. ASSUME chip = "ASM3242" PROVE g[n + m + 8] = 6
  <2>1. 2 \in 1..Len(e) /\ e[2] = 6
    BY <1>2, <1>6, <1>18
  <2>2. g[Len(v) + 2] = 6
    BY <1>10, <2>1
  <2>3. Len(v) + 2 = n + m + 8
    BY <1>2, <1>12
  <2> QED
    BY <2>2, <2>3
<1> QED
  BY <1>10, <1>13, <1>15, <1>16, <1>17, <1>18 DEF Holds, n, m, a, c, g

(* The whole image: where each part is.                                    *)
Made(chip, bypass, code) == gen_header(chip, bypass) \o gen_body(chip, code)

LEMMA ImageIs ==
  ASSUME NEW chip \in DOMAIN CHIP_INFO, NEW bypass \in BOOLEAN, NEW code \in Seq(Nat)
  PROVE  LET f == Made(chip, bypass, code)
             h == HeadOf(chip, bypass)
             g == gen_body(chip, code)
         IN  /\ IsSeq(f) /\ Len(f) = Len(h) + 5 + Len(g)
             /\ \A i \in 1..Len(h) : f[i] = h[i]
             /\ \A i \in 1..5 : f[Len(h) + i] = Sealed(h)[i]
             /\ \A i \in 1..Len(g) : f[Len(h) + 5 + i] = g[i]
<1> DEFINE f == Made(chip, bypass, code)
           h == HeadOf(chip, bypass)
           s == Sealed(h)
           g == gen_body(chip, code)
           t == h \o s
<1>1. IsSeq(h) /\ Len(h) \in Nat
  BY HeadIs
<1>2. IsSeq(s) /\ Len(s) = 5
  BY SealedIs
<1>3. IsSeq(g) /\ Len(g) \in Nat
  BY BodyIs
<1>4. f = t \o g
  BY HeaderIs DEF Made
<1> HIDE DEF f, h, s, g
<1>5. /\ IsSeq(t) /\ Len(t) = Len(h) + Len(s)
      /\ \A i \in 1..Len(h) : t[i] = h[i]
      /\ \A i \in 1..Len(s) : t[Len(h) + i] = s[i]
  <2>1. IsSeq(h) /\ IsSeq(s)
    BY <1>1, <1>2
  <2> QED
    BY <2>1, JoinAt
<1> HIDE DEF t
<1>6. /\ IsSeq(f) /\ Len(f) = Len(t) + Len(g)
      /\ \A i \in 1..Len(t) : f[i] = t[i]
      /\ \A i \in 1..Len(g) : f[Len(t) + i] = g[i]
  <2>1. IsSeq(t) /\ IsSeq(g)
    BY <1>3, <1>5
  <2> QED
    BY <1>4, <2>1, JoinAt
<1>7. Len(t) = Len(h) + 5
  BY <1>2, <1>5
<1>8. \A i \in 1..Len(h) : f[i] = h[i]
  BY <1>1, <1>5, <1>6, <1>7
<1>9. \A i \in 1..5 : f[Len(h) + i] = s[i]
  <2> TAKE i \in 1..5
  <2> DEFINE j == Len(h) + i
  <2>1. j \in 1..Len(t)
    BY <1>1, <1>7
  <2>2. t[j] = s[i]
    BY <1>2, <1>5
  <2> HIDE DEF j
  <2>3. f[j] = t[j]
    BY <1>6, <2>1
  <2> QED
    BY <2>2, <2>3 DEF j
<1> QED
  BY <1>6, <1>7, <1>8, <1>9 DEF f, h, s, g
(* What the parser finds in the header: its length, then the config words  *)
(* behind the padding, each where it was put.                              *)
LEMMA HeaderRead ==
  ASSUME NEW chip \in DOMAIN CHIP_INFO, NEW bypass \in BOOLEAN, NEW code \in Seq(Nat)
  PROVE  LET f    == Made(chip, bypass, code)
             w    == WritesOf(chip, bypass)
             pad  == Len(PadOf(chip))
         IN  /\ f[1] = 0 /\ f[7] = CHIP_INFO[chip]
             /\ HeaderLen(f) = Len(HeadOf(chip, bypass))
             /\ HeaderLen(f) = 7 + (pad + 8 * Len(w))
             /\ \A i \in 1..pad : f[7 + i] = 0
             /\ \A k \in 1..Len(w) : \A j \in 1..8 :
                  f[7 + (pad + (8 * (k - 1) + j))] = ConfigWord(w[k])[j]
<1> DEFINE f == Made(chip, bypass, code)
           h == HeadOf(chip, bypass)
           d == DataOf(chip, bypass)
           w == WritesOf(chip, bypass)
           pad == Len(PadOf(chip))
<1>1. \A i \in 1..Len(h) : f[i] = h[i]
  BY ImageIs
<1>2. /\ Len(h) = 7 + Len(d) /\ Len(d) \in Nat /\ Len(h) \in 7..Base^2 - 1
      /\ h[1] = 0 /\ h[7] = CHIP_INFO[chip] /\ Holds(h, 4, 2, Len(h))
      /\ \A i \in 1..Len(d) : h[7 + i] = d[i]
  BY HeadIs
<1>3. /\ Len(d) = pad + 8 * Len(w)
      /\ \A i \in 1..pad : d[i] = 0
      /\ \A k \in 1..Len(w) : \A j \in 1..8 :
           d[pad + (8 * (k - 1) + j)] = ConfigWord(w[k])[j]
  BY DataIs
<1>4. pad \in {0, 16} /\ Len(w) \in Nat
  BY PadIs, WritesAre
<1> HIDE DEF f, h, d, w, pad
<1>5. f[1] = 0 /\ f[7] = CHIP_INFO[chip]
  BY <1>1, <1>2
<1>6. HeaderLen(f) = Len(h)
  <2>1. Holds(f, 4, 2, Len(h))
    <3>1. \A k \in 1..2 : 4 + k \in 1..Len(h)
      BY <1>2
    <3> QED
      BY <1>1, <1>2, <3>1 DEF Holds
  <2>2. Len(h) \in 0..Base^2 - 1
    BY <1>2, PowersOfBase
  <2>3. Val(f, 4, 2) = Len(h)
    BY <2>1, <2>2, ReadsTwo
  <2> QED
    BY <2>3 DEF HeaderLen
<1>7. \A i \in 1..Len(d) : f[7 + i] = d[i]
  <2> TAKE i \in 1..Len(d)
  <2> DEFINE j == 7 + i
  <2>1. j \in 1..Len(h) /\ h[j] = d[i]
    BY <1>2
  <2> HIDE DEF j
  <2>2. f[j] = d[i]
    BY <1>1, <2>1
  <2> QED
    BY <2>2 DEF j
<1>8. \A i \in 1..pad : f[7 + i] = 0
  <2> TAKE i \in 1..pad
  <2>1. i \in 1..Len(d)
    BY <1>3, <1>4
  <2>2. f[7 + i] = d[i]
    BY <1>7, <2>1
  <2> QED
    BY <1>3, <2>2
<1>9. ASSUME NEW k \in 1..Len(w), NEW j \in 1..8
      PROVE  f[7 + (pad + (8 * (k - 1) + j))] = ConfigWord(w[k])[j]
  <2> DEFINE i == pad + (8 * (k - 1) + j)
  <2>1. i \in 1..Len(d)
    BY <1>3, <1>4
  <2>2. d[i] = ConfigWord(w[k])[j]
    BY <1>3
  <2> HIDE DEF i
  <2>3. f[7 + i] = d[i]
    BY <1>7, <2>1
  <2> QED
    BY <2>2, <2>3 DEF i
<1>10. Len(h) = 7 + (pad + 8 * Len(w))
  BY <1>2, <1>3
<1> QED
  BY <1>5, <1>6, <1>8, <1>9, <1>10 DEF f, h, w, pad

WordAt(chip, k) == 7 + (Len(PadOf(chip)) + 8 * (k - 1))

LEMMA ConfigWordsAre ==
  ASSUME NEW chip \in DOMAIN CHIP_INFO, NEW bypass \in BOOLEAN, NEW code \in Seq(Nat)
  PROVE  LET words == ConfigWords(Made(chip, bypass, code))
             w     == WritesOf(chip, bypass)
         IN  /\ IsSeq(words) /\ Len(words) = Len(w)
             /\ \A k \in 1..Len(w) : words[k] = WordAt(chip, k)
<1> DEFINE f == Made(chip, bypass, code)
           w == WritesOf(chip, bypass)
           pad == Len(PadOf(chip))
           z == IF pad = 0 THEN 0 ELSE 2
           n == z + Len(w)
           a(k) == HeadSize + 8 * (k - 1)
           s == [k \in 1..n |-> IF f[a(k) + 1] = CC THEN <<a(k)>> ELSE <<>>]
           p == [k \in 0..n |-> IF k <= z THEN 0 ELSE k - z]
<1>1. pad \in {0, 16} /\ Len(w) \in Nat
  BY PadIs, WritesAre
<1>2. /\ HeaderLen(f) = 7 + (pad + 8 * Len(w))
      /\ \A i \in 1..pad : f[7 + i] = 0
      /\ \A k \in 1..Len(w) : \A j \in 1..8 :
           f[7 + (pad + (8 * (k - 1) + j))] = ConfigWord(w[k])[j]
  BY HeaderRead
<1>3. CC # 0
  BY PowersOfBase DEF CC
<1> HIDE DEF f, w, pad
<1>4. z \in {0, 2} /\ pad = 8 * z /\ n \in Nat
  BY <1>1
<1> HIDE DEF z
<1>5. (HeaderLen(f) - HeadSize) \div 8 = n
  <2>1. HeaderLen(f) - HeadSize = 8 * n + 0
    BY <1>1, <1>2, <1>4 DEF HeadSize
  <2>2. 8 \in Nat \ {0} /\ 0 \in 0..8 - 1
    OBVIOUS
  <2> HIDE DEF n
  <2>3. (8 * n + 0) \div 8 = n
    BY <1>4, <2>2, DivUnique
  <2> QED
    BY <2>1, <2>3
<1>6. ConfigWords(f) = FlattenSeq(s)
  <2> HIDE DEF n
  <2> QED
    BY <1>5 DEF ConfigWords
<1>7. ASSUME NEW k \in 1..z PROVE f[a(k) + 1] # CC
  <2> DEFINE i == 8 * (k - 1) + 1
  <2>1. i \in 1..pad /\ a(k) + 1 = 7 + i
    BY <1>4 DEF HeadSize
  <2> HIDE DEF i
  <2>2. f[7 + i] = 0
    BY <1>2, <2>1
  <2> QED
    BY <1>3, <2>1, <2>2
<1>8. ASSUME NEW k \in 1..Len(w)
      PROVE  f[a(z + k) + 1] = CC /\ a(z + k) = WordAt(chip, k)
  <2>1. f[7 + (pad + (8 * (k - 1) + 1))] = CC
    <3>1. f[7 + (pad + (8 * (k - 1) + 1))] = ConfigWord(w[k])[1]
      BY <1>2
    <3> QED
      BY <3>1, ConfigWordIs
  <2>2. /\ a(z + k) + 1 = 7 + (pad + (8 * (k - 1) + 1))
        /\ a(z + k) = 7 + (pad + 8 * (k - 1))
    BY <1>1, <1>4 DEF HeadSize
  <2> QED
    BY <2>1, <2>2 DEF WordAt, pad
<1>9. /\ \A k \in 1..n : s[k] = IF k <= z THEN <<>> ELSE <<a(k)>>
      /\ \A k \in 1..n : a(k) \in Nat
  <2>1. ASSUME NEW k \in 1..n PROVE s[k] = IF k <= z THEN <<>> ELSE <<a(k)>>
    <3>1. CASE k <= z
      <4>1. k \in 1..z
        BY <1>4, <3>1
      <4>2. f[a(k) + 1] # CC
        BY <1>7, <4>1
      <4> HIDE DEF a, n
      <4> QED
        BY <3>1, <4>2
    <3>2. CASE ~ (k <= z)
      <4> DEFINE j == k - z
      <4>1. j \in 1..Len(w) /\ z + j = k
        BY <1>1, <1>4, <3>2
      <4> HIDE DEF j, a, n
      <4>2. f[a(k) + 1] = CC
        BY <1>8, <4>1
      <4> QED
        BY <3>2, <4>2
    <3> QED
      BY <3>1, <3>2
  <2>2. \A k \in 1..n : a(k) \in Nat
    BY <1>4 DEF HeadSize
  <2> QED
    BY <2>1, <2>2
<1>10. s \in Seq(Seq(Nat)) /\ Len(s) = n
  <2>1. \A k \in 1..n : s[k] \in Seq(Nat)
    <3> TAKE k \in 1..n
    <3>1. a(k) \in Nat /\ s[k] = IF k <= z THEN <<>> ELSE <<a(k)>>
      BY <1>9
    <3> HIDE DEF a, s
    <3> QED
      BY <3>1
  <2>2. s = [k \in 1..n |-> s[k]]
    OBVIOUS
  <2> HIDE DEF s, n
  <2> QED
    BY <1>4, <2>1, <2>2, SMTT(30)
<1>11. /\ p \in [0..n -> Nat] /\ p[0] = 0 /\ p[n] = Len(w)
       /\ \A k \in 1..n : p[k] = p[k - 1] + (IF k <= z THEN 0 ELSE 1)
       /\ \A k \in 1..Len(w) : p[z + k - 1] = k - 1
  BY <1>1, <1>4
<1>12. \A k \in 1..n : Len(s[k]) = IF k <= z THEN 0 ELSE 1
  <2> TAKE k \in 1..n
  <2>1. s[k] = IF k <= z THEN <<>> ELSE <<a(k)>>
    BY <1>9
  <2> HIDE DEF s, a
  <2> QED
    BY <2>1
<1> HIDE DEF s, p, n
<1>13. /\ FlattenSeq(s) \in Seq(Nat) /\ Len(FlattenSeq(s)) = p[n]
       /\ \A k \in 1..n : \A j \in 1..Len(s[k]) : FlattenSeq(s)[p[k - 1] + j] = s[k][j]
  <2>1. p \in [0..Len(s) -> Nat]
    BY <1>10, <1>11
  <2>2. \A k \in 1..Len(s) : p[k] = p[k - 1] + Len(s[k])
    BY <1>10, <1>11, <1>12
  <2>3. /\ FlattenSeq(s) \in Seq(Nat) /\ Len(FlattenSeq(s)) = p[Len(s)]
        /\ \A k \in 1..Len(s) : \A j \in 1..Len(s[k]) :
             p[k - 1] + j <= p[Len(s)] /\ FlattenSeq(s)[p[k - 1] + j] = s[k][j]
    BY <1>10, <1>11, <2>1, <2>2, FlatPlaces
  <2> QED
    BY <1>10, <2>3
<1>14. \A k \in 1..Len(w) : FlattenSeq(s)[k] = WordAt(chip, k)
  <2> TAKE k \in 1..Len(w)
  <2> DEFINE j == z + k
  <2>1. j \in 1..n /\ ~ (j <= z) /\ j - 1 = z + k - 1
    BY <1>1, <1>4 DEF n
  <2> HIDE DEF a
  <2>2. s[j] = <<a(j)>> /\ Len(s[j]) = 1
    <3> HIDE DEF j
    <3> QED
      BY <1>9, <1>12, <2>1
  <2>3. FlattenSeq(s)[p[j - 1] + 1] = s[j][1]
    <3> HIDE DEF j
    <3>1. j \in 1..n /\ 1 \in 1..Len(s[j])
      BY <2>1, <2>2
    <3>2. \A i \in 1..Len(s[j]) : FlattenSeq(s)[p[j - 1] + i] = s[j][i]
      BY <1>13, <3>1
    <3> QED
      BY <3>1, <3>2
  <2>4. p[j - 1] + 1 = k
    <3>1. p[z + k - 1] = k - 1
      BY <1>11
    <3> QED
      BY <1>1, <2>1, <3>1
  <2>5. a(j) = WordAt(chip, k)
    BY <1>8
  <2> HIDE DEF j
  <2>6. s[j][1] = a(j)
    BY <2>2
  <2> QED
    BY <2>3, <2>4, <2>5, <2>6
<1>15. IsSeq(FlattenSeq(s))
  BY <1>13, SeqIs
<1> QED
  BY <1>6, <1>11, <1>13, <1>14, <1>15 DEF f, w
(* Where the parser finds the code: where it is.                           *)
LEMMA BodyRead ==
  ASSUME NEW chip \in DOMAIN CHIP_INFO, NEW bypass \in BOOLEAN, NEW code \in Seq(Nat),
         Fits(chip, code)
  PROVE  LET f == Made(chip, bypass, code)
             h == Len(HeadOf(chip, bypass))
         IN  /\ CodeAt(f) = h + 5 + BodyWidth(chip)
             /\ CodeEnd(f) = h + 5 + BodyWidth(chip) + Len(code)
             /\ XhcCode(f) = code
             /\ Slice(f, CodeEnd(f) + 1, CodeEnd(f) + 6) = Sealed(code)
             /\ chip = "ASM3242" => SigRead(f, CodeEnd(f) + 1 + 5)
<1> DEFINE f == Made(chip, bypass, code)
           h == Len(HeadOf(chip, bypass))
           g == gen_body(chip, code)
           n == BodyWidth(chip)
           m == Len(code)
           s == Sealed(code)
<1>1. IsSeq(f) /\ Len(f) = h + 5 + Len(g) /\ \A i \in 1..Len(g) : f[h + 5 + i] = g[i]
  BY ImageIs
<1>2. /\ Len(g) = BodyLen(chip, code) /\ Holds(g, 0, n, m)
      /\ \A i \in 1..m : g[n + i] = code[i]
      /\ \A i \in 1..5 : g[n + m + 1 + i] = s[i]
      /\ chip = "ASM3242" => g[n + m + 8] = 6
  BY BodyIs
<1>3. /\ n \in {2, 4} /\ m \in Nat /\ h \in Nat /\ SigSize \in Nat
      /\ IsSeq(code) /\ IsSeq(s) /\ Len(s) = 5
  <2>1. n \in {2, 4}
    BY ChipsAre DEF BodyWidth
  <2>2. m \in Nat /\ IsSeq(code)
    BY SeqIs
  <2>3. h \in Nat
    BY HeadIs
  <2>4. IsSeq(s) /\ Len(s) = 5
    BY SealedIs
  <2> QED
    BY <2>1, <2>2, <2>3, <2>4, ImageAssumption
<1>4. HeaderLen(f) = h /\ f[7] = CHIP_INFO[chip]
  BY HeaderRead
<1>5. m < Base^n /\ n = LenSize(f[7])
  BY <1>4 DEF Fits, BodyWidth
<1>6. Len(g) = n + m + 6 + IF chip = "ASM3242" THEN 3 + SigSize ELSE 0
  BY <1>2 DEF BodyLen
<1> HIDE DEF f, h, g, n, m, s
<1>7. \A i \in 1..Len(g) : f[(h + 5) + i] = g[i]
  BY <1>1
<1> DEFINE b == h + 5
<1>8. b \in Nat /\ BodyAt(f) = b
  BY <1>3, <1>4 DEF BodyAt
<1> HIDE DEF b
<1>9. Len(f) = b + Len(g) /\ \A i \in 1..Len(g) : f[b + i] = g[i]
  BY <1>1 DEF b
<1>10. Holds(f, b, n, m)
  <2> SUFFICES ASSUME NEW k \in 1..n PROVE f[b + k] = LE(n, m)[k]
    BY DEF Holds
  <2>1. k \in 1..Len(g)
    BY <1>3, <1>6
  <2>2. g[0 + k] = LE(n, m)[k] /\ 0 + k = k
    BY <1>2, <1>3 DEF Holds
  <2> QED
    BY <1>9, <2>1, <2>2
<1>11. Val(f, b, n) = m
  <2>1. CASE n = 2
    <3>1. m \in 0..Base^2 - 1
      BY <1>3, <1>5, <2>1, PowersOfBase
    <3>2. Holds(f, b, 2, m)
      BY <1>10, <2>1
    <3>3. Val(f, b, 2) = m
      BY <1>8, <3>1, <3>2, ReadsTwo
    <3> QED
      BY <2>1, <3>3
  <2>2. CASE n = 4
    <3>1. m \in 0..Base^4 - 1
      BY <1>3, <1>5, <2>2, PowersOfBase
    <3>2. Holds(f, b, 4, m)
      BY <1>10, <2>2
    <3>3. Val(f, b, 4) = m
      BY <1>8, <3>1, <3>2, ReadsFour
    <3> QED
      BY <2>2, <3>3
  <2> QED
    BY <1>3, <2>1, <2>2
<1>12. CodeAt(f) = b + n /\ CodeEnd(f) = b + n + m
  BY <1>5, <1>8, <1>11 DEF CodeAt, CodeEnd
<1>13. XhcCode(f) = code
  <2> DEFINE x == b + n
             y == b + n + m
  <2>1. x \in Nat /\ y \in Nat /\ x <= y /\ y <= Len(f) /\ y - x = m
    BY <1>3, <1>6, <1>8, <1>9
  <2>2. ASSUME NEW i \in 1..m PROVE f[x + i] = code[i]
    <3> DEFINE j == n + i
    <3>1. j \in 1..Len(g) /\ x + i = b + j
      BY <1>3, <1>6, <1>8
    <3>2. g[j] = code[i]
      BY <1>2
    <3> HIDE DEF j, x
    <3> QED
      BY <1>9, <3>1, <3>2
  <2> HIDE DEF x, y
  <2>3. Len(code) = y - x /\ \A i \in 1..y - x : f[x + i] = code[i]
    BY <2>1, <2>2 DEF m
  <2>4. Slice(f, x, y) = code
    <3>1. IsSeq(f) /\ IsSeq(code) /\ x \in Nat /\ y \in Nat /\ x <= y /\ y <= Len(f)
      BY <1>1, <1>3, <2>1
    <3> QED
      BY <2>3, <3>1, SliceIs
  <2> QED
    BY <1>12, <2>4 DEF XhcCode, x, y
<1>14. Slice(f, CodeEnd(f) + 1, CodeEnd(f) + 6) = s
  <2> DEFINE x == b + n + m + 1
             y == b + n + m + 6
  <2>1. x \in Nat /\ y \in Nat /\ x <= y /\ y <= Len(f) /\ y - x = 5
    BY <1>3, <1>6, <1>8, <1>9
  <2>2. ASSUME NEW i \in 1..5 PROVE f[x + i] = s[i]
    <3> DEFINE j == n + m + 1 + i
    <3>1. j \in 1..Len(g) /\ x + i = b + j
      BY <1>3, <1>6, <1>8
    <3>2. g[j] = s[i]
      BY <1>2
    <3> HIDE DEF j, x
    <3> QED
      BY <1>9, <3>1, <3>2
  <2> HIDE DEF x, y
  <2>3. Len(s) = y - x /\ \A i \in 1..y - x : f[x + i] = s[i]
    BY <1>3, <2>1, <2>2
  <2>4. Slice(f, x, y) = s
    <3>1. IsSeq(f) /\ IsSeq(s) /\ x \in Nat /\ y \in Nat /\ x <= y /\ y <= Len(f)
      BY <1>1, <1>3, <2>1
    <3> QED
      BY <2>3, <3>1, SliceIs
  <2> QED
    BY <1>12, <2>4 DEF x, y
<1>15. ASSUME chip = "ASM3242" PROVE SigRead(f, CodeEnd(f) + 1 + 5)
  <2> DEFINE x == b + n + m + 6
             j == n + m + 8
  <2>1. CodeEnd(f) + 1 + 5 = x /\ x + 2 = b + j /\ j \in 1..Len(g)
        /\ Len(f) = x + 3 + SigSize
    BY <1>3, <1>6, <1>8, <1>9, <1>12, <1>15
  <2>2. g[j] = 6
    BY <1>2, <1>15
  <2> HIDE DEF j
  <2>3. f[x + 2] = 6
    BY <1>9, <2>1, <2>2
  <2>4. x \in Nat
    BY <1>3, <1>8
  <2> HIDE DEF x
  <2>5. 6 \div 2 = 3
    OBVIOUS
  <2>6. f[x + 2] \div 2 = 3
    BY <2>3, <2>5
  <2>7. Len(f) >= x + 2 /\ Len(f) >= x + 3 + SigSize
    BY <1>3, <2>1, <2>4
  <2>8. SigRead(f, x)
    BY <2>6, <2>7 DEF SigRead
  <2> QED
    BY <2>1, <2>8
<1> QED
  BY <1>12, <1>13, <1>14, <1>15 DEF f, h, n, m, s, b

(* What holds of an image of a controller whether it is accepted or not:   *)
(* that it is whole, and that its parts are sealed.                        *)
SealedImage(f) ==
  /\ Len(f) >= HeadSize /\ HeaderLen(f) >= HeadSize
  /\ f[7] \in {1, 2, 3, 4, 5} /\ Len(f) >= CodeAt(f) /\ Len(f) >= CodeEnd(f) + 1 + 5
  /\ Slice(f, HeaderLen(f), BodyAt(f)) = Sealed(Slice(f, 0, HeaderLen(f)))
  /\ Slice(f, CodeEnd(f) + 1, CodeEnd(f) + 6) = Sealed(XhcCode(f))

(* What make_image.py writes, validate_fw.py accepts, unless the binary is *)
(* too short to hold the version it prints.                                *)
LEMMA MadeIsAccepted ==
  ASSUME NEW chip \in DOMAIN CHIP_INFO, NEW bypass \in BOOLEAN, NEW code \in Seq(Nat),
         Fits(chip, code)
  PROVE  LET f == Made(chip, bypass, code)
         IN  /\ f # <<>> /\ ~IsProm(f) /\ IsSeq(f)
             /\ XhcAccepts(f) <=> Len(code) >= VersionEnd
             /\ SealedImage(f)
<1> DEFINE f == Made(chip, bypass, code)
           h == HeadOf(chip, bypass)
           n == BodyWidth(chip)
           m == Len(code)
           w == WritesOf(chip, bypass)
<1>1. /\ IsSeq(f) /\ Len(f) = Len(h) + 5 + BodyLen(chip, code)
      /\ \A i \in 1..Len(h) : f[i] = h[i]
      /\ \A i \in 1..5 : f[Len(h) + i] = Sealed(h)[i]
  BY ImageIs, BodyIs, SMTT(30)
<1>2. IsSeq(h) /\ Len(h) \in 7..Base^2 - 1 /\ (Len(h) - 7) % 8 = 0 /\ Base^2 \in Nat
  BY HeadIs, PowersOfBase
<1>3. /\ f[1] = 0 /\ f[7] = CHIP_INFO[chip] /\ HeaderLen(f) = Len(h)
      /\ \A k \in 1..Len(w) : \A j \in 1..8 :
           f[7 + (Len(PadOf(chip)) + (8 * (k - 1) + j))] = ConfigWord(w[k])[j]
  BY HeaderRead
<1>4. /\ CodeAt(f) = Len(h) + 5 + n /\ CodeEnd(f) = Len(h) + 5 + n + m
      /\ XhcCode(f) = code
      /\ Slice(f, CodeEnd(f) + 1, CodeEnd(f) + 6) = Sealed(code)
      /\ chip = "ASM3242" => SigRead(f, CodeEnd(f) + 1 + 5)
  BY BodyRead
<1>5. /\ n \in {2, 4} /\ m \in Nat /\ SigSize \in Nat /\ CHIP_INFO[chip] \in {1, 2, 3, 4, 5}
      /\ CHIP_INFO[chip] = 5 <=> chip = "ASM3242"
  BY ChipsAre, SeqIs, ImageAssumption DEF BodyWidth
<1>6. /\ IsSeq(ConfigWords(f)) /\ Len(ConfigWords(f)) = Len(w)
      /\ \A k \in 1..Len(w) : ConfigWords(f)[k] = WordAt(chip, k)
  BY ConfigWordsAre
<1>7. /\ IsSeq(w) /\ Len(w) \in Nat /\ Len(PadOf(chip)) \in Nat
      /\ \A k \in 1..Len(w) : w[k][2] \in {1, 2, 4}
  <2>1. Len(PadOf(chip)) \in Nat /\ IsSeq(w) /\ Len(w) \in Nat
    BY PadIs, WritesAre
  <2>2. CASE chip = "ASM3242" /\ bypass
    <3>1. IsBypass(w, FlashAddr(23, DelayOf(chip)), DelayOf(chip))
      BY <2>2, WritesAre
    <3> HIDE DEF w
    <3> QED
      BY <2>1, <3>1 DEF IsBypass
  <2>3. CASE ~ (chip = "ASM3242" /\ bypass)
    <3>1. Len(w) = 0
      BY <2>3, WritesAre
    <3> QED
      BY <2>1, <3>1
  <2> QED
    BY <2>2, <2>3
<1>8. BodyLen(chip, code) = n + m + 6 + IF chip = "ASM3242" THEN 3 + SigSize ELSE 0
  BY DEF BodyLen
<1> HIDE DEF f, h, n, m, w
<1>9. ASSUME NEW k \in DOMAIN ConfigWords(f)
      PROVE  f[ConfigWords(f)[k] + 2] \in {1, 2, 4}
  <2> DEFINE words == ConfigWords(f)
             pad == Len(PadOf(chip))
  <2>1. k \in 1..Len(w) /\ words[k] = WordAt(chip, k)
    <3> HIDE DEF words
    <3>1. DOMAIN words = 1..Len(words)
      BY <1>6 DEF IsSeq, words
    <3> QED
      BY <1>6, <1>9, <3>1 DEF words
  <2>2. f[7 + (pad + (8 * (k - 1) + 2))] = w[k][2]
    <3>1. f[7 + (pad + (8 * (k - 1) + 2))] = ConfigWord(w[k])[2]
      <4>1. \A j \in 1..8 : f[7 + (pad + (8 * (k - 1) + j))] = ConfigWord(w[k])[j]
        BY <1>3, <2>1
      <4> QED
        BY <4>1, 2 \in 1..8
    <3> QED
      BY <3>1, ConfigWordIs
  <2> HIDE DEF words
  <2>3. words[k] + 2 = 7 + (pad + (8 * (k - 1) + 2))
    BY <1>7, <2>1 DEF WordAt
  <2>4. f[words[k] + 2] = w[k][2]
    BY <2>2, <2>3
  <2> QED
    BY <1>7, <2>1, <2>4 DEF words
<1>10. Slice(f, HeaderLen(f), BodyAt(f)) = Sealed(Slice(f, 0, HeaderLen(f)))
  <2>1. Slice(f, 0, Len(h)) = h
    <3>1. /\ 0 \in Nat /\ Len(h) \in Nat /\ 0 <= Len(h) /\ Len(h) <= Len(f)
          /\ Len(h) - 0 = Len(h)
      BY <1>1, <1>2, <1>5, <1>8, SMTT(30)
    <3>2. IsSeq(f) /\ IsSeq(h) /\ \A i \in 1..Len(h) - 0 : f[0 + i] = h[i]
      BY <1>1, <1>2
    <3> QED
      BY <3>1, <3>2, SliceIs
  <2>2. Slice(f, Len(h), Len(h) + 5) = Sealed(h)
    <3> DEFINE x == Len(h)
               y == Len(h) + 5
               s == Sealed(h)
    <3>1. x \in Nat /\ y = x + 5 /\ BodyLen(chip, code) \in Nat
          /\ Len(f) = x + 5 + BodyLen(chip, code)
      BY <1>1, <1>2, <1>5, <1>8, SMTT(30)
    <3>2. IsSeq(s) /\ Len(s) = 5
      BY SealedIs
    <3>3. \A i \in 1..5 : f[x + i] = s[i]
      BY <1>1
    <3> HIDE DEF x, y, s
    <3>4. /\ x \in Nat /\ y \in Nat /\ x <= y /\ y <= Len(f) /\ IsSeq(f) /\ IsSeq(s)
          /\ Len(s) = y - x /\ \A i \in 1..y - x : f[x + i] = s[i]
      BY <1>1, <3>1, <3>2, <3>3
    <3>5. Slice(f, x, y) = s
      BY <3>4, SliceIs
    <3> QED
      BY <3>5 DEF x, y, s
  <2> QED
    BY <1>3, <2>1, <2>2 DEF BodyAt
<1>11. /\ Len(f) >= HeadSize
       /\ HeaderLen(f) >= HeadSize /\ (HeaderLen(f) - HeadSize) % 8 = 0
       /\ Len(f) >= BodyAt(f)
       /\ f[7] \in {1, 2, 3, 4, 5}
       /\ Len(f) >= CodeAt(f)
       /\ Len(f) >= CodeEnd(f) + 1 + 5
       /\ CodeEnd(f) - CodeAt(f) = m
  <2>1. Len(f) = Len(h) + 5 + (n + m + 6 + IF chip = "ASM3242" THEN 3 + SigSize ELSE 0)
    BY <1>1, <1>8
  <2>2. BodyAt(f) = Len(h) + 5
    BY <1>3 DEF BodyAt
  <2> QED
    BY <1>2, <1>3, <1>4, <1>5, <2>1, <2>2 DEF HeadSize
<1>12. f[7] = 5 => SigRead(f, CodeEnd(f) + 1 + 5)
  BY <1>3, <1>4, <1>5
<1>13. Slice(f, CodeEnd(f) + 1, CodeEnd(f) + 6) = Sealed(XhcCode(f))
  BY <1>4
<1>14. XhcAccepts(f) <=> m >= VersionEnd
  BY <1>9, <1>10, <1>11, <1>12, <1>13 DEF XhcAccepts
<1>15. ~IsProm(f)
  BY <1>3, PowersOfBase DEF IsProm, PT
<1>16. f # <<>>
  <2>1. Len(f) >= 7
    BY <1>11 DEF HeadSize
  <2> QED
    BY <2>1, EmptySeq
<1>17. SealedImage(f)
  BY <1>10, <1>11, <1>13 DEF SealedImage
<1> QED
  BY <1>1, <1>14, <1>15, <1>16, <1>17 DEF f, m
(* What the ROM finds in the header of an image made with -s: every write, *)
(* with its register and, of those that set it up, the value.              *)
LEMMA WritesRead ==
  ASSUME NEW chip \in DOMAIN CHIP_INFO, NEW bypass \in BOOLEAN, NEW code \in Seq(Nat)
  PROVE  LET f  == Made(chip, bypass, code)
             w  == WritesOf(chip, bypass)
             ws == Writes(f)
         IN  /\ DOMAIN ws = 1..Len(w) /\ Len(ws) = Len(w)
             /\ \A k \in 1..Len(w) :
                  /\ w[k][1] \in 0..192 => ws[k][1] = w[k][1]
                  /\ w[k][2] = 1 /\ w[k][3] \in 0..Base - 1 => ws[k][3] = w[k][3]
                  /\ w[k][2] = 2 /\ w[k][3] \in 0..Base^2 - 1 => ws[k][3] = w[k][3]
<1> DEFINE f == Made(chip, bypass, code)
           w == WritesOf(chip, bypass)
           at == ConfigWords(f)
           T(a) == <<Val(f, a + 2, 2), f[a + 2], Val(f, a + 4, f[a + 2])>>
           ws == Writes(f)
           pad == Len(PadOf(chip))
<1>1. IsSeq(at) /\ Len(at) = Len(w) /\ \A k \in 1..Len(w) : at[k] = WordAt(chip, k)
  BY ConfigWordsAre
<1>2. /\ pad \in Nat /\ Len(w) \in Nat
      /\ \A k \in 1..Len(w) : \A j \in 1..8 :
           f[7 + (pad + (8 * (k - 1) + j))] = ConfigWord(w[k])[j]
  BY HeaderRead, PadIs, WritesAre
<1>3. ws = [k \in DOMAIN at |-> T(at[k])]
  BY DEF Writes
<1>4. DOMAIN at = 1..Len(w)
  <2> HIDE DEF at, w
  <2>1. DOMAIN at = 1..Len(at)
    BY <1>1 DEF IsSeq
  <2> QED
    BY <1>1, <2>1
<1> HIDE DEF f, w, at, ws, pad
<1>5. DOMAIN ws = 1..Len(w) /\ Len(ws) = Len(w) /\ \A k \in 1..Len(w) : ws[k] = T(WordAt(chip, k))
  <2> HIDE DEF T
  <2> QED
    BY <1>1, <1>2, <1>3, <1>4
<1>6. ASSUME NEW k \in 1..Len(w)
      PROVE  /\ w[k][1] \in 0..192 => ws[k][1] = w[k][1]
             /\ w[k][2] = 1 /\ w[k][3] \in 0..Base - 1 => ws[k][3] = w[k][3]
             /\ w[k][2] = 2 /\ w[k][3] \in 0..Base^2 - 1 => ws[k][3] = w[k][3]
  <2> DEFINE a == WordAt(chip, k)
             c == ConfigWord(w[k])
             u == w[k]
  <2>1. a \in Nat /\ \A j \in 1..8 : a + j = 7 + (pad + (8 * (k - 1) + j))
    BY <1>2 DEF WordAt, pad
  <2>2. \A j \in 1..8 : f[a + j] = c[j]
    <3>1. \A j \in 1..8 : f[7 + (pad + (8 * (k - 1) + j))] = c[j]
      BY <1>2
    <3> HIDE DEF a, c
    <3> QED
      BY <2>1, <3>1
  <2>3. c[2] = u[2] /\ Holds(c, 2, 2, u[1]) /\ Holds(c, 4, 4, u[3])
    BY ConfigWordIs
  <2>4. ws[k] = T(a)
    BY <1>5
  <2>5. ws[k][1] = Val(f, a + 2, 2) /\ ws[k][3] = Val(f, a + 4, f[a + 2])
    BY <2>4
  <2> HIDE DEF a, c, u
  <2>6. f[a + 2] = u[2]
    BY <2>2, <2>3
  <2>7. Holds(f, a + 2, 2, u[1])
    <3> SUFFICES ASSUME NEW j \in 1..2 PROVE f[a + 2 + j] = LE(2, u[1])[j]
      BY DEF Holds
    <3>1. 2 + j \in 1..8 /\ a + 2 + j = a + (2 + j)
      BY <2>1
    <3>2. c[2 + j] = LE(2, u[1])[j]
      BY <2>3 DEF Holds
    <3> QED
      BY <2>2, <3>1, <3>2
  <2>8. Holds(f, a + 4, 4, u[3])
    <3> SUFFICES ASSUME NEW j \in 1..4 PROVE f[a + 4 + j] = LE(4, u[3])[j]
      BY DEF Holds
    <3>1. 4 + j \in 1..8 /\ a + 4 + j = a + (4 + j)
      BY <2>1
    <3>2. c[4 + j] = LE(4, u[3])[j]
      BY <2>3 DEF Holds
    <3> QED
      BY <2>2, <3>1, <3>2
  <2>9. a + 2 \in Nat /\ a + 4 \in Nat
    BY <2>1
  <2>10. ASSUME u[1] \in 0..192 PROVE ws[k][1] = u[1]
    <3>1. Base^2 \in Nat /\ Base^2 >= 256
      <4>1. Base^2 = Base * Base /\ Base \in Nat /\ Base >= 16
        BY PowersOfBase
      <4>2. Base * Base = 256 + 32 * (Base - 16) + (Base - 16) * (Base - 16)
        BY <4>1
      <4>3. (Base - 16) * (Base - 16) \in Nat /\ 32 * (Base - 16) \in Nat
        BY <4>1, ProductIsNat
      <4> QED
        BY <4>1, <4>2, <4>3
    <3> DEFINE p == Base^2
    <3>2. p \in Nat /\ p >= 256
      BY <3>1
    <3> DEFINE x == u[1]
    <3>3. x \in 0..192
      BY <2>10
    <3> HIDE DEF p, x
    <3>4. x \in 0..p - 1
      BY <3>2, <3>3
    <3> QED
      BY <2>5, <2>7, <2>9, <3>4, ReadsTwo DEF p, x
  <2>11. ASSUME u[2] = 1, u[3] \in 0..Base - 1 PROVE ws[k][3] = u[3]
    <3>1. Val(f, a + 4, 1) = u[3]
      BY <2>8, <2>9, <2>11, ReadsOne
    <3> QED
      BY <2>5, <2>6, <2>11, <3>1
  <2>12. ASSUME u[2] = 2, u[3] \in 0..Base^2 - 1 PROVE ws[k][3] = u[3]
    <3>1. Val(f, a + 4, 2) = u[3]
      BY <2>8, <2>9, <2>12, ReadsTwo
    <3> QED
      BY <2>5, <2>6, <2>12, <3>1
  <2> QED
    BY <2>10, <2>11, <2>12 DEF u
<1> QED
  BY <1>5, <1>6 DEF f, w, ws

LEMMA IndexIs ==
  ASSUME NEW ws, NEW r, NEW k \in DOMAIN ws, ws[k][1] = r,
         \A j \in DOMAIN ws : j # k => ws[j][1] # r
  PROVE  IndexOf(ws, r) = k
<1>1. \E j \in DOMAIN ws : ws[j][1] = r
  OBVIOUS
<1>2. IndexOf(ws, r) \in DOMAIN ws /\ ws[IndexOf(ws, r)][1] = r
  BY <1>1 DEF IndexOf
<1> QED
  BY <1>2

(* Two fields make up an address and a length of 24 bits.                  *)
LEMMA TwoFields ==
  ASSUME NEW v \in Nat, v < Base^3
  PROVE  /\ v % Base^2 \in 0..Base^2 - 1 /\ v \div Base^2 \in 0..Base - 1
         /\ (v % Base^2) + (v \div Base^2) * Base^2 = v
<1> DEFINE p == Base^2
<1>1. p \in Nat \ {0} /\ Base \in Nat \ {0} /\ v < p * Base
  <2>1. Base^2 = Base * Base /\ Base^3 = Base * (Base * Base) /\ Base \in Nat \ {0}
        /\ Base^2 \in Nat \ {0}
    BY PowersOfBase
  <2>2. Base^3 = Base^2 * Base
    BY <2>1
  <2> QED
    BY <2>1, <2>2
<1> HIDE DEF p
<1>2. v \div p \in 0..Base - 1
  BY <1>1, QuotientBelow
<1>3. v % p \in 0..p - 1 /\ v = p * (v \div p) + (v % p)
  BY <1>1, DivSplit
<1> DEFINE q == v \div p
           r == v % p
<1>4. q \in Nat /\ r \in Nat /\ v = p * q + r
  BY <1>1, <1>2, <1>3
<1> HIDE DEF q, r
<1>5. r + q * p = v
  BY <1>1, <1>4
<1> QED
  BY <1>2, <1>3, <1>5 DEF p, q, r

(* An image made with -s: the ROM sets up everything before it loads, loads*)
(* from the place of the code, and starts when it has.                     *)
LEMMA RomLoads ==
  ASSUME NEW bypass \in BOOLEAN, NEW chip \in DOMAIN CHIP_INFO, NEW code \in Seq(Nat),
         Fits(chip, code), Len(Writes(Made(chip, bypass, code))) > 0, Len(code) <= DataLen
  PROVE  IsPrefix(code, RomRuns(Made(chip, bypass, code)))
<1> DEFINE f == Made(chip, bypass, code)
           w == WritesOf(chip, bypass)
           ws == Writes(f)
           delay == DelayOf(chip)
           flash == FlashAddr(23, delay)
           m == Len(code)
<1>1. /\ DOMAIN ws = 1..Len(w) /\ Len(ws) = Len(w)
      /\ \A k \in 1..Len(w) :
           /\ w[k][1] \in 0..192 => ws[k][1] = w[k][1]
           /\ w[k][2] = 1 /\ w[k][3] \in 0..Base - 1 => ws[k][3] = w[k][3]
           /\ w[k][2] = 2 /\ w[k][3] \in 0..Base^2 - 1 => ws[k][3] = w[k][3]
  BY WritesRead
<1>2. chip = "ASM3242" /\ bypass
  BY <1>1, WritesAre
<1>3. IsBypass(w, flash, delay)
  BY <1>2, WritesAre
<1>4. delay \in Nat /\ 23 + 8 * (14 + delay) <= DelayTo
  BY <1>2, DelayIs
<1>5. flash = 23 + 8 * (14 + delay) + 9
  BY DEF FlashAddr
<1>6. CodeAt(f) = flash /\ CodeEnd(f) = flash + m /\ XhcCode(f) = code
  <2>1. /\ CodeAt(f) = Len(HeadOf(chip, bypass)) + 5 + BodyWidth(chip)
        /\ CodeEnd(f) = Len(HeadOf(chip, bypass)) + 5 + BodyWidth(chip) + m
        /\ XhcCode(f) = code
    BY BodyRead
  <2>2. BodyWidth(chip) = 4
    BY <1>2, ChipsAre DEF BodyWidth
  <2>3. Len(HeadOf(chip, bypass)) = 7 + (Len(PadOf(chip)) + 8 * Len(w))
    BY HeaderRead
  <2>4. Len(PadOf(chip)) = 16
    BY <1>2, PadIs
  <2>5. Len(w) = 14 + delay
    <3> HIDE DEF w, delay, flash
    <3> QED
      BY <1>3 DEF IsBypass
  <2> DEFINE x == Len(HeadOf(chip, bypass))
             y == Len(PadOf(chip))
             z == Len(w)
  <2>6. x = 7 + (y + 8 * z) /\ y = 16 /\ z = 14 + delay
    BY <2>3, <2>4, <2>5
  <2> HIDE DEF x, y, z, delay
  <2>7. x = 23 + 8 * (14 + delay)
    BY <1>4, <2>6
  <2> HIDE DEF flash
  <2>8. x + 5 + 4 = flash
    BY <1>4, <1>5, <2>7
  <2> QED
    BY <2>1, <2>2, <2>8 DEF x
<1>7. /\ IsSeq(f) /\ Len(f) \in Nat /\ m \in Nat
      /\ Len(f) >= flash + m
  <2>1. m \in Nat
    BY SeqIs
  <2>2. /\ IsSeq(f) /\ Len(f) = Len(HeadOf(chip, bypass)) + 5 + BodyLen(chip, code)
        /\ BodyLen(chip, code) \in Nat
    BY ImageIs, BodyIs
  <2>3. Len(HeadOf(chip, bypass)) \in Nat /\ BodyWidth(chip) \in Nat /\ SigSize \in Nat
    <3>1. Len(HeadOf(chip, bypass)) \in Nat
      BY HeadIs
    <3>2. BodyWidth(chip) \in Nat
      BY ChipsAre DEF BodyWidth
    <3>3. SigSize \in Nat
      BY ImageAssumption
    <3> QED
      BY <3>1, <3>2, <3>3
  <2>4. CodeEnd(f) = Len(HeadOf(chip, bypass)) + 5 + BodyWidth(chip) + m
    BY BodyRead
  <2>5. BodyLen(chip, code) >= BodyWidth(chip) + m
    BY <2>1, <2>3 DEF BodyLen
  <2>6. Len(f) >= CodeEnd(f)
    <3> HIDE DEF f, m
    <3> QED
      BY <2>1, <2>2, <2>3, <2>4, <2>5
  <2>7. Len(f) \in Nat
    <3> HIDE DEF f
    <3> QED
      BY <2>2, <2>3
  <2> QED
    BY <1>6, <2>1, <2>2, <2>6, <2>7
<1>8. flash \in Nat /\ flash < Base^3 /\ DataLen \in Nat /\ DataLen < Base^3
  <2>1. DelayTo \in Nat /\ DelayTo < Base^2 /\ DataLen \in Nat /\ DataLen < Base^3
    BY ImageAssumption, BypassAssumption
  <2>2. Base^2 \in Nat \ {0} /\ Base >= 16 /\ Base \in Nat
        /\ Base^2 = Base * Base /\ Base^3 = Base * (Base * Base)
    BY PowersOfBase
  <2> DEFINE p == Base^2
  <2>3. Base^3 = Base * p
    BY <2>2
  <2>4. p \in Nat /\ p >= 1
    <3>1. p \in Nat \ {0}
      BY <2>2
    <3> HIDE DEF p
    <3> QED
      BY <3>1
  <2> HIDE DEF p
  <2>5. Base * p = 16 * p + (Base - 16) * p /\ (Base - 16) * p \in Nat
    BY <2>2, <2>4, ProductIsNat
  <2>6. Base * p >= p + 15
    BY <2>2, <2>4, <2>5
  <2>7. flash \in Nat /\ flash < p + 9
    <3>1. DelayTo < p
      BY <2>1 DEF p
    <3> HIDE DEF flash, delay
    <3> QED
      BY <1>4, <1>5, <2>1, <2>4, <3>1
  <2>8. flash < Base^3
    <3>1. Base^3 \in Nat
      BY <2>2, <2>3, <2>4, ProductIsNat
    <3> DEFINE c == Base^3
    <3>2. c = Base * p /\ c \in Nat
      BY <2>3, <3>1
    <3> HIDE DEF c, flash
    <3>3. flash < c
      BY <2>4, <2>6, <2>7, <3>2
    <3> QED
      BY <3>3 DEF c
  <2> HIDE DEF flash
  <2> QED
    BY <2>1, <2>7, <2>8
<1>9. /\ DataLen % Base^2 \in 0..Base^2 - 1 /\ DataLen \div Base^2 \in 0..Base - 1
      /\ (DataLen % Base^2) + (DataLen \div Base^2) * Base^2 = DataLen
      /\ flash % Base^2 \in 0..Base^2 - 1 /\ flash \div Base^2 \in 0..Base - 1
      /\ (flash % Base^2) + (flash \div Base^2) * Base^2 = flash
  <2> HIDE DEF flash
  <2> QED
    BY <1>8, TwoFields
<1> HIDE DEF f, w, ws, delay, flash, m
<1>10. Len(w) = 14 + delay
  BY <1>3 DEF IsBypass
<1>11. \A k \in 1..14 + delay : ws[k][1] = w[k][1]
  BY <1>1, <1>3, <1>10 DEF IsBypass
<1>12. /\ IndexOf(ws, 28) = 1 /\ IndexOf(ws, 30) = 2 /\ IndexOf(ws, 43) = 10
       /\ IndexOf(ws, 45) = 11 /\ IndexOf(ws, 46) = 12 /\ IndexOf(ws, 2) = 14 + delay
  <2>1. DOMAIN ws = 1..14 + delay
    BY <1>1, <1>10
  <2>2. /\ ws[1][1] = 28 /\ ws[2][1] = 30 /\ ws[10][1] = 43 /\ ws[11][1] = 45
        /\ ws[12][1] = 46 /\ ws[14 + delay][1] = 2
    <3>1. /\ 1 \in 1..14 + delay /\ 2 \in 1..14 + delay /\ 10 \in 1..14 + delay
          /\ 11 \in 1..14 + delay /\ 12 \in 1..14 + delay /\ 14 + delay \in 1..14 + delay
      BY <1>4
    <3>2. /\ w[1][1] = 28 /\ w[2][1] = 30 /\ w[10][1] = 43 /\ w[11][1] = 45
          /\ w[12][1] = 46 /\ w[14 + delay][1] = 2
      BY <1>3 DEF IsBypass
    <3> QED
      BY <1>11, <3>1, <3>2
  <2>3. ASSUME NEW k \in DOMAIN ws
        PROVE  /\ k # 1 => ws[k][1] # 28
               /\ k # 2 => ws[k][1] # 30
               /\ k # 10 => ws[k][1] # 43
               /\ k # 11 => ws[k][1] # 45
               /\ k # 12 => ws[k][1] # 46
               /\ k # 14 + delay => ws[k][1] # 2
    <3>1. ws[k][1] = w[k][1]
      BY <1>11, <2>1, <2>3
    <3>2. /\ k # 1 => w[k][1] # 28
          /\ k # 2 => w[k][1] # 30
          /\ k # 10 => w[k][1] # 43
          /\ k # 11 => w[k][1] # 45
          /\ k # 12 => w[k][1] # 46
          /\ k # 14 + delay => w[k][1] # 2
      BY <1>3, <2>1, <2>3 DEF IsBypass
    <3> QED
      BY <3>1, <3>2
  <2>4. /\ 1 \in DOMAIN ws /\ 2 \in DOMAIN ws /\ 10 \in DOMAIN ws
        /\ 11 \in DOMAIN ws /\ 12 \in DOMAIN ws /\ 14 + delay \in DOMAIN ws
    BY <1>4, <2>1
  <2>5. ASSUME NEW i \in DOMAIN ws, NEW n, ws[i][1] = n,
               \A k \in DOMAIN ws : k # i => ws[k][1] # n
        PROVE  IndexOf(ws, n) = i
    BY <2>5, IndexIs
  <2>6. IndexOf(ws, 28) = 1
    <3>1. 1 \in DOMAIN ws /\ ws[1][1] = 28
      BY <2>2, <2>4
    <3>2. \A k \in DOMAIN ws : k # 1 => ws[k][1] # 28
      BY <2>3
    <3> QED
      BY <2>5, <3>1, <3>2
  <2>7. IndexOf(ws, 30) = 2
    <3>1. 2 \in DOMAIN ws /\ ws[2][1] = 30
      BY <2>2, <2>4
    <3>2. \A k \in DOMAIN ws : k # 2 => ws[k][1] # 30
      BY <2>3
    <3> QED
      BY <2>5, <3>1, <3>2
  <2>8. IndexOf(ws, 43) = 10
    <3>1. 10 \in DOMAIN ws /\ ws[10][1] = 43
      BY <2>2, <2>4
    <3>2. \A k \in DOMAIN ws : k # 10 => ws[k][1] # 43
      BY <2>3
    <3> QED
      BY <2>5, <3>1, <3>2
  <2>9. IndexOf(ws, 45) = 11
    <3>1. 11 \in DOMAIN ws /\ ws[11][1] = 45
      BY <2>2, <2>4
    <3>2. \A k \in DOMAIN ws : k # 11 => ws[k][1] # 45
      BY <2>3
    <3> QED
      BY <2>5, <3>1, <3>2
  <2>10. IndexOf(ws, 46) = 12
    <3>1. 12 \in DOMAIN ws /\ ws[12][1] = 46
      BY <2>2, <2>4
    <3>2. \A k \in DOMAIN ws : k # 12 => ws[k][1] # 46
      BY <2>3
    <3> QED
      BY <2>5, <3>1, <3>2
  <2>11. IndexOf(ws, 2) = 14 + delay
    <3>1. \A k \in DOMAIN ws : k # 14 + delay => ws[k][1] # 2
      BY <2>3
    <3> DEFINE x == 14 + delay
    <3>2. x \in DOMAIN ws /\ ws[x][1] = 2 /\ \A k \in DOMAIN ws : k # x => ws[k][1] # 2
      BY <2>2, <2>4, <3>1
    <3> HIDE DEF x
    <3>3. IndexOf(ws, 2) = x
      BY <2>5, <3>2
    <3> QED
      BY <3>3 DEF x
  <2> QED
    BY <2>6, <2>7, <2>8, <2>9, <2>10, <2>11
<1>13. /\ ws[1][3] = DataLen % Base^2 /\ ws[2][3] = DataLen \div Base^2
       /\ ws[10][3] = flash % Base^2 /\ ws[11][3] = flash \div Base^2
  <2>1. /\ 1 \in 1..Len(w) /\ 2 \in 1..Len(w) /\ 10 \in 1..Len(w) /\ 11 \in 1..Len(w)
    BY <1>4, <1>10
  <2>2. /\ w[1][2] = 2 /\ w[1][3] = DataLen % Base^2
        /\ w[2][2] = 1 /\ w[2][3] = DataLen \div Base^2
        /\ w[10][2] = 2 /\ w[10][3] = flash % Base^2
        /\ w[11][2] = 1 /\ w[11][3] = flash \div Base^2
    BY <1>3 DEF IsBypass
  <2> QED
    BY <1>1, <1>9, <2>1, <2>2
<1> DEFINE to == flash + DataLen
           b == IF to < Len(f) THEN to ELSE Len(f)
           r == Slice(f, flash, b)
<1>14. RomRuns(f) = r
  <2>1. Setting(ws, 43) + Setting(ws, 45) * Base^2 = flash
    BY <1>9, <1>12, <1>13 DEF Setting
  <2>2. flash + Setting(ws, 28) + Setting(ws, 30) * Base^2 = to
    <3> DEFINE x == DataLen % Base^2
               y == (DataLen \div Base^2) * Base^2
    <3>1. Setting(ws, 28) = x /\ Setting(ws, 30) * Base^2 = y /\ x + y = DataLen
      BY <1>9, <1>12, <1>13 DEF Setting
    <3>2. x \in Nat /\ y \in Nat
      <4>1. DataLen % Base^2 \in Nat /\ DataLen \div Base^2 \in Nat /\ Base^2 \in Nat
        BY <1>9, PowersOfBase
      <4> QED
        BY <4>1, ProductIsNat
    <3> DEFINE sx == Setting(ws, 28)
               sy == Setting(ws, 30) * Base^2
    <3>3. sx = x /\ sy = y /\ x + y = DataLen
      BY <3>1
    <3> HIDE DEF x, y, sx, sy
    <3>4. flash + sx + sy = flash + DataLen
      BY <1>8, <3>2, <3>3
    <3> QED
      BY <3>4 DEF sx, sy
  <2>3. {28, 30, 43, 45} \subseteq {ws[k][1] : k \in 1..11}
    <3>1. ws[1][1] = 28 /\ ws[2][1] = 30 /\ ws[10][1] = 43 /\ ws[11][1] = 45
      <4>1. /\ 1 \in 1..14 + delay /\ 2 \in 1..14 + delay /\ 10 \in 1..14 + delay
            /\ 11 \in 1..14 + delay
        BY <1>4
      <4> QED
        BY <1>3, <1>11, <4>1 DEF IsBypass
    <3>2. \A k \in 1..11 : ws[k][1] \in {ws[j][1] : j \in 1..11}
      OBVIOUS
    <3>3. 1 \in 1..11 /\ 2 \in 1..11 /\ 10 \in 1..11 /\ 11 \in 1..11
      OBVIOUS
    <3> QED
      BY <3>1, <3>2, <3>3, ZenonT(30)
  <2>4. IndexOf(ws, 46) - 1 = 11 /\ IndexOf(ws, 2) > IndexOf(ws, 46)
    BY <1>4, <1>12
  <2> HIDE DEF to
  <2> QED
    BY <2>1, <2>2, <2>3, <2>4 DEF RomRuns, ws
<1>15. flash <= b /\ b <= Len(f) /\ b \in Nat /\ b - flash >= m
  <2>1. m <= DataLen
    BY DEF m
  <2> QED
    BY <1>7, <1>8, <2>1
<1> HIDE DEF b
<1>16. IsSeq(r) /\ Len(r) = b - flash /\ \A i \in 1..b - flash : r[i] = f[flash + i]
  BY <1>7, <1>8, <1>15, PartIs DEF Slice
<1> HIDE DEF r
<1>17. \A i \in 1..m : code[i] = f[flash + i]
  <2> DEFINE y == flash + m
  <2>1. y \in Nat /\ flash <= y /\ y <= Len(f) /\ y - flash = m
    BY <1>7, <1>8
  <2>2. code = SubSeq(f, flash + 1, y)
    BY <1>6 DEF XhcCode, Slice
  <2> HIDE DEF y
  <2>3. IsSeq(f) /\ flash \in Nat /\ y \in Nat /\ flash <= y /\ y <= Len(f)
    BY <1>7, <1>8, <2>1
  <2>4. \A i \in 1..y - flash : SubSeq(f, flash + 1, y)[i] = f[flash + i]
    BY <2>3, PartIs
  <2> QED
    BY <2>1, <2>2, <2>4
<1>18. SubSeq(code, 1, m) = SubSeq(r, 1, m)
  <2>1. IsSeq(code) /\ m = Len(code)
    BY SeqIs DEF m
  <2>2. ASSUME NEW d, IsSeq(d), m <= Len(d)
        PROVE  /\ IsSeq(SubSeq(d, 1, m)) /\ Len(SubSeq(d, 1, m)) = m
               /\ \A i \in 1..m : SubSeq(d, 1, m)[i] = d[i]
    <3> DEFINE z == 0
    <3>1. z \in Nat /\ m \in Nat /\ z <= m
      BY <1>7
    <3>2. z + 1 = 1 /\ m - z = m /\ \A i \in 1..m : z + i = i
      BY <1>7
    <3> HIDE DEF z
    <3>3. /\ IsSeq(SubSeq(d, z + 1, m)) /\ Len(SubSeq(d, z + 1, m)) = m - z
          /\ \A i \in 1..m - z : SubSeq(d, z + 1, m)[i] = d[z + i]
      BY <2>2, <3>1, PartIs
    <3> QED
      BY <3>2, <3>3
  <2> DEFINE x == SubSeq(code, 1, m)
             y == SubSeq(r, 1, m)
  <2>3. m <= Len(code) /\ m <= Len(r)
    BY <1>7, <1>15, <1>16, <2>1
  <2>4. IsSeq(x) /\ Len(x) = m /\ \A i \in 1..m : x[i] = code[i]
    BY <2>1, <2>2, <2>3
  <2>5. IsSeq(y) /\ Len(y) = m /\ \A i \in 1..m : y[i] = r[i]
    BY <1>16, <2>2, <2>3
  <2> HIDE DEF x, y
  <2>6. \A i \in 1..m : x[i] = y[i]
    <3> TAKE i \in 1..m
    <3>1. i \in 1..b - flash
      BY <1>7, <1>8, <1>15
    <3> QED
      BY <1>16, <1>17, <2>4, <2>5, <3>1
  <2>7. x = y
    BY <2>4, <2>5, <2>6, EqualIs
  <2> QED
    BY <2>7 DEF x, y
<1>19. m <= Len(r)
  BY <1>7, <1>15, <1>16
<1> QED
  BY <1>14, <1>18, <1>19 DEF IsPrefix, m, f
(* A part of a sequence lies in a longer one where it did.                 *)
LEMMA SliceOfLonger ==
  ASSUME NEW d, IsSeq(d), NEW f, IsSeq(f), Len(d) <= Len(f),
         \A i \in 1..Len(d) : f[i] = d[i],
         NEW a \in Nat, NEW b \in Nat, a <= b, b <= Len(d)
  PROVE  Slice(f, a, b) = Slice(d, a, b)
<1> DEFINE g == SubSeq(d, a + 1, b)
<1>1. IsSeq(g) /\ Len(g) = b - a /\ \A i \in 1..b - a : g[i] = d[a + i]
  BY PartIs
<1>2. Len(d) \in Nat /\ Len(f) \in Nat /\ b <= Len(f)
  BY SeqIs DEF IsSeq
<1> HIDE DEF g
<1>3. \A i \in 1..b - a : f[a + i] = g[i]
  <2> TAKE i \in 1..b - a
  <2>1. a + i \in 1..Len(d)
    BY <1>2
  <2> QED
    BY <1>1, <2>1
<1>4. Slice(f, a, b) = g
  BY <1>1, <1>2, <1>3, SliceIs
<1> QED
  BY <1>4 DEF g, Slice

-----------------------------------------------------------------------------
(* The sum of a sequence, which is taken by halves, is that of its         *)
(* elements one by one.                                                    *)
IsPrefixSum(p, d) ==
  /\ p \in [0..Len(d) -> Int] /\ p[0] = 0
  /\ \A k \in 1..Len(d) : p[k] = p[k - 1] + d[k]

LEMMA PrefixSumExists ==
  ASSUME NEW d \in Seq(Int)
  PROVE  \E p : IsPrefixSum(p, d)
<1> DEFINE n == Len(d)
           g == [x \in Int \X (1..n) |-> x[1] + d[x[2]]]
           zero == 0
<1>1. n \in Nat /\ zero \in Int
  OBVIOUS
<1>2. IsStep(g, Int, n)
  BY DEF IsStep
<1>3. \A v \in Int, k \in 1..n : g[<<v, k>>] = v + d[k]
  OBVIOUS
<1> HIDE DEF n, g, zero
<1>4. PICK p : Iterates(p, Int, zero, g, n)
  BY <1>1, <1>2, RecursionExists
<1>5. p \in [0..n -> Int] /\ p[0] = zero /\ \A k \in 1..n : p[k] = g[<<p[k - 1], k>>]
  BY <1>4 DEF Iterates
<1>6. \A k \in 1..n : p[k] = p[k - 1] + d[k]
  <2> TAKE k \in 1..n
  <2>1. p[k - 1] \in Int
    BY <1>1, <1>5
  <2> QED
    BY <1>3, <1>5, <2>1
<1> QED
  BY <1>5, <1>6 DEF IsPrefixSum, n, zero

LEMMA TotalIs ==
  ASSUME NEW d \in Seq(Int), NEW p, IsPrefixSum(p, d)
  PROVE  Total(d) = p[Len(d)]
<1> DEFINE n == Len(d)
           P == (0..n) \X (0..n)
           Mid(q) == (q[1] + q[2]) \div 2
           Step(t, q) == CASE q[1] = q[2]     -> 0
                           [] q[1] + 1 = q[2] -> d[q[2]]
                           [] OTHER           -> t[<<q[1], Mid(q)>>] + t[<<Mid(q), q[2]>>]
           G(t) == [q \in P |-> Step(t, q)]
           s == [q \in P |-> p[q[2]] - p[q[1]]]
           h == CHOOSE t : t = G(t)
<1>1. n \in Nat /\ p \in [0..n -> Int] /\ p[0] = 0 /\ \A k \in 1..n : p[k] = p[k - 1] + d[k]
  BY DEF IsPrefixSum
<1>2. Total(d) = h[<<0, n>>]
  BY DEF Total
<1>3. \A k \in 1..n : d[k] \in Int
  OBVIOUS
<1> HIDE DEF n
<1>4. ASSUME NEW a \in 0..n, NEW b \in 0..n, NEW m, m = (a + b) \div 2
      PROVE  m \in 0..n /\ (a + 1 < b => a < m /\ m < b)
  BY <1>1, <1>4
<1>5. \A a \in 0..n : p[a] \in Int
  BY <1>1
<1>6. ASSUME NEW a \in 0..n, NEW b \in 0..n, a + 1 = b
      PROVE  p[b] - p[a] = d[b]
  <2>1. b \in 1..n /\ b - 1 = a
    BY <1>1, <1>6
  <2>2. p[b] = p[a] + d[b] /\ d[b] \in Int /\ p[a] \in Int
    BY <1>1, <1>3, <1>5, <2>1
  <2> QED
    BY <2>2
<1>7. ASSUME NEW q \in P PROVE s[q] = Step(s, q)
  <2> DEFINE a == q[1]
             b == q[2]
             m == Mid(q)
  <2>1. a \in 0..n /\ b \in 0..n /\ m = (a + b) \div 2
    OBVIOUS
  <2>2. s[q] = p[b] - p[a]
    OBVIOUS
  <2>3. Step(s, q) = CASE a = b     -> 0
                       [] a + 1 = b -> d[b]
                       [] OTHER     -> s[<<a, m>>] + s[<<m, b>>]
    OBVIOUS
  <2> HIDE DEF a, b, m
  <2>4. m \in 0..n
    BY <1>4, <2>1
  <2>5. s[<<a, m>>] = p[m] - p[a] /\ s[<<m, b>>] = p[b] - p[m]
    BY <2>1, <2>4
  <2>6. p[a] \in Int /\ p[b] \in Int /\ p[m] \in Int
    BY <1>5, <2>1, <2>4
  <2> HIDE DEF s, Step
  <2>7. CASE a = b
    BY <2>2, <2>3, <2>6, <2>7, <1>1, <2>1
  <2>8. CASE a + 1 = b
    <3>1. a # b
      BY <1>1, <2>1, <2>8
    <3> QED
      BY <1>6, <2>1, <2>2, <2>3, <2>8, <3>1
  <2>9. CASE a # b /\ a + 1 # b
    <3>1. p[b] - p[a] = s[<<a, m>>] + s[<<m, b>>]
      BY <2>5, <2>6
    <3> QED
      BY <2>2, <2>3, <2>9, <3>1
  <2> QED
    BY <2>7, <2>8, <2>9
<1>8. s = G(s)
  <2>1. s = [q \in P |-> s[q]]
    OBVIOUS
  <2> HIDE DEF s, Step
  <2> QED
    BY <1>7, <2>1
<1>9. h = G(h)
  <2> HIDE DEF s, Step, P
  <2> QED
    BY <1>8
<1> HIDE DEF h
<1>10. \A q \in P : h[q] = Step(h, q)
  <2> HIDE DEF Step, P
  <2>1. \A q \in P : G(h)[q] = Step(h, q)
    OBVIOUS
  <2> HIDE DEF G
  <2> QED
    BY <1>9, <2>1
<1> DEFINE Short(w) == \A a, b \in 0..n : a + w = b => h[<<a, b>>] = p[b] - p[a]
           T == {w \in 0..n : ~Short(w)}
<1>11. T = {}
  <2> SUFFICES ASSUME T # {} PROVE FALSE
    OBVIOUS
  <2>1. PICK w \in T : \A y \in T : w <= y
    <3>1. T \in SUBSET Nat
      BY <1>1
    <3> HIDE DEF T
    <3> QED
      BY <3>1, LeastNat
  <2>2. w \in 0..n /\ ~Short(w)
    OBVIOUS
  <2>3. \A y \in 0..n : y < w => Short(y)
    <3> TAKE y \in 0..n
    <3>1. y < w => y \notin T
      <4> HIDE DEF T, Short
      <4>1. w \in Int /\ y \in Int
        BY <1>1, <2>2
      <4> QED
        BY <2>1, <4>1
    <3> HIDE DEF Short
    <3> QED
      BY <3>1
  <2>4. PICK a \in 0..n, b \in 0..n : a + w = b /\ h[<<a, b>>] # p[b] - p[a]
    BY <2>2
  <2> DEFINE m == (a + b) \div 2
  <2>5. m \in 0..n /\ (a + 1 < b => a < m /\ m < b)
    BY <1>4
  <2>6. h[<<a, b>>] = CASE a = b     -> 0
                        [] a + 1 = b -> d[b]
                        [] OTHER     -> h[<<a, m>>] + h[<<m, b>>]
    <3> DEFINE q == <<a, b>>
    <3>1. q \in P /\ q[1] = a /\ q[2] = b
      OBVIOUS
    <3>2. h[q] = Step(h, q)
      <4> HIDE DEF q, Step, P
      <4> QED
        BY <1>10, <3>1
    <3> QED
      BY <3>2
  <2> HIDE DEF m, T, Short
  <2>7. p[a] \in Int /\ p[b] \in Int /\ p[m] \in Int
    BY <1>5, <2>5
  <2>8. a <= b /\ a \in Nat /\ b \in Nat /\ m \in Nat /\ w \in Nat
    BY <1>1, <2>2, <2>4, <2>5
  <2>9. CASE a = b
    BY <2>4, <2>6, <2>7, <2>9
  <2>10. CASE a + 1 = b
    <3>1. a # b
      BY <2>8, <2>10
    <3> QED
      BY <1>6, <2>4, <2>6, <2>10, <3>1
  <2>11. CASE a # b /\ a + 1 # b
    <3>1. a < m /\ m < b
      BY <2>5, <2>8, <2>11
    <3>2. /\ m - a \in 0..n /\ m - a < w /\ a + (m - a) = m
          /\ b - m \in 0..n /\ b - m < w /\ m + (b - m) = b
      BY <1>1, <2>2, <2>4, <2>5, <2>8, <3>1
    <3>3. h[<<a, m>>] = p[m] - p[a]
      BY <2>3, <2>5, <3>2 DEF Short
    <3>4. h[<<m, b>>] = p[b] - p[m]
      BY <2>3, <2>5, <3>2 DEF Short
    <3>5. h[<<a, b>>] = h[<<a, m>>] + h[<<m, b>>]
      BY <2>6, <2>11
    <3>6. h[<<a, b>>] = p[b] - p[a]
      BY <2>7, <3>3, <3>4, <3>5
    <3> QED
      BY <2>4, <3>6
  <2> QED
    BY <2>9, <2>10, <2>11
<1>12. Short(n)
  <2> HIDE DEF Short
  <2>1. n \in 0..n
    BY <1>1
  <2> QED
    BY <1>11, <2>1
<1>13. h[<<0, n>>] = p[n] - p[0] /\ p[n] \in Int
  <2> DEFINE z == 0
  <2>1. z \in 0..n /\ n \in 0..n /\ z + n = n
    BY <1>1
  <2> HIDE DEF z
  <2>2. h[<<z, n>>] = p[n] - p[z]
    BY <1>12, <2>1
  <2> QED
    BY <1>5, <2>1, <2>2 DEF z
<1> QED
  BY <1>1, <1>2, <1>13 DEF n

(* Two sequences that differ in one place at most.                         *)
DifferAt(d, e, k) ==
  /\ Len(e) = Len(d) /\ k \in 1..Len(d)
  /\ \A j \in 1..Len(d) : j # k => e[j] = d[j]

LEMMA PrefixSumsMeet ==
  ASSUME NEW d \in Seq(Nat), NEW e \in Seq(Nat), NEW k, DifferAt(d, e, k),
         NEW p, IsPrefixSum(p, d), NEW q, IsPrefixSum(q, e)
  PROVE  /\ p[Len(d)] \in Nat /\ q[Len(d)] \in Nat
         /\ q[Len(d)] + d[k] = p[Len(d)] + e[k]
         /\ Len(e) = Len(d)
<1> DEFINE n == Len(d)
           x == d[k]
           y == e[k]
           Near(j) == /\ p[j] \in Nat /\ q[j] \in Nat
                      /\ IF j < k THEN q[j] = p[j] ELSE q[j] + x = p[j] + y
           T == {j \in 0..n : ~Near(j)}
<1>1. n \in Nat /\ k \in 1..n /\ x \in Nat /\ y \in Nat
  BY DEF DifferAt
<1>2. /\ p[0] = 0 /\ q[0] = 0
      /\ \A j \in 1..n : p[j] = p[j - 1] + d[j] /\ q[j] = q[j - 1] + e[j]
  BY DEF IsPrefixSum, DifferAt
<1>3. \A j \in 1..n : d[j] \in Nat /\ e[j] \in Nat /\ (j # k => e[j] = d[j])
  BY DEF DifferAt
<1> HIDE DEF n
<1>4. T = {}
  <2> SUFFICES ASSUME T # {} PROVE FALSE
    OBVIOUS
  <2>1. PICK w \in T : \A z \in T : w <= z
    <3>1. T \in SUBSET Nat
      BY <1>1
    <3> HIDE DEF T
    <3> QED
      BY <3>1, LeastNat
  <2>2. w \in 0..n /\ ~Near(w)
    OBVIOUS
  <2>3. w # 0
    <3>1. Near(0)
      BY <1>1, <1>2
    <3> HIDE DEF Near
    <3> QED
      BY <2>2, <3>1
  <2>4. w - 1 \in 0..n /\ w \in 1..n
    BY <1>1, <2>2, <2>3
  <2>5. Near(w - 1)
    <3> HIDE DEF Near
    <3>1. w - 1 \in T <=> ~Near(w - 1)
      BY <2>4
    <3> HIDE DEF T
    <3> QED
      BY <1>1, <2>1, <2>4, <3>1
  <2> DEFINE a == p[w - 1]
             b == q[w - 1]
             u == d[w]
             v == e[w]
  <2>6. p[w] = a + u /\ q[w] = b + v /\ u \in Nat /\ v \in Nat
    BY <1>2, <1>3, <2>4
  <2>7. a \in Nat /\ b \in Nat
    BY <2>5
  <2>8. CASE w < k
    <3>1. u = v /\ w - 1 < k
      BY <1>1, <1>3, <2>4, <2>8
    <3>2. a = b
      BY <2>5, <3>1
    <3> HIDE DEF a, b, u, v, x, y
    <3>3. q[w] = p[w] /\ p[w] \in Nat /\ q[w] \in Nat
      BY <2>6, <2>7, <3>1, <3>2
    <3> QED
      BY <2>2, <2>8, <3>3
  <2>9. CASE w = k
    <3>1. u = x /\ v = y /\ w - 1 < k /\ ~(w < k)
      BY <1>1, <2>9
    <3>2. a = b
      BY <2>5, <3>1
    <3> HIDE DEF a, b, u, v, x, y
    <3>3. q[w] + x = p[w] + y /\ p[w] \in Nat /\ q[w] \in Nat
      BY <1>1, <2>6, <2>7, <3>1, <3>2
    <3> QED
      BY <2>2, <3>1, <3>3
  <2>10. CASE w > k
    <3>1. u = v /\ ~(w - 1 < k) /\ ~(w < k)
      BY <1>1, <1>3, <2>4, <2>10
    <3>2. b + x = a + y
      BY <2>5, <3>1
    <3> HIDE DEF a, b, u, v, x, y
    <3>3. q[w] + x = p[w] + y /\ p[w] \in Nat /\ q[w] \in Nat
      BY <1>1, <2>6, <2>7, <3>1, <3>2
    <3> QED
      BY <2>2, <3>1, <3>3
  <2> QED
    BY <1>1, <2>4, <2>8, <2>9, <2>10
<1>5. Near(n)
  <2> HIDE DEF Near
  <2>1. n \in 0..n
    BY <1>1
  <2> QED
    BY <1>4, <2>1
<1>6. ~(n < k)
  BY <1>1
<1> QED
  BY <1>5, <1>6 DEF n, DifferAt

LEMMA SumIsNat ==
  ASSUME NEW d \in Seq(Nat)
  PROVE  Total(d) \in Nat
<1>1. d \in Seq(Int)
  OBVIOUS
<1>2. PICK p : IsPrefixSum(p, d)
  BY <1>1, PrefixSumExists
<1>3. Total(d) = p[Len(d)]
  BY <1>1, <1>2, TotalIs
<1>4. CASE Len(d) = 0
  BY <1>2, <1>3, <1>4 DEF IsPrefixSum
<1>5. CASE Len(d) # 0
  <2>1. DifferAt(d, d, 1)
    BY <1>5 DEF DifferAt
  <2>2. p[Len(d)] \in Nat
    BY <1>2, <2>1, PrefixSumsMeet
  <2> QED
    BY <1>3, <2>2
<1> QED
  BY <1>4, <1>5

(* Sums that agree cannot hide one summand that does not.                  *)
LEMMA SumSees ==
  ASSUME NEW d \in Seq(Nat), NEW e \in Seq(Nat), NEW k, DifferAt(d, e, k),
         NEW m \in Nat \ {0}, e[k] % m # d[k] % m
  PROVE  Total(e) % m # Total(d) % m
<1> DEFINE a == Total(d)
           b == Total(e)
           x == d[k]
           y == e[k]
<1>1. d \in Seq(Int) /\ e \in Seq(Int)
  OBVIOUS
<1>2. PICK p : IsPrefixSum(p, d)
  BY <1>1, PrefixSumExists
<1>3. PICK q : IsPrefixSum(q, e)
  BY <1>1, PrefixSumExists
<1>4. a = p[Len(d)] /\ b = q[Len(e)]
  BY <1>1, <1>2, <1>3, TotalIs
<1>5. a \in Nat /\ b \in Nat /\ b + x = a + y
  <2>1. /\ p[Len(d)] \in Nat /\ q[Len(d)] \in Nat /\ Len(e) = Len(d)
        /\ q[Len(d)] + d[k] = p[Len(d)] + e[k]
    BY <1>2, <1>3, PrefixSumsMeet
  <2> QED
    BY ONLY <1>4, <2>1
<1>6. x \in Nat /\ y \in Nat
  BY DEF DifferAt
<1>7. y % m # x % m
  OBVIOUS
<1> HIDE DEF a, b, x, y
<1>8. b % m # a % m
  <2> SUFFICES ASSUME b % m = a % m PROVE FALSE
    OBVIOUS
  <2> DEFINE r == a % m
             s == a \div m
             t == b \div m
             ms == m * s
             mt == m * t
  <2>1. s \in Nat /\ r \in Nat /\ a = ms + r
    <3>1. s \in Nat /\ r \in 0..m - 1 /\ a = m * s + r
      BY <1>5, DivSplit
    <3> HIDE DEF r, s
    <3> QED
      BY <3>1
  <2>2. t \in Nat /\ b = mt + r
    BY <1>5, DivSplit
  <2>3. (ms + y) % m = y % m /\ (mt + x) % m = x % m
    BY <1>6, <2>1, <2>2, ModShift
  <2>4. ms \in Nat /\ mt \in Nat
    BY <2>1, <2>2, ProductIsNat
  <2> HIDE DEF r, s, t, ms, mt
  <2>5. ms + y = mt + x
    BY <1>5, <1>6, <2>1, <2>2, <2>4
  <2> QED
    BY <1>7, <2>3, <2>5
<1> QED
  BY <1>8 DEF a, b

LEMMA SealSees ==
  ASSUME NEW d \in Seq(Nat), NEW e \in Seq(Nat), NEW k, DifferAt(d, e, k),
         e[k] % Base # d[k] % Base
  PROVE  Sealed(e) # Sealed(d)
<1>1. Base \in Nat \ {0}
  BY ImageAssumption
<1>2. Total(e) % Base # Total(d) % Base
  BY <1>1, SumSees
<1>3. \A c : Sealed(c)[1] = checksum(c)
  <2> TAKE c
  <2>1. IsSeq(LE(4, crc32(c)))
    BY LEIs
  <2>2. <<checksum(c)>> \in Seq(Range(<<checksum(c)>>)) /\ Len(<<checksum(c)>>) = 1
    <3>1. <<checksum(c)>> \in Seq({checksum(c)})
      OBVIOUS
    <3>2. IsSeq(<<checksum(c)>>)
      BY <3>1, SeqIs
    <3> QED
      BY <3>2 DEF IsSeq
  <2>3. (<<checksum(c)>> \o LE(4, crc32(c)))[1] = <<checksum(c)>>[1]
    <3>1. IsSeq(<<checksum(c)>>) /\ 1 \in 1..Len(<<checksum(c)>>)
      BY <2>2 DEF IsSeq
    <3> QED
      BY <2>1, <3>1, JoinAt
  <2> QED
    BY <2>3 DEF Sealed
<1> QED
  BY <1>2, <1>3 DEF checksum

(* What a field says depends on its own cells.                             *)
Agree(f, g, a, b) == \A i \in a + 1..b : f[i] = g[i]

LEMMA FieldIsNat ==
  ASSUME NEW f \in Seq(Nat), NEW a \in Nat, NEW n \in {1, 2, 4}, a + n <= Len(f)
  PROVE  Val(f, a, n) \in Nat
<1>1. Base \in Nat
  BY ImageAssumption
<1>2. \A i \in 1..n : f[a + i] \in Nat
  OBVIOUS
<1>3. CASE n = 1
  BY <1>2, <1>3 DEF Val
<1>4. CASE n = 2
  <2> DEFINE x == f[a + 1]
             y == f[a + 2]
  <2>1. x \in Nat /\ y \in Nat
    BY <1>2, <1>4
  <2>2. Base * y \in Nat
    BY <1>1, <2>1, ProductIsNat
  <2>3. Val(f, a, n) = x + Base * y
    BY <1>4 DEF Val
  <2> HIDE DEF x, y
  <2> QED
    BY <2>1, <2>2, <2>3
<1>5. CASE n = 4
  <2> DEFINE x == f[a + 1]
             y == f[a + 2]
             z == f[a + 3]
             w == f[a + 4]
             p == Base * w
             q == Base * (z + p)
             r == Base * (y + q)
  <2>1. x \in Nat /\ y \in Nat /\ z \in Nat /\ w \in Nat
    BY <1>2, <1>5
  <2>2. Val(f, a, n) = x + r
    BY <1>5 DEF Val
  <2> HIDE DEF x, y, z, w
  <2>3. p \in Nat
    BY <1>1, <2>1, ProductIsNat
  <2> HIDE DEF p
  <2>4. z + p \in Nat
    BY <2>1, <2>3
  <2>5. q \in Nat
    BY <1>1, <2>4, ProductIsNat
  <2> HIDE DEF q
  <2>6. y + q \in Nat
    BY <2>1, <2>5
  <2>7. r \in Nat
    BY <1>1, <2>6, ProductIsNat
  <2> HIDE DEF r
  <2> QED
    BY <2>1, <2>2, <2>7
<1> QED
  BY <1>3, <1>4, <1>5

LEMMA FieldSame ==
  ASSUME NEW f, NEW g, NEW a \in Nat, NEW n \in {1, 2, 4}, Agree(f, g, a, a + n)
  PROVE  Val(f, a, n) = Val(g, a, n)
<1>1. \A i \in 1..n : f[a + i] = g[a + i]
  BY DEF Agree
<1>2. CASE n = 1
  BY <1>1, <1>2 DEF Val
<1>3. CASE n = 2
  BY <1>1, <1>3 DEF Val
<1>4. CASE n = 4
  BY <1>1, <1>4 DEF Val
<1> QED
  BY <1>2, <1>3, <1>4

LEMMA PieceIs ==
  ASSUME NEW f \in Seq(Nat), NEW a \in Nat, NEW b \in Nat, a <= b, b <= Len(f)
  PROVE  /\ Slice(f, a, b) \in Seq(Nat) /\ Len(Slice(f, a, b)) = b - a
         /\ \A i \in 1..b - a : Slice(f, a, b)[i] = f[a + i]
<1> DEFINE d == SubSeq(f, a + 1, b)
<1>1. IsSeq(f)
  BY SeqIs
<1>2. IsSeq(d) /\ Len(d) = b - a /\ \A i \in 1..b - a : d[i] = f[a + i]
  BY <1>1, PartIs
<1>3. d \in Seq(Nat)
  OBVIOUS
<1> QED
  BY <1>2, <1>3 DEF Slice

LEMMA SliceSame ==
  ASSUME NEW f \in Seq(Nat), NEW g \in Seq(Nat), NEW a \in Nat, NEW b \in Nat, a <= b,
         b <= Len(f), b <= Len(g), Agree(f, g, a, b)
  PROVE  Slice(f, a, b) = Slice(g, a, b)
<1>1. IsSeq(f) /\ IsSeq(g)
  BY SeqIs
<1>2. /\ IsSeq(SubSeq(g, a + 1, b)) /\ Len(SubSeq(g, a + 1, b)) = b - a
      /\ \A i \in 1..b - a : SubSeq(g, a + 1, b)[i] = g[a + i]
  BY <1>1, PartIs
<1>3. \A i \in 1..b - a : f[a + i] = SubSeq(g, a + 1, b)[i]
  BY <1>2 DEF Agree
<1>4. Slice(f, a, b) = SubSeq(g, a + 1, b)
  <2> DEFINE d == SubSeq(g, a + 1, b)
  <2>1. IsSeq(d) /\ Len(d) = b - a /\ \A i \in 1..b - a : f[a + i] = d[i]
    BY <1>2, <1>3
  <2> HIDE DEF d
  <2>2. Slice(f, a, b) = d
    BY <1>1, <2>1, SliceIs
  <2> QED
    BY <2>2 DEF d
<1> QED
  BY <1>4 DEF Slice

(* The parts of an image of a controller that give its code and its        *)
(* writes: the header, and the length of the code with the code.           *)
ReadAlike(f, g) ==
  /\ Agree(f, g, 0, HeaderLen(g)) /\ Agree(f, g, BodyAt(g), CodeEnd(g))

LEMMA PlacesOf ==
  ASSUME NEW g \in Seq(Nat), Len(g) >= HeadSize, HeaderLen(g) >= HeadSize,
         g[7] \in {1, 2, 3, 4, 5}
  PROVE  /\ HeaderLen(g) \in Nat /\ BodyAt(g) = HeaderLen(g) + 5
         /\ LenSize(g[7]) \in {2, 4} /\ CodeAt(g) = BodyAt(g) + LenSize(g[7])
         /\ Len(g) >= CodeAt(g) => CodeEnd(g) \in Nat /\ CodeEnd(g) >= CodeAt(g)
<1>1. HeaderLen(g) \in Nat
  BY FieldIsNat DEF HeaderLen, HeadSize
<1>2. LenSize(g[7]) \in {2, 4}
  BY DEF LenSize
<1>3. BodyAt(g) = HeaderLen(g) + 5 /\ CodeAt(g) = BodyAt(g) + LenSize(g[7])
  BY DEF BodyAt, CodeAt
<1>4. ASSUME Len(g) >= CodeAt(g)
      PROVE  CodeEnd(g) \in Nat /\ CodeEnd(g) >= CodeAt(g)
  <2> DEFINE v == Val(g, BodyAt(g), LenSize(g[7]))
  <2>1. BodyAt(g) \in Nat /\ BodyAt(g) + LenSize(g[7]) <= Len(g)
    BY <1>1, <1>2, <1>3, <1>4
  <2>2. v \in Nat
    BY <1>2, <2>1, FieldIsNat
  <2>3. CodeEnd(g) = CodeAt(g) + v
    BY DEF CodeEnd
  <2> HIDE DEF v
  <2> QED
    BY <1>1, <1>2, <1>3, <2>2, <2>3
<1> QED
  BY <1>1, <1>2, <1>3, <1>4

(* The config words of a header that is whole lie in it.                   *)
LEMMA WordsInHeader ==
  ASSUME NEW g \in Seq(Nat), HeaderLen(g) \in Nat, HeaderLen(g) >= HeadSize
  PROVE  /\ IsSeq(ConfigWords(g))
         /\ \A k \in DOMAIN ConfigWords(g) :
              ConfigWords(g)[k] \in Nat /\ ConfigWords(g)[k] + 8 <= HeaderLen(g)
<1> DEFINE h == HeaderLen(g)
           n == (h - 7) \div 8
           S == {a \in 7..h : a + 8 <= h}
           W(k) == IF g[7 + 8 * (k - 1) + 1] = CC THEN <<7 + 8 * (k - 1)>> ELSE <<>>
           s == [k \in 1..n |-> W(k)]
<1>1. h \in Nat /\ h >= 7
  BY DEF HeadSize
<1>2. ConfigWords(g) = FlattenSeq(s)
  BY DEF ConfigWords, HeadSize
<1> HIDE DEF h
<1>3. n \in Nat /\ 8 * n <= h - 7
  BY <1>1
<1>4. \A k \in 1..n : W(k) \in Seq(S)
  <2> TAKE k \in 1..n
  <2> HIDE DEF n
  <2>1. 7 + 8 * (k - 1) \in S
    BY <1>1, <1>3
  <2> HIDE DEF S
  <2> QED
    BY <2>1
<1>5. s \in Seq(Seq(S))
  <2> HIDE DEF n, W, S
  <2> QED
    BY <1>3, <1>4
<1> HIDE DEF s, S
<1>6. FlattenSeq(s) \in Seq(S)
  BY <1>5, FlatType
<1>7. IsSeq(FlattenSeq(s)) /\ \A k \in DOMAIN FlattenSeq(s) : FlattenSeq(s)[k] \in S
  BY <1>6, SeqIs
<1> QED
  BY <1>1, <1>2, <1>7 DEF S, h

LEMMA AgreeWithin ==
  ASSUME NEW f, NEW g, NEW a \in Nat, NEW b \in Nat, NEW c \in Nat, NEW e \in Nat,
         Agree(f, g, a, b), a <= c, e <= b
  PROVE  Agree(f, g, c, e)
<1>1. \A i \in c + 1..e : i \in a + 1..b
  OBVIOUS
<1> QED
  BY <1>1 DEF Agree

LEMMA AlikeIsRead ==
  ASSUME NEW f \in Seq(Nat), NEW g \in Seq(Nat), XhcAccepts(g),
         Len(g) <= Len(f), ReadAlike(f, g)
  PROVE  XhcCode(f) = XhcCode(g) /\ Writes(f) = Writes(g)
<1> DEFINE h == HeaderLen(g)
           b == BodyAt(g)
           n == LenSize(g[7])
           c == CodeAt(g)
           e == CodeEnd(g)
<1>1. /\ Len(g) >= HeadSize /\ h >= HeadSize /\ (h - HeadSize) % 8 = 0
      /\ g[7] \in {1, 2, 3, 4, 5} /\ Len(g) >= b /\ Len(g) >= c /\ Len(g) >= e + 1 + 5
      /\ \A k \in DOMAIN ConfigWords(g) : g[ConfigWords(g)[k] + 2] \in {1, 2, 4}
  BY DEF XhcAccepts
<1>2. /\ h \in Nat /\ b = h + 5 /\ n \in {2, 4} /\ c = b + n
      /\ e \in Nat /\ e >= c
  BY <1>1, PlacesOf
<1>3. Agree(f, g, 0, h) /\ Agree(f, g, b, e) /\ h >= 7 /\ e + 6 <= Len(g)
  BY <1>1, <1>2 DEF ReadAlike, HeadSize
<1>4. \A i \in 1..h : f[i] = g[i]
  BY <1>2, <1>3 DEF Agree
<1>5. Len(f) \in Nat /\ Len(g) \in Nat /\ Len(g) <= Len(f)
  OBVIOUS
<1>6. HeaderLen(f) = h
  <2>1. Agree(f, g, 4, 4 + 2)
    <3> HIDE DEF h
    <3>1. 4 \in Nat /\ 4 + 2 \in Nat /\ 0 \in Nat /\ h \in Nat /\ 0 <= 4 /\ 4 + 2 <= h
      BY ONLY <1>2, <1>3
    <3>2. Agree(f, g, 0, h)
      BY <1>3
    <3> QED
      BY <3>1, <3>2, AgreeWithin
  <2>2. Val(f, 4, 2) = Val(g, 4, 2)
    <3> DEFINE four == 4
               two == 2
    <3>1. four \in Nat /\ two \in {1, 2, 4}
      OBVIOUS
    <3>2. Agree(f, g, four, four + two)
      BY <2>1
    <3> HIDE DEF four, two
    <3>3. Val(f, four, two) = Val(g, four, two)
      BY <3>1, <3>2, FieldSame
    <3> QED
      BY <3>3 DEF four, two
  <2> QED
    BY <2>2 DEF HeaderLen
<1>7. f[7] = g[7]
  <2> HIDE DEF h
  <2> QED
    BY <1>2, <1>3, <1>4
<1>8. BodyAt(f) = b /\ CodeAt(f) = c
  BY <1>6, <1>7 DEF BodyAt, CodeAt
<1>9. CodeEnd(f) = e
  <2>1. Agree(f, g, b, b + n)
    <3> HIDE DEF h, b, n, c, e
    <3>1. b \in Nat /\ b + n \in Nat /\ e \in Nat /\ b <= b /\ b + n <= e
      BY ONLY <1>2
    <3>2. Agree(f, g, b, e)
      BY <1>3
    <3> QED
      BY <3>1, <3>2, AgreeWithin
  <2>2. b \in Nat /\ n \in {1, 2, 4}
    <3> HIDE DEF h, b, n, c, e
    <3> QED
      BY <1>2
  <2>3. Val(f, b, n) = Val(g, b, n)
    <3> HIDE DEF b, n
    <3> QED
      BY <2>1, <2>2, FieldSame
  <2> QED
    BY <1>7, <1>8, <2>3 DEF CodeEnd
<1>10. XhcCode(f) = XhcCode(g)
  <2> HIDE DEF h, b, n, c, e
  <2>1. Agree(f, g, c, e)
    <3>1. b \in Nat /\ c \in Nat /\ e \in Nat /\ b <= c
      BY ONLY <1>2
    <3>2. Agree(f, g, b, e)
      BY <1>3
    <3> QED
      BY <3>1, <3>2, AgreeWithin
  <2>2. c \in Nat /\ e \in Nat /\ c <= e /\ e <= Len(f) /\ e <= Len(g)
    <3>1. h \in Nat /\ b = h + 5 /\ n \in {2, 4} /\ c = b + n /\ e \in Nat /\ e >= c
      BY <1>2
    <3>2. e + 6 <= Len(g)
      BY <1>3
    <3> QED
      BY ONLY <1>5, <3>1, <3>2
  <2>3. Slice(f, c, e) = Slice(g, c, e)
    BY <2>1, <2>2, SliceSame
  <2>4. XhcCode(f) = Slice(f, c, e)
    BY <1>8, <1>9 DEF XhcCode
  <2>5. XhcCode(g) = Slice(g, c, e)
    BY DEF XhcCode, c, e
  <2> QED
    BY <2>3, <2>4, <2>5
<1>11. ConfigWords(f) = ConfigWords(g)
  <2> DEFINE m == (h - 7) \div 8
             At(x, k) == x[7 + 8 * (k - 1) + 1]
             W(x, k) == IF At(x, k) = CC THEN <<7 + 8 * (k - 1)>> ELSE <<>>
  <2>1. ASSUME NEW k \in 1..m PROVE At(f, k) = At(g, k)
    <3> HIDE DEF h
    <3>1. 7 + 8 * (k - 1) + 1 \in 1..h
      BY <1>2, <1>3, <2>1
    <3> QED
      BY <1>4, <3>1
  <2>2. ConfigWords(f) = FlattenSeq([k \in 1..m |-> W(f, k)])
    BY <1>6 DEF ConfigWords, HeadSize
  <2>3. ConfigWords(g) = FlattenSeq([k \in 1..m |-> W(g, k)])
    BY DEF ConfigWords, HeadSize
  <2>4. [k \in 1..m |-> W(f, k)] = [k \in 1..m |-> W(g, k)]
    <3> HIDE DEF m, At
    <3> QED
      BY <2>1
  <2> QED
    BY <2>2, <2>3, <2>4
<1>12. Writes(f) = Writes(g)
  <2> DEFINE at == ConfigWords(g)
             Wr(x, a) == <<Val(x, a + 2, 2), x[a + 2], Val(x, a + 4, x[a + 2])>>
  <2>1. \A k \in DOMAIN at : at[k] \in Nat /\ at[k] + 8 <= h
    BY <1>1, <1>2, WordsInHeader
  <2>2. ASSUME NEW k \in DOMAIN at PROVE Wr(f, at[k]) = Wr(g, at[k])
    <3> DEFINE a == at[k]
    <3>1. a \in Nat /\ a + 8 <= h
      BY <2>1, <2>2
    <3>2. g[a + 2] \in {1, 2, 4}
      BY <1>1, <2>2
    <3> HIDE DEF a, h
    <3>3. f[a + 2] = g[a + 2]
      BY <1>2, <1>3, <3>1 DEF Agree
    <3>4. Agree(f, g, a + 2, a + 2 + 2) /\ a + 2 \in Nat
      BY <1>2, <1>3, <3>1 DEF Agree
    <3>5. Agree(f, g, a + 4, a + 4 + g[a + 2]) /\ a + 4 \in Nat
      <4> DEFINE s == g[a + 2]
      <4>1. s \in {1, 2, 4}
        BY <3>2
      <4> HIDE DEF s
      <4>2. ASSUME NEW i \in a + 4 + 1..a + 4 + s PROVE f[i] = g[i]
        <5>1. h \in Nat
          BY <1>2
        <5>2. i \in 1..h
          BY ONLY <3>1, <4>1, <5>1, i \in a + 4 + 1..a + 4 + s
        <5> QED
          BY <1>4, <5>2
      <4>3. Agree(f, g, a + 4, a + 4 + s)
        BY <4>2 DEF Agree
      <4> QED
        BY <3>1, <4>3 DEF s
    <3>6. Val(f, a + 2, 2) = Val(g, a + 2, 2)
      BY <3>4, FieldSame
    <3>7. Val(f, a + 4, g[a + 2]) = Val(g, a + 4, g[a + 2])
      BY <3>2, <3>5, FieldSame
    <3> QED
      BY <3>3, <3>6, <3>7 DEF a
  <2>3. Writes(f) = [k \in DOMAIN at |-> Wr(f, at[k])]
    BY <1>11 DEF Writes
  <2>4. Writes(g) = [k \in DOMAIN at |-> Wr(g, at[k])]
    BY DEF Writes
  <2> HIDE DEF at, Wr
  <2> QED
    BY <2>2, <2>3, <2>4
<1> QED
  BY <1>10, <1>12

(* validate_fw.py: what it finds in a file it accepts.                     *)
Reading(f) == IF IsProm(f) THEN Good(PromCode(f), <<>>) ELSE Good(XhcCode(f), Writes(f))

LEMMA AcceptedIsRead ==
  ASSUME NEW f
  PROVE  /\ Validated(f).ok \in BOOLEAN
         /\ Validated(f).ok <=> IF IsProm(f) THEN PromAccepts(f) ELSE XhcAccepts(f)
         /\ Validated(f).ok => Validated(f) = Reading(f)
         /\ ~Validated(f).ok => Validated(f) = Refused
  BY DEF Validated, Reading, Good, Refused

LEMMA PromPlaces ==
  ASSUME NEW g \in Seq(Nat), Len(g) >= 5, Val(g, 1, 2) - PromHead >= 0
  PROVE  LET n == Val(g, 1, 2) - PromHead
         IN  n \in Nat /\ n - (n % Page) \in 0..n
<1> DEFINE v == Val(g, 1, 2)
           n == v - 5
           r == n % Page
<1>1. v \in Nat
  BY FieldIsNat
<1> HIDE DEF v
<1>2. n \in Nat
  BY <1>1 DEF PromHead, v
<1>3. Page \in Nat \ {0}
  BY ImageAssumption
<1>4. n \div Page \in Nat /\ r \in 0..Page - 1 /\ n = Page * (n \div Page) + r
  <2> HIDE DEF n
  <2> QED
    BY <1>2, <1>3, DivSplit
<1>5. Page * (n \div Page) \in Nat
  BY <1>3, <1>4, ProductIsNat
<1>6. n - r \in 0..n
  <2> DEFINE z == Page * (n \div Page)
  <2>1. n = z + r /\ z \in Nat
    BY <1>4, <1>5
  <2> HIDE DEF n, r, z
  <2> QED
    BY <1>2, <1>3, <1>4, <2>1
<1> QED
  BY <1>2, <1>6 DEF PromHead, v

(* The parts of a Promontory image that give its code.                     *)
PromEnd(g) ==
  LET n == Val(g, 1, 2) - PromHead
  IN  PromHead + n - (n % Page)
PromAlike(f, g) == Agree(f, g, 1, 3) /\ Agree(f, g, PromHead, PromEnd(g))

LEMMA PromEndIs ==
  ASSUME NEW g \in Seq(Nat), PromAccepts(g)
  PROVE  /\ PromEnd(g) \in Nat /\ PromEnd(g) >= 5 /\ PromEnd(g) <= Len(g)
         /\ PromCode(g) = Slice(g, 5, PromEnd(g)) /\ Len(g) >= 5
         /\ Total(PromCode(g)) % Base^2 = Val(g, 3, 2)
<1> DEFINE n == Val(g, 1, 2) - PromHead
           s == n - (n % Page)
<1>1. Len(g) >= 5 /\ n >= 0 /\ Len(g) >= 5 + n
      /\ Total(PromCode(g)) % Base^2 = Val(g, 3, 2)
  BY DEF PromAccepts, PromHead
<1>2. n \in Nat /\ s \in 0..n
  BY <1>1, PromPlaces
<1>3. PromEnd(g) = 5 + s
  <2>1. PromEnd(g) = 5 + n - (n % Page)
    BY DEF PromEnd, PromHead
  <2>2. n % Page \in Int
    BY <1>2, ImageAssumption
  <2> HIDE DEF n
  <2> QED
    BY <1>2, <2>1, <2>2
<1>4. PromCode(g) = Slice(g, 5, PromEnd(g))
  BY DEF PromCode, PromEnd, PromHead
<1>5. Len(g) \in Nat
  OBVIOUS
<1> HIDE DEF n, s
<1> QED
  BY <1>1, <1>2, <1>3, <1>4, <1>5

LEMMA PromAlikeIsRead ==
  ASSUME NEW f \in Seq(Nat), NEW g \in Seq(Nat), PromAccepts(g),
         Len(g) <= Len(f), PromAlike(f, g)
  PROVE  PromEnd(f) = PromEnd(g) /\ PromCode(f) = PromCode(g)
<1> DEFINE e == PromEnd(g)
<1>1. e \in Nat /\ e >= 5 /\ e <= Len(g) /\ PromCode(g) = Slice(g, 5, e)
  BY PromEndIs
<1>2. Agree(f, g, 1, 1 + 2) /\ Agree(f, g, 5, e)
  BY DEF PromAlike, PromHead
<1>3. Val(f, 1, 2) = Val(g, 1, 2)
  <2> DEFINE one == 1
             two == 2
  <2>1. one \in Nat /\ two \in {1, 2, 4}
    OBVIOUS
  <2>2. Agree(f, g, one, one + two)
    BY <1>2
  <2> HIDE DEF one, two
  <2>3. Val(f, one, two) = Val(g, one, two)
    BY <2>1, <2>2, FieldSame
  <2> QED
    BY <2>3 DEF one, two
<1>4. PromEnd(f) = e
  BY <1>3 DEF PromEnd
<1>5. PromCode(f) = Slice(f, 5, e)
  BY <1>4 DEF PromCode, PromEnd, PromHead
<1>6. Len(f) \in Nat /\ Len(g) \in Nat
  OBVIOUS
<1> HIDE DEF e
<1>7. Slice(f, 5, e) = Slice(g, 5, e)
  <2> DEFINE z == 5
  <2>1. z \in Nat /\ z <= e /\ e <= Len(f) /\ Agree(f, g, z, e)
    BY <1>1, <1>2, <1>6
  <2> HIDE DEF z
  <2>2. Slice(f, z, e) = Slice(g, z, e)
    BY <1>1, <2>1, SliceSame
  <2> QED
    BY <2>2 DEF z
<1> QED
  BY <1>1, <1>4, <1>5, <1>7 DEF e

(* An image that was cut short is refused, or it still holds the whole     *)
(* code and all writes: what was cut away is not read.  This is so for     *)
(* every file, of either format.                                           *)
THEOREM CutSeen ==
  ASSUME NEW f \in Seq(Nat), NEW n \in 0..Len(f), Validated(SubSeq(f, 1, n)).ok
  PROVE  Validated(SubSeq(f, 1, n)) = Reading(f)
<1> DEFINE g == SubSeq(f, 1, n)
<1>1. g \in Seq(Nat) /\ Len(g) = n /\ Len(g) <= Len(f) /\ \A i \in 1..n : f[i] = g[i]
  OBVIOUS
<1>2. n \in Nat
  OBVIOUS
<1>3. Validated(g) = Reading(g) /\ IF IsProm(g) THEN PromAccepts(g) ELSE XhcAccepts(g)
  BY AcceptedIsRead
<1> HIDE DEF g
<1>4. n >= 5
  <2>1. CASE IsProm(g)
    <3>1. Len(g) >= 5
      BY <1>1, <1>3, <2>1, PromEndIs
    <3> QED
      BY <1>1, <3>1
  <2>2. CASE ~IsProm(g)
    <3>1. Len(g) >= 7
      BY <1>3, <2>2 DEF XhcAccepts, HeadSize
    <3> QED
      BY <1>1, <1>2, <3>1
  <2> QED
    BY <2>1, <2>2
<1>5. IsProm(f) = IsProm(g)
  <2>1. f[1] = g[1] /\ f # <<>> /\ g # <<>>
    BY <1>1, <1>2, <1>4
  <2> QED
    BY <2>1 DEF IsProm
<1>6. CASE IsProm(g)
  <2>1. PromAccepts(g) /\ PromEnd(g) \in Nat /\ PromEnd(g) <= n
    BY <1>1, <1>3, <1>6, PromEndIs
  <2>2. PromAlike(f, g)
    BY <1>1, <1>2, <1>4, <2>1 DEF PromAlike, Agree, PromHead
  <2>3. PromCode(f) = PromCode(g)
    BY <1>1, <2>1, <2>2, PromAlikeIsRead
  <2> QED
    BY <1>3, <1>5, <1>6, <2>3 DEF Reading, g
<1>7. CASE ~IsProm(g)
  <2>1. XhcAccepts(g)
    BY <1>3, <1>7
  <2> DEFINE h == HeaderLen(g)
             b == BodyAt(g)
             c == CodeAt(g)
             e == CodeEnd(g)
  <2>2. /\ Len(g) >= HeadSize /\ h >= HeadSize /\ g[7] \in {1, 2, 3, 4, 5}
        /\ n >= c /\ n >= e + 1 + 5
    BY <1>1, <2>1 DEF XhcAccepts
  <2>3. h \in Nat /\ b = h + 5 /\ e \in Nat /\ e >= c /\ c >= b /\ c \in Nat
    <3>1. /\ h \in Nat /\ b = h + 5 /\ LenSize(g[7]) \in {2, 4} /\ c = b + LenSize(g[7])
          /\ e \in Nat /\ e >= c
      BY <1>1, <2>2, PlacesOf
    <3> HIDE DEF h, b, c, e
    <3> QED
      BY <3>1
  <2>4. ReadAlike(f, g)
    <3>1. Agree(f, g, 0, h) /\ Agree(f, g, b, e)
      <4> HIDE DEF h, b, c, e
      <4>1. h <= n /\ b >= 0 /\ e <= n
        <5>1. n >= e + 1 + 5
          BY <2>2
        <5> QED
          BY ONLY <1>2, <2>3, <5>1
      <4> QED
        BY <1>1, <1>2, <2>3, <4>1 DEF Agree
    <3> QED
      BY <3>1 DEF ReadAlike
  <2>5. XhcCode(f) = XhcCode(g) /\ Writes(f) = Writes(g)
    BY <1>1, <2>1, <2>4, AlikeIsRead
  <2> QED
    BY <1>3, <1>5, <1>7, <2>5 DEF Reading, g
<1> QED
  BY <1>6, <1>7

(* A whole image.  make_image.py writes such ones from binaries of any     *)
(* length, also from those that are too short to be accepted.              *)
Whole(f) ==
  /\ f \in Seq(Nat) /\ f # <<>>
  /\ IF IsProm(f) THEN PromAccepts(f)
                     ELSE SealedImage(f)

(* The cells that say where the parts of an image are: its lengths and, of *)
(* a Promontory image, the magic.                                          *)
Steers(f) == IF IsProm(f) THEN 1..3 ELSE {5, 6} \union BodyAt(f) + 1..CodeAt(f)

(* One cell of an image has another value than it had.                     *)
ChangedAt(f, g, k) ==
  /\ f \in Seq(Nat) /\ g \in Seq(Nat) /\ DifferAt(f, g, k)
  /\ g[k] \in 0..Base - 1 /\ g[k] # f[k] % Base

LEMMA ChangeIs ==
  ASSUME NEW f, NEW g, NEW k, ChangedAt(f, g, k)
  PROVE  /\ g[k] % Base # f[k] % Base /\ g[k] # f[k] /\ g[k] < Base
         /\ Len(g) = Len(f) /\ Len(f) \in Nat /\ k \in 1..Len(f)
         /\ \A i \in 1..Len(f) : i # k => f[i] = g[i]
<1>1. Base \in Nat \ {0} /\ g[k] \in 0..Base - 1 /\ g[k] # f[k] % Base
  BY ImageAssumption DEF ChangedAt
<1>2. /\ Len(g) = Len(f) /\ Len(f) \in Nat /\ k \in 1..Len(f)
      /\ \A i \in 1..Len(f) : i # k => f[i] = g[i]
  BY DEF ChangedAt, DifferAt
<1>3. g[k] % Base = g[k]
  BY <1>1, ModSmall
<1>4. g[k] # f[k]
  <2> SUFFICES ASSUME g[k] = f[k] PROVE FALSE
    OBVIOUS
  <2> QED
    BY <1>1, <1>3
<1> QED
  BY <1>1, <1>2, <1>3, <1>4

LEMMA FieldKept ==
  ASSUME NEW f, NEW g, NEW k, ChangedAt(f, g, k), NEW a \in Nat, NEW b \in Nat,
         b <= Len(f), k \notin a + 1..b
  PROVE  Agree(f, g, a, b) /\ Agree(g, f, a, b)
<1>1. /\ Len(g) = Len(f) /\ Len(f) \in Nat
      /\ \A i \in 1..Len(f) : i # k => f[i] = g[i]
  BY ChangeIs
<1>2. \A i \in a + 1..b : i \in 1..Len(f) /\ i # k
  BY <1>1
<1> QED
  BY <1>1, <1>2 DEF Agree

(* A part that a cell was changed in has another seal, and another sum.    *)
LEMMA PartChanged ==
  ASSUME NEW f, NEW g, NEW k, ChangedAt(f, g, k), NEW a \in Nat, NEW b \in Nat,
         a <= b, b <= Len(f), k \in a + 1..b
  PROVE  /\ Sealed(Slice(g, a, b)) # Sealed(Slice(f, a, b))
         /\ Total(Slice(g, a, b)) % Base # Total(Slice(f, a, b)) % Base
<1> DEFINE d == Slice(f, a, b)
           e == Slice(g, a, b)
           j == k - a
<1>1. /\ g[k] % Base # f[k] % Base /\ Len(g) = Len(f)
      /\ \A i \in 1..Len(f) : i # k => f[i] = g[i]
  BY ChangeIs
<1>2. f \in Seq(Nat) /\ g \in Seq(Nat) /\ Base \in Nat \ {0}
  BY ImageAssumption DEF ChangedAt
<1>3. d \in Seq(Nat) /\ Len(d) = b - a /\ \A i \in 1..b - a : d[i] = f[a + i]
  BY <1>2, PieceIs
<1>4. e \in Seq(Nat) /\ Len(e) = b - a /\ \A i \in 1..b - a : e[i] = g[a + i]
  <2>1. b <= Len(g)
    BY <1>1
  <2> QED
    BY <1>2, <2>1, PieceIs
<1> HIDE DEF d, e
<1>5. j \in 1..b - a /\ a + j = k
  OBVIOUS
<1> HIDE DEF j
<1>6. DifferAt(d, e, j)
  <2>1. ASSUME NEW i \in 1..b - a, i # j PROVE e[i] = d[i]
    <3>1. a + i \in 1..Len(f) /\ a + i # k
      BY <1>2, <1>5, <2>1
    <3> QED
      BY <1>1, <1>3, <1>4, <3>1
  <2> QED
    BY <1>3, <1>4, <1>5, <2>1 DEF DifferAt
<1>7. e[j] % Base # d[j] % Base
  BY <1>1, <1>3, <1>4, <1>5
<1>8. Sealed(e) # Sealed(d)
  BY <1>3, <1>4, <1>6, <1>7, SealSees
<1>9. Total(e) % Base # Total(d) % Base
  BY <1>2, <1>3, <1>4, <1>6, <1>7, SumSees
<1> QED
  BY <1>8, <1>9 DEF d, e

LEMMA XhcChange ==
  ASSUME NEW f, NEW g, NEW k, ChangedAt(f, g, k), Whole(f), ~IsProm(f),
         k \notin Steers(f), XhcAccepts(g)
  PROVE  XhcCode(g) = XhcCode(f) /\ Writes(g) = Writes(f)
<1> DEFINE h == HeaderLen(f)
           b == BodyAt(f)
           n == LenSize(f[7])
           c == CodeAt(f)
           e == CodeEnd(f)
<1>1. /\ f \in Seq(Nat) /\ g \in Seq(Nat) /\ Len(g) = Len(f) /\ Len(f) \in Nat
      /\ k \in 1..Len(f) /\ \A i \in 1..Len(f) : i # k => f[i] = g[i]
  BY ChangeIs DEF ChangedAt
<1>2. /\ Len(f) >= 7 /\ f[7] \in {1, 2, 3, 4, 5} /\ h >= 7
      /\ Len(f) >= c /\ Len(f) >= e + 1 + 5
      /\ Slice(f, h, b) = Sealed(Slice(f, 0, h))
      /\ Slice(f, e + 1, e + 6) = Sealed(XhcCode(f))
  BY DEF Whole, SealedImage, HeadSize
<1>3. /\ h \in Nat /\ b = h + 5 /\ n \in {2, 4} /\ c = b + n
      /\ e \in Nat /\ e >= c
  BY <1>1, <1>2, PlacesOf DEF HeadSize
<1>4. k \notin {5, 6} /\ k \notin b + 1..c
  BY DEF Steers
<1>5. /\ Slice(g, HeaderLen(g), BodyAt(g)) = Sealed(Slice(g, 0, HeaderLen(g)))
      /\ Slice(g, CodeEnd(g) + 1, CodeEnd(g) + 6) = Sealed(XhcCode(g))
  BY DEF XhcAccepts
<1>6. HeaderLen(g) = h /\ BodyAt(g) = b
  <2>1. Agree(g, f, 4, 4 + 2)
    <3> DEFINE z == 4
    <3>1. z \in Nat /\ z + 2 \in Nat /\ z + 2 <= Len(f) /\ k \notin z + 1..z + 2
      BY <1>1, <1>2, <1>4
    <3> HIDE DEF z
    <3>2. Agree(g, f, z, z + 2)
      BY <3>1, FieldKept
    <3> QED
      BY <3>2 DEF z
  <2>2. Val(g, 4, 2) = Val(f, 4, 2)
    BY <2>1, FieldSame
  <2> QED
    BY <2>2 DEF HeaderLen, BodyAt
<1> HIDE DEF h, b, n, c, e
<1>7. b <= Len(f) /\ c <= Len(f) /\ e + 6 <= Len(f) /\ c \in Nat /\ b \in Nat
  <2>1. Len(f) \in Nat /\ Len(f) >= e + 1 + 5
    BY <1>1, <1>2
  <2> QED
    BY ONLY <1>3, <2>1
<1>8. k \notin 1..h
  <2> SUFFICES ASSUME k \in 1..h PROVE FALSE
    OBVIOUS
  <2> DEFINE z == 0
  <2>1. z \in Nat /\ z <= h /\ h <= Len(f) /\ k \in z + 1..h
    BY <1>3, <1>7
  <2>2. k \notin h + 1..b
    BY <1>3
  <2> HIDE DEF z
  <2>3. Sealed(Slice(g, z, h)) # Sealed(Slice(f, z, h))
    BY <1>3, <2>1, PartChanged
  <2>4. Agree(g, f, h, b)
    BY <1>3, <1>7, <2>2, FieldKept
  <2>5. Slice(g, h, b) = Slice(f, h, b)
    <3>1. h <= b /\ b <= Len(g)
      BY <1>1, <1>3, <1>7
    <3> QED
      BY <1>1, <1>3, <1>7, <2>4, <3>1, SliceSame
  <2>6. Slice(g, h, b) = Sealed(Slice(g, z, h))
    BY <1>5, <1>6 DEF z
  <2>7. Slice(f, h, b) = Sealed(Slice(f, z, h))
    BY <1>2 DEF z
  <2> QED
    BY <2>3, <2>5, <2>6, <2>7
<1>9. g[7] = f[7]
  <2>1. 7 \in 1..Len(f) /\ 7 # k
    BY <1>1, <1>2, <1>3, <1>8
  <2> QED
    BY <1>1, <2>1
<1>10. CodeAt(g) = c /\ CodeEnd(g) = e
  <2>1. LenSize(g[7]) = n
    BY <1>9 DEF n
  <2>2. CodeAt(g) = c
    BY <1>6, <1>9 DEF CodeAt, c, b
  <2>3. Agree(g, f, b, b + n)
    BY <1>3, <1>4, <1>7, FieldKept
  <2>4. Val(g, b, n) = Val(f, b, n)
    <3>1. n \in {1, 2, 4}
      BY <1>3
    <3> QED
      BY <1>7, <2>3, <3>1, FieldSame
  <2>5. CodeEnd(g) = c + Val(g, b, n)
    BY <1>6, <2>1, <2>2 DEF CodeEnd
  <2>6. e = c + Val(f, b, n)
    BY DEF CodeEnd, c, b, n, e
  <2> QED
    BY <2>2, <2>4, <2>5, <2>6
<1>11. XhcCode(g) = Slice(g, c, e) /\ XhcCode(f) = Slice(f, c, e)
  BY <1>10 DEF XhcCode, c, e
<1>12. k \notin c + 1..e
  <2> SUFFICES ASSUME k \in c + 1..e PROVE FALSE
    OBVIOUS
  <2>1. c <= e /\ e <= Len(f) /\ k \notin e + 1 + 1..e + 6
    BY <1>3, <1>7
  <2>2. Sealed(Slice(g, c, e)) # Sealed(Slice(f, c, e))
    BY <1>3, <1>7, <2>1, PartChanged
  <2> DEFINE a == e + 1
             z == e + 6
  <2>3. a \in Nat /\ z \in Nat /\ a <= z /\ z <= Len(f) /\ z <= Len(g) /\ k \notin a + 1..z
    <3>1. Len(g) = Len(f) /\ Len(f) \in Nat /\ e \in Nat /\ e + 6 <= Len(f)
      BY <1>1, <1>3, <1>7
    <3> QED
      BY ONLY <2>1, <3>1
  <2> HIDE DEF a, z
  <2>4. Agree(g, f, a, z)
    BY <2>3, FieldKept
  <2>5. Slice(g, a, z) = Slice(f, a, z)
    BY <1>1, <2>3, <2>4, SliceSame
  <2> QED
    BY <1>2, <1>5, <1>10, <1>11, <2>2, <2>5 DEF a, z
<1>13. ReadAlike(f, g)
  <2>1. Agree(f, g, 0, h)
    <3> DEFINE z == 0
    <3>1. z \in Nat /\ h <= Len(f) /\ k \notin z + 1..h
      BY <1>3, <1>7, <1>8
    <3> HIDE DEF z
    <3>2. Agree(f, g, z, h)
      BY <1>3, <3>1, FieldKept
    <3> QED
      BY <3>2 DEF z
  <2>2. Agree(f, g, b, e)
    <3>1. k \notin b + 1..e /\ e <= Len(f)
      <4>1. Len(f) \in Nat /\ k \in 1..Len(f)
        BY <1>1
      <4> QED
        BY ONLY <1>3, <1>4, <1>7, <1>12, <4>1
    <3> QED
      BY <1>3, <1>7, <3>1, FieldKept
  <2> QED
    BY <1>6, <1>10, <2>1, <2>2 DEF ReadAlike
<1>14. Len(g) <= Len(f)
  BY <1>1
<1> QED
  BY <1>1, <1>13, <1>14, AlikeIsRead

LEMMA PromChange ==
  ASSUME NEW f, NEW g, NEW k, ChangedAt(f, g, k), PromAccepts(f), k \notin 1..3,
         PromAccepts(g)
  PROVE  PromCode(g) = PromCode(f)
<1> DEFINE e == PromEnd(f)
<1>1. /\ f \in Seq(Nat) /\ g \in Seq(Nat) /\ Len(g) = Len(f) /\ Len(f) \in Nat
      /\ k \in 1..Len(f) /\ \A i \in 1..Len(f) : i # k => f[i] = g[i]
      /\ g[k] # f[k] /\ g[k] \in Nat /\ f[k] \in Nat
  BY ChangeIs DEF ChangedAt
<1>2. /\ e \in Nat /\ e >= 5 /\ e <= Len(f) /\ PromCode(f) = Slice(f, 5, e)
      /\ Total(PromCode(f)) % Base^2 = Val(f, 3, 2) /\ Len(f) >= 5
  BY <1>1, PromEndIs
<1>3. PromEnd(g) = e /\ PromCode(g) = Slice(g, 5, e)
  <2>1. Agree(g, f, 1, 1 + 2)
    <3> DEFINE z == 1
    <3>1. z \in Nat /\ z + 2 \in Nat /\ z + 2 <= Len(f) /\ k \notin z + 1..z + 2
      BY <1>1, <1>2
    <3> HIDE DEF z
    <3>2. Agree(g, f, z, z + 2)
      BY <3>1, FieldKept
    <3> QED
      BY <3>2 DEF z
  <2>2. Val(g, 1, 2) = Val(f, 1, 2)
    BY <2>1, FieldSame
  <2>3. PromEnd(g) = e
    BY <2>2 DEF PromEnd
  <2>4. PromCode(g) = Slice(g, 5, PromEnd(g))
    BY <1>1, PromEndIs
  <2> QED
    BY <2>3, <2>4
<1>4. Total(PromCode(g)) % Base^2 = Val(g, 3, 2)
  BY <1>1, PromEndIs
<1> HIDE DEF e
<1> DEFINE five == 5
<1>5. five \in Nat /\ five <= e /\ e <= Len(f) /\ e <= Len(g)
  BY <1>1, <1>2
<1>6. PromCode(f) = Slice(f, five, e) /\ PromCode(g) = Slice(g, five, e)
  BY <1>2, <1>3
<1>7. Base \in Nat \ {0} /\ Base^2 \in Nat \ {0} /\ Base^2 % Base = 0
  <2>1. Base \in Nat \ {0} /\ Base^2 \in Nat \ {0} /\ Base^2 = Base * Base
    BY PowersOfBase
  <2>2. (Base * Base + 0) % Base = 0
    <3> DEFINE z == 0
    <3>1. Base \in Nat /\ z \in 0..Base - 1
      BY <2>1
    <3> HIDE DEF z
    <3>2. (Base * Base + z) % Base = z
      BY <2>1, <3>1, DivUnique
    <3> QED
      BY <3>2 DEF z
  <2>3. Base * Base \in Nat
    BY <2>1, ProductIsNat
  <2>4. Base * Base + 0 = Base * Base
    BY <2>3
  <2> QED
    BY <2>1, <2>2, <2>4
<1>8. CASE k \in five + 1..e
  <2>1. Total(Slice(g, five, e)) % Base # Total(Slice(f, five, e)) % Base
    BY <1>2, <1>5, <1>8, PartChanged
  <2>2. Agree(g, f, 3, 3 + 2)
    <3> DEFINE z == 3
    <3>1. z \in Nat /\ z + 2 \in Nat /\ z + 2 <= Len(f) /\ k \notin z + 1..z + 2
      <4>1. k \in Nat /\ k > 5
        BY <1>2, <1>8
      <4>2. Len(f) \in Nat /\ Len(f) >= 5
        BY <1>1, <1>2
      <4>3. k \notin z + 1..z + 2
        BY ONLY <4>1
      <4> QED
        BY ONLY <4>2, <4>3
    <3> HIDE DEF z
    <3>2. Agree(g, f, z, z + 2)
      BY <3>1, FieldKept
    <3> QED
      BY <3>2 DEF z
  <2>3. Val(g, 3, 2) = Val(f, 3, 2)
    BY <2>2, FieldSame
  <2>4. Slice(f, five, e) \in Seq(Nat) /\ Slice(g, five, e) \in Seq(Nat)
    BY <1>1, <1>2, <1>5, PieceIs
  <2> DEFINE a == Total(Slice(f, five, e))
             b == Total(Slice(g, five, e))
             m == Base
             q == Base^2
  <2>5. a \in Nat /\ b \in Nat
    BY <2>4, SumIsNat
  <2>6. a % q = b % q
    BY <1>2, <1>4, <1>6, <2>3
  <2>7. m \in Nat \ {0} /\ q \in Nat \ {0} /\ q % m = 0
    BY <1>7
  <2>8. a % m # b % m
    BY <2>1
  <2> HIDE DEF a, b, m, q
  <2>9. (a % q) % m = a % m /\ (b % q) % m = b % m
    BY <2>5, <2>7, ReducedTwice
  <2> QED
    BY <2>6, <2>8, <2>9
<1>9. CASE k \notin five + 1..e
  <2> HIDE DEF five
  <2>1. Agree(g, f, five, e)
    BY <1>2, <1>5, <1>9, FieldKept
  <2>2. Slice(g, five, e) = Slice(f, five, e)
    BY <1>1, <1>2, <1>5, <2>1, SliceSame
  <2> QED
    BY <1>6, <2>2
<1> QED
  BY <1>8, <1>9

(* An image in which one cell changed, other than its lengths, is refused, *)
(* or it holds the code and the writes of the undamaged one: a change in a *)
(* part that is read shows in the sum of its bytes.                        *)
THEOREM ChangeSeen ==
  ASSUME NEW f, NEW g, NEW k, ChangedAt(f, g, k), Whole(f), k \notin Steers(f),
         Validated(g).ok
  PROVE  Validated(g) = Reading(f)
<1>1. /\ Len(g) = Len(f) /\ Len(f) \in Nat /\ k \in 1..Len(f) /\ g[k] < Base
      /\ \A i \in 1..Len(f) : i # k => f[i] = g[i]
      /\ f \in Seq(Nat) /\ g \in Seq(Nat)
  BY ChangeIs DEF ChangedAt
<1>2. Len(f) >= 1
  BY <1>1
<1>3. g # <<>> /\ f # <<>>
  BY <1>1, <1>2
<1>4. Validated(g) = Reading(g) /\ IF IsProm(g) THEN PromAccepts(g) ELSE XhcAccepts(g)
  BY AcceptedIsRead
<1>5. CASE IsProm(f)
  <2>1. PromAccepts(f) /\ k \notin 1..3
    BY <1>5 DEF Whole, Steers
  <2>2. g[1] = f[1]
    BY <1>1, <1>2, <2>1
  <2>3. IsProm(g)
    BY <1>3, <1>5, <2>2 DEF IsProm
  <2>4. PromCode(g) = PromCode(f)
    BY <1>4, <2>1, <2>3, PromChange
  <2> QED
    BY <1>4, <1>5, <2>3, <2>4 DEF Reading
<1>6. CASE ~IsProm(f)
  <2>1. g[1] # PT
    <3>1. CASE k = 1
      <4>1. g[1] < Base /\ Base \in Nat
        BY <1>1, <3>1, ImageAssumption
      <4> QED
        BY <4>1, <1>1 DEF PT
    <3>2. CASE k # 1
      <4>1. g[1] = f[1]
        BY <1>1, <1>2, <3>2
      <4> QED
        BY <1>3, <1>6, <4>1 DEF IsProm
    <3> QED
      BY <3>1, <3>2
  <2>2. ~IsProm(g) /\ XhcAccepts(g)
    BY <1>4, <2>1 DEF IsProm
  <2>3. XhcCode(g) = XhcCode(f) /\ Writes(g) = Writes(f)
    BY <1>6, <2>2, XhcChange
  <2> QED
    BY <1>4, <1>6, <2>2, <2>3 DEF Reading
<1> QED
  BY <1>5, <1>6

(* The images that make_image.py writes are made of numbers.               *)
LEMMA LENat ==
  ASSUME NEW n \in {2, 4}, NEW v \in Nat
  PROVE  LE(n, v) \in Seq(Nat)
<1>1. Base \in Nat \ {0} /\ \A j \in 0..4 : Base^j \in Nat \ {0}
  BY PowersOfBase
<1>2. ASSUME NEW k \in 1..n PROVE (v \div Base^(k - 1)) % Base \in Nat
  <2> DEFINE p == Base^(k - 1)
             q == v \div p
  <2>1. k - 1 \in 0..4
    OBVIOUS
  <2>2. p \in Nat \ {0}
    BY <1>1, <2>1
  <2> HIDE DEF p
  <2>3. q \in Nat
    BY <2>2, DivSplit
  <2> HIDE DEF q
  <2>4. q % Base \in 0..Base - 1
    BY <1>1, <2>3, DivSplit
  <2>5. q % Base \in Nat
    BY <1>1, <2>4
  <2> QED
    BY <2>5 DEF q, p
<1>3. n \in Nat
  OBVIOUS
<1> DEFINE At(k) == (v \div Base^(k - 1)) % Base
<1>4. LE(n, v) = [k \in 1..n |-> At(k)] /\ \A k \in 1..n : At(k) \in Nat
  BY <1>2 DEF LE
<1> HIDE DEF At
<1> QED
  BY <1>3, <1>4

LEMMA JoinType ==
  ASSUME NEW S, NEW c \in Seq(S), NEW d \in Seq(S)
  PROVE  c \o d \in Seq(S)
  OBVIOUS

LEMMA FillType ==
  ASSUME NEW S, NEW t \in S, NEW n \in Nat
  PROVE  [k \in 1..n |-> t] \in Seq(S)
  OBVIOUS

LEMMA JoinNat ==
  ASSUME NEW c \in Seq(Nat), NEW d \in Seq(Nat)
  PROVE  c \o d \in Seq(Nat)
  OBVIOUS

LEMMA OneNat ==
  ASSUME NEW a \in Nat
  PROVE  <<a>> \in Seq(Nat)
  OBVIOUS

LEMMA ZerosNat ==
  ASSUME NEW n \in Nat
  PROVE  Zeros(n) \in Seq(Nat)
<1>1. Zeros(n) = [k \in 1..n |-> 0]
  BY DEF Zeros
<1> DEFINE z == 0
<1>2. z \in Nat /\ Zeros(n) = [k \in 1..n |-> z]
  BY <1>1
<1> HIDE DEF z
<1> QED
  BY <1>2

LEMMA SealedNat ==
  ASSUME NEW d \in Seq(Nat)
  PROVE  Sealed(d) \in Seq(Nat)
<1>1. Base \in Nat \ {0} /\ Base^4 \in Nat \ {0}
  <2>1. Base \in Nat \ {0} /\ \A j \in 0..4 : Base^j \in Nat \ {0}
    BY PowersOfBase
  <2> QED
    BY <2>1
<1>2. Total(d) % Base \in Nat
  <2>1. Total(d) \in Nat
    BY SumIsNat
  <2>2. Total(d) % Base \in 0..Base - 1
    BY <1>1, <2>1, DivSplit
  <2> QED
    BY <1>1, <2>2
<1>3. crc32(d) \in Nat
  <2> DEFINE W(k) == (2 * k + 1) * (d[k] + 1)
             w == [k \in DOMAIN d |-> W(k)]
             m == Base^4
             t == 7 + Total(w)
  <2>1. Len(d) \in Nat /\ DOMAIN d = 1..Len(d)
    OBVIOUS
  <2>2. \A k \in 1..Len(d) : W(k) \in Nat
    <3> TAKE k \in 1..Len(d)
    <3>1. d[k] \in Nat /\ 2 * k + 1 \in Nat /\ d[k] + 1 \in Nat
      BY <2>1
    <3> QED
      BY <3>1, ProductIsNat
  <2>3. w \in Seq(Nat)
    <3> HIDE DEF W
    <3>1. w = [k \in 1..Len(d) |-> W(k)]
      BY <2>1
    <3> QED
      BY <2>1, <2>2, <3>1
  <2>4. crc32(d) = t % m
    BY DEF crc32
  <2> HIDE DEF w
  <2>5. t \in Nat
    BY <2>3, SumIsNat
  <2> HIDE DEF t
  <2>6. m \in Nat \ {0}
    BY <1>1
  <2> HIDE DEF m
  <2>7. t % m \in 0..m - 1
    BY <2>5, <2>6, DivSplit
  <2> QED
    BY <2>4, <2>6, <2>7
<1>4. LE(4, crc32(d)) \in Seq(Nat)
  BY <1>3, LENat
<1>5. <<checksum(d)>> \in Seq(Nat)
  BY <1>2, OneNat DEF checksum
<1> QED
  BY <1>4, <1>5, JoinNat DEF Sealed

IsWrite(w) == w[1] \in Nat /\ w[2] \in Nat /\ w[3] \in Nat

LEMMA ConfigWordNat ==
  ASSUME NEW w, IsWrite(w)
  PROVE  ConfigWord(w) \in Seq(Nat)
<1>1. CC \in Nat /\ w[2] \in Nat
  BY BypassAssumption, ImageAssumption DEF CC, IsWrite
<1>2. <<CC, w[2]>> \in Seq(Nat)
  BY <1>1
<1>3. LE(2, w[1]) \in Seq(Nat) /\ LE(4, w[3]) \in Seq(Nat)
  BY LENat DEF IsWrite
<1>4. <<CC, w[2]>> \o LE(2, w[1]) \in Seq(Nat)
  BY <1>2, <1>3, JoinNat
<1> QED
  BY <1>3, <1>4, JoinNat DEF ConfigWord

LEMMA BypassWritesNat ==
  ASSUME NEW flash \in Nat, NEW delay \in Nat
  PROVE  \A k \in DOMAIN BypassWrites(flash, delay) : IsWrite(BypassWrites(flash, delay)[k])
<1> DEFINE W == Nat \X Nat \X Nat
           m == Base^2
<1>1. m \in Nat \ {0} /\ Base \in Nat /\ DataLen \in Nat
  BY PowersOfBase, ImageAssumption
<1> HIDE DEF m
<1>2. \A x \in Nat : x % m \in Nat /\ x \div m \in Nat
  <2> TAKE x \in Nat
  <2>1. x % m \in 0..m - 1 /\ x \div m \in Nat
    BY <1>1, DivSplit
  <2> QED
    BY <1>1, <2>1
<1> DEFINE p == DataLen % m
           q == DataLen \div m
           r == flash % m
           s == flash \div m
<1>3. p \in Nat /\ q \in Nat /\ r \in Nat /\ s \in Nat
  BY <1>1, <1>2
<1>4. BypassWrites(flash, delay) =
        (<< <<28, 2, p>>, <<30, 1, q>>, <<32, 1, 1>>, <<33, 1, 3>>, <<34, 1, 3>>,
            <<35, 1, 0>>, <<36, 1, 1>>, <<38, 2, 0>>, <<40, 1, 0>>,
            <<43, 2, r>>, <<45, 1, s>>, <<46, 1, 13>> >>
          \o [k \in 1..delay |-> <<192, 4, Base>>]) \o << <<0, 1, 3>>, <<2, 1, 1>> >>
  BY DEF BypassWrites, m
<1> HIDE DEF p, q, r, s
<1>5. << <<28, 2, p>>, <<30, 1, q>>, <<32, 1, 1>>, <<33, 1, 3>>, <<34, 1, 3>>,
         <<35, 1, 0>>, <<36, 1, 1>>, <<38, 2, 0>>, <<40, 1, 0>>,
         <<43, 2, r>>, <<45, 1, s>>, <<46, 1, 13>> >> \in Seq(W)
  BY <1>3
<1>6. [k \in 1..delay |-> <<192, 4, Base>>] \in Seq(W)
  <2> DEFINE t == <<192, 4, Base>>
  <2>1. t \in W
    BY <1>1
  <2> HIDE DEF t, W
  <2>2. [k \in 1..delay |-> t] \in Seq(W)
    BY <2>1, FillType
  <2> QED
    BY <2>2 DEF t
<1>7. << <<0, 1, 3>>, <<2, 1, 1>> >> \in Seq(W)
  OBVIOUS
<1>8. BypassWrites(flash, delay) \in Seq(W)
  <2> DEFINE a == << <<28, 2, p>>, <<30, 1, q>>, <<32, 1, 1>>, <<33, 1, 3>>, <<34, 1, 3>>,
                     <<35, 1, 0>>, <<36, 1, 1>>, <<38, 2, 0>>, <<40, 1, 0>>,
                     <<43, 2, r>>, <<45, 1, s>>, <<46, 1, 13>> >>
             b == [k \in 1..delay |-> <<192, 4, Base>>]
             c == << <<0, 1, 3>>, <<2, 1, 1>> >>
  <2>1. a \in Seq(W) /\ b \in Seq(W) /\ c \in Seq(W)
    BY <1>5, <1>6, <1>7
  <2>2. BypassWrites(flash, delay) = (a \o b) \o c
    BY <1>4
  <2> HIDE DEF W, a, b, c
  <2>3. a \o b \in Seq(W)
    BY <2>1, JoinType
  <2>4. (a \o b) \o c \in Seq(W)
    BY <2>1, <2>3, JoinType
  <2> QED
    BY <2>2, <2>4
<1>9. \A t \in W : IsWrite(t)
  BY DEF IsWrite
<1> HIDE DEF W
<1> QED
  BY <1>8, <1>9

LEMMA MadeNat ==
  ASSUME NEW chip \in DOMAIN CHIP_INFO, NEW bypass \in BOOLEAN, NEW code \in Seq(Nat)
  PROVE  Made(chip, bypass, code) \in Seq(Nat)
<1> DEFINE w == WritesOf(chip, bypass)
           magic == CHIP_INFO[chip]
           data == DataOf(chip, bypass)
           head == HeadOf(chip, bypass)
           null == <<0, 3 * 2, 0>> \o Zeros(SigSize)
           last == IF magic = 5 THEN null ELSE <<>>
           body == gen_body(chip, code)
<1>1. magic \in Nat /\ LenSize(magic) \in {2, 4} /\ SigSize \in Nat
  <2>1. magic \in {1, 2, 3, 4, 5} /\ LenSize(magic) \in {2, 4}
    BY ChipsAre
  <2> HIDE DEF magic
  <2> QED
    BY <2>1, ImageAssumption
<1>2. IsSeq(w) /\ Len(w) \in Nat /\ \A k \in DOMAIN w : IsWrite(w[k])
  <2>1. IsSeq(w) /\ Len(w) \in Nat
    BY WritesAre
  <2>2. CASE chip = "ASM3242" /\ bypass
    <3>1. FixedOf(chip) = 23 /\ DelayOf(chip) \in Nat
      BY <2>2, DelayIs
    <3>2. FlashAddr(23, DelayOf(chip)) \in Nat
      BY <3>1 DEF FlashAddr
    <3>3. w = BypassWrites(FlashAddr(23, DelayOf(chip)), DelayOf(chip))
      BY <2>2, <3>1 DEF WritesOf
    <3> HIDE DEF w
    <3> QED
      BY <2>1, <3>1, <3>2, <3>3, BypassWritesNat
  <2>3. CASE ~(chip = "ASM3242" /\ bypass)
    <3>1. w = <<>>
      BY <2>3 DEF WritesOf
    <3> HIDE DEF w
    <3> QED
      BY <2>1, <3>1
  <2> QED
    BY <2>2, <2>3
<1>3. PadOf(chip) \in Seq(Nat)
  <2>1. Zeros(16) \in Seq(Nat)
    BY ZerosNat
  <2> QED
    BY <2>1 DEF PadOf
<1>4. data \in Seq(Nat) /\ Len(data) \in Nat
  <2> DEFINE s == [k \in DOMAIN w |-> ConfigWord(w[k])]
  <2>1. DOMAIN w = 1..Len(w)
    <3> HIDE DEF w
    <3> QED
      BY <1>2 DEF IsSeq
  <2>2. \A k \in 1..Len(w) : ConfigWord(w[k]) \in Seq(Nat)
    <3> HIDE DEF w
    <3> QED
      BY <1>2, <2>1, ConfigWordNat
  <2>3. s \in Seq(Seq(Nat))
    <3> HIDE DEF w
    <3> QED
      BY <1>2, <2>1, <2>2
  <2>4. data = PadOf(chip) \o FlattenSeq(s)
    BY DEF DataOf
  <2> HIDE DEF s, data
  <2>5. FlattenSeq(s) \in Seq(Nat)
    BY <2>3, FlatType
  <2> QED
    BY <1>3, <2>4, <2>5, JoinNat
<1>5. head \in Seq(Nat)
  <2> DEFINE a == LE(2, 0)
             b == LE(2, 1)
             c == LE(2, HeadSize + Len(data))
             d == <<magic>>
  <2>1. a \in Seq(Nat) /\ b \in Seq(Nat) /\ c \in Seq(Nat) /\ d \in Seq(Nat)
    <3>1. HeadSize + Len(data) \in Nat
      BY <1>4 DEF HeadSize
    <3> HIDE DEF data
    <3> QED
      BY <1>1, <3>1, LENat, OneNat
  <2>2. head = (((a \o b) \o c) \o d) \o data
    BY DEF HeadOf
  <2> HIDE DEF a, b, c, d, data, head
  <2>3. a \o b \in Seq(Nat)
    BY <2>1, JoinNat
  <2>4. (a \o b) \o c \in Seq(Nat)
    BY <2>1, <2>3, JoinNat
  <2>5. ((a \o b) \o c) \o d \in Seq(Nat)
    BY <2>1, <2>4, JoinNat
  <2> QED
    BY <1>4, <2>2, <2>5, JoinNat
<1>6. last \in Seq(Nat)
  <2>1. <<0, 3 * 2, 0>> \in Seq(Nat)
    OBVIOUS
  <2>2. Zeros(SigSize) \in Seq(Nat)
    BY <1>1, ZerosNat
  <2>3. null \in Seq(Nat)
    BY <2>1, <2>2, JoinNat
  <2> HIDE DEF null
  <2> QED
    BY <2>3
<1>7. body \in Seq(Nat)
  <2> DEFINE a == LE(LenSize(magic), Len(code))
             b == <<magic>>
             c == Sealed(code)
  <2>1. a \in Seq(Nat) /\ b \in Seq(Nat) /\ c \in Seq(Nat)
    <3>1. Len(code) \in Nat
      OBVIOUS
    <3> HIDE DEF magic
    <3> QED
      BY <1>1, <3>1, LENat, OneNat, SealedNat
  <2>2. body = (((a \o code) \o b) \o c) \o last
    BY DEF gen_body
  <2> HIDE DEF a, b, c, last, body
  <2>3. a \o code \in Seq(Nat)
    BY <2>1, JoinNat
  <2>4. (a \o code) \o b \in Seq(Nat)
    BY <2>1, <2>3, JoinNat
  <2>5. ((a \o code) \o b) \o c \in Seq(Nat)
    BY <2>1, <2>4, JoinNat
  <2> QED
    BY <1>6, <2>2, <2>5, JoinNat
<1>8. Made(chip, bypass, code) = (head \o Sealed(head)) \o body
  BY HeaderIs DEF Made
<1> HIDE DEF head, body
<1>9. head \o Sealed(head) \in Seq(Nat)
  BY <1>5, SealedNat, JoinNat
<1> QED
  BY <1>7, <1>8, <1>9, JoinNat

LEMMA MadeIsWhole ==
  ASSUME NEW chip \in DOMAIN CHIP_INFO, NEW bypass \in BOOLEAN, NEW code \in Seq(Nat),
         Fits(chip, code), NEW f, f = Made(chip, bypass, code)
  PROVE  Whole(f) /\ Reading(f) = Good(code, Writes(f))
<1>1. f # <<>> /\ ~IsProm(f) /\ SealedImage(f)
  BY MadeIsAccepted
<1>2. f \in Seq(Nat)
  BY MadeNat
<1>3. XhcCode(f) = code
  BY BodyRead
<1> QED
  BY <1>1, <1>2, <1>3 DEF Whole, Reading

(* What came of a whole image: it is as it was, a part at its end is gone, *)
(* or one cell has another value.                                          *)
LeftOf(f, g) ==
  \/ g = f
  \/ \E n \in 0..Len(f) : g = SubSeq(f, 1, n)
  \/ \E k \in DOMAIN f : ChangedAt(f, g, k)
=============================================================================
