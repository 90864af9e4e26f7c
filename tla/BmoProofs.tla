------------------------------ MODULE BmoProofs ------------------------------
(***************************************************************************)
(* Proofs about Bmo, for every width of numbers and words, every memory,   *)
(* every depth of the FIFOs and every set of requests.                     *)
(***************************************************************************)
EXTENDS Bmo, Lemmas

-----------------------------------------------------------------------------
(* The digits of a number. *)
LEMMA Powers ==
  /\ \A n \in 0 .. AddrBytes : Base ^ n \in Nat \ {0}
  /\ \A n \in 0 .. AddrBytes - 1 : Base ^ (n + 1) = Base * Base ^ n
  /\ Base ^ 0 = 1 /\ Top \in Nat \ {0} /\ AddrBytes \in Nat \ {0} /\ Base \in Nat \ {0}
<1>1. AddrBytes \in Nat \ {0} /\ Base \in Nat \ {0} /\ AddrBytes - 1 \in 0 .. AddrBytes - 1
  BY WidthAssumption
<1>2. \A n \in 0 .. AddrBytes - 1 : Base ^ n \in Nat \ {0} /\ Base ^ (n + 1) = Base * Base ^ n
  BY PowerAssumption
<1>3. Base ^ AddrBytes \in Nat \ {0}
  <2> DEFINE n == AddrBytes - 1
  <2>1. n \in 0 .. AddrBytes - 1 /\ n + 1 = AddrBytes
    BY <1>1
  <2> HIDE DEF n
  <2>2. Base ^ (n + 1) = Base * Base ^ n /\ Base ^ n \in Nat \ {0}
    BY <1>2, <2>1
  <2>3. Base ^ (n + 1) \in Nat \ {0}
    BY <1>1, <2>2, ProductIsNat
  <2> QED
    BY <2>1, <2>3
<1>4. \A n \in 0 .. AddrBytes : n = AddrBytes \/ n \in 0 .. AddrBytes - 1
  BY <1>1
<1> QED
  BY <1>1, <1>2, <1>3, <1>4, PowerAssumption DEF Top

LEMMA BelowTop ==
  ASSUME NEW n \in 0 .. AddrBytes
  PROVE  Base ^ n <= Top
<1> DEFINE p == [m \in 0 .. AddrBytes |-> Base ^ m]
<1>1. IsPowers(p, Base, AddrBytes)
  BY Powers DEF IsPowers
<1>2. p[n] = Base ^ n /\ p[AddrBytes] = Top /\ AddrBytes \in n .. AddrBytes
  BY Powers DEF Top
<1> HIDE DEF p
<1>3. \A m \in n .. AddrBytes : p[n] <= p[m]
  BY <1>1, PowersGrow
<1> QED
  BY <1>2, <1>3

LEMMA DigitsType ==
  ASSUME NEW v \in Nat
  PROVE  /\ Digits(v) \in Seq(Byte) /\ Len(Digits(v)) = AddrBytes
         /\ \A n \in 1 .. AddrBytes : Digits(v)[n] = (v \div Base ^ (n - 1)) % Base
<1>1. \A n \in 1 .. AddrBytes : (v \div Base ^ (n - 1)) % Base \in Byte
  <2> TAKE n \in 1 .. AddrBytes
  <2> DEFINE p == Base ^ (n - 1)
             q == v \div p
  <2>1. p \in Nat \ {0}
    <3>1. n - 1 \in 0 .. AddrBytes
      BY Powers
    <3> QED
      BY <3>1, Powers
  <2> HIDE DEF p
  <2>2. q \in Nat
    BY <2>1, DivSplit
  <2> HIDE DEF q
  <2>3. q % Base \in 0 .. Base - 1
    BY <2>2, DivSplit, Powers
  <2> QED
    BY <2>3 DEF Byte, q, p
<1> DEFINE D(n) == (v \div Base ^ (n - 1)) % Base
<1>2. \A n \in 1 .. AddrBytes : D(n) \in Byte
  BY <1>1
<1>3. Digits(v) = [n \in 1 .. AddrBytes |-> D(n)] /\ AddrBytes \in Nat
  BY Powers DEF Digits
<1> HIDE DEF D
<1>4. /\ Digits(v) \in Seq(Byte) /\ Len(Digits(v)) = AddrBytes
      /\ \A n \in 1 .. AddrBytes : Digits(v)[n] = D(n)
  BY <1>2, <1>3
<1> QED
  BY <1>4 DEF D

(* One digit more: what a loop that reads a number does.                   *)
LEMMA ReadDigit ==
  ASSUME NEW v \in 0 .. Top - 1, NEW n \in 0 .. AddrBytes - 1
  PROVE  /\ (v % Base ^ n) + Digits(v)[n + 1] * Base ^ n = v % Base ^ (n + 1)
         /\ n + 1 = AddrBytes => v % Base ^ (n + 1) = v
         /\ v % Base ^ 0 = 0
<1>1. v \in Nat /\ n + 1 \in 1 .. AddrBytes /\ n + 1 - 1 = n /\ n \in 0 .. AddrBytes
  BY Powers
<1>2. Digits(v)[n + 1] = (v \div Base ^ n) % Base
  <2> DEFINE k == n + 1
  <2>1. k \in 1 .. AddrBytes /\ k - 1 = n
    BY <1>1
  <2> HIDE DEF k
  <2>2. Digits(v)[k] = (v \div Base ^ (k - 1)) % Base
    BY <1>1, <2>1, DigitsType
  <2> QED
    BY <2>1, <2>2 DEF k
<1> DEFINE p == Base ^ n
<1>3. p \in Nat \ {0} /\ Base ^ (n + 1) = Base * p /\ Base \in Nat \ {0}
  BY <1>1, Powers
<1>4. Digits(v)[n + 1] = (v \div p) % Base
  BY <1>2
<1> HIDE DEF p
<1>5. v % (Base * p) = (v % p) + ((v \div p) % Base) * p
  BY <1>1, <1>3, NextDigit
<1>6. n + 1 = AddrBytes => v % Base ^ (n + 1) = v
  <2> SUFFICES ASSUME n + 1 = AddrBytes PROVE v % Top = v
    BY DEF Top
  <2> QED
    BY ModSmall, Powers
<1>7. v % 1 = 0
  BY <1>1
<1> QED
  BY <1>3, <1>4, <1>5, <1>6, <1>7, Powers DEF p

-----------------------------------------------------------------------------
(* A request on the line: bytes, and what they are.                        *)
Header(r) == IF r.kind = "exit" THEN 1
             ELSE IF r.short THEN 1 + AddrBytes ELSE 1 + 2 * AddrBytes

LEMMA RequestType ==
  ASSUME NEW r \in Requests
  PROVE  /\ r.kind \in {"read", "write", "exit"} /\ r.short \in BOOLEAN
         /\ r.addr \in 0 .. Top - 1 /\ r.len \in 0 .. Top - 1
         /\ r.addr \in Nat /\ r.len \in Nat
         /\ r.data \in Seq(Byte)
         /\ r.short => r.len = WordBytes
         /\ r.kind = "write" => Len(r.data) = r.len
         /\ r.kind = "exit" => r.len = 0
         /\ Header(r) \in Nat
<1>1. \A n \in 0 .. Top - 1 : n \in Nat
  BY Powers
<1>2. Header(r) \in Nat
  BY Powers DEF Header
<1> QED
  BY <1>1, <1>2, RequestAssumption

LEMMA TwoParts ==
  ASSUME NEW S
  PROVE  \A a, b \in Seq(S) :
           /\ a \o b \in Seq(S) /\ Len(a \o b) = Len(a) + Len(b)
           /\ \A n \in 1 .. Len(a) : (a \o b)[n] = a[n]
           /\ \A n \in 1 .. Len(b) : (a \o b)[Len(a) + n] = b[n]
  OBVIOUS

LEMMA FourParts ==
  ASSUME NEW S, NEW a \in Seq(S), NEW b \in Seq(S), NEW c \in Seq(S), NEW d \in Seq(S),
         NEW s, s = a \o b \o c \o d
  PROVE  /\ s \in Seq(S) /\ Len(s) = Len(a) + Len(b) + Len(c) + Len(d)
         /\ \A n \in 1 .. Len(a) : s[n] = a[n]
         /\ \A n \in 1 .. Len(b) : s[Len(a) + n] = b[n]
         /\ \A n \in 1 .. Len(c) : s[Len(a) + Len(b) + n] = c[n]
         /\ \A n \in 1 .. Len(d) : s[Len(a) + Len(b) + Len(c) + n] = d[n]
<1> DEFINE u == a \o b
           v == u \o c
<1>12. s = v \o d
  OBVIOUS
<1>1. /\ u \in Seq(S) /\ Len(u) = Len(a) + Len(b)
      /\ \A n \in 1 .. Len(a) : u[n] = a[n]
      /\ \A n \in 1 .. Len(b) : u[Len(a) + n] = b[n]
  BY TwoParts
<1>2. u \in Seq(S)
  BY <1>1
<1> HIDE DEF u
<1>3. /\ v \in Seq(S) /\ Len(v) = Len(u) + Len(c)
      /\ \A n \in 1 .. Len(u) : v[n] = u[n]
      /\ \A n \in 1 .. Len(c) : v[Len(u) + n] = c[n]
  BY <1>2, TwoParts
<1>4. v \in Seq(S)
  BY <1>3
<1> HIDE DEF v
<1>5. /\ s \in Seq(S) /\ Len(s) = Len(v) + Len(d)
      /\ \A n \in 1 .. Len(v) : s[n] = v[n]
      /\ \A n \in 1 .. Len(d) : s[Len(v) + n] = d[n]
  BY <1>4, <1>12, TwoParts
<1>6. Len(a) \in Nat /\ Len(b) \in Nat /\ Len(c) \in Nat /\ Len(d) \in Nat
  OBVIOUS
<1> DEFINE la == Len(a)  lb == Len(b)  lc == Len(c)  ld == Len(d)
<1> HIDE DEF la, lb, lc, ld
<1>7. /\ la \in Nat /\ lb \in Nat /\ lc \in Nat /\ ld \in Nat
      /\ Len(u) = la + lb /\ Len(v) = la + lb + lc /\ Len(s) = la + lb + lc + ld
  BY <1>1, <1>3, <1>5, <1>6 DEF la, lb, lc, ld
<1>8. \A n \in 1 .. la : s[n] = a[n]
  <2>1. /\ \A n \in 1 .. la : u[n] = a[n]
        /\ \A n \in 1 .. la + lb : v[n] = u[n]
        /\ \A n \in 1 .. la + lb + lc : s[n] = v[n]
    BY <1>1, <1>3, <1>5, <1>7 DEF la
  <2> QED
    BY <1>7, <2>1
<1>9. \A n \in 1 .. lb : s[la + n] = b[n]
  <2>1. /\ \A n \in 1 .. lb : u[la + n] = b[n]
        /\ \A n \in 1 .. la + lb : v[n] = u[n]
        /\ \A n \in 1 .. la + lb + lc : s[n] = v[n]
    BY <1>1, <1>3, <1>5, <1>7 DEF la, lb
  <2> TAKE n \in 1 .. lb
  <2>2. la + n \in 1 .. la + lb /\ la + n \in 1 .. la + lb + lc
    BY <1>7
  <2> QED
    BY <2>1, <2>2
<1>10. \A n \in 1 .. lc : s[la + lb + n] = c[n]
  <2>1. /\ \A n \in 1 .. lc : v[la + lb + n] = c[n]
        /\ \A n \in 1 .. la + lb + lc : s[n] = v[n]
    BY <1>3, <1>5, <1>7 DEF lc
  <2> QED
    BY <1>7, <2>1, SMTT(60)
<1>11. \A n \in 1 .. ld : s[la + lb + lc + n] = d[n]
  BY <1>5, <1>7 DEF ld
<1> QED
  BY <1>5, <1>7, <1>8, <1>9, <1>10, <1>11 DEF la, lb, lc, ld

TagOf(r) == IF r.kind = "exit" THEN EXIT
            ELSE IF r.kind = "read" THEN (IF r.short THEN READ ELSE MEM_READ)
            ELSE (IF r.short THEN WRITE ELSE MEM_WRITE)

LEMMA EncodeIs ==
  ASSUME NEW r \in Requests
  PROVE  /\ Encode(r) \in Seq(Byte)
         /\ Len(Encode(r)) = Header(r) + (IF r.kind = "write" THEN r.len ELSE 0)
         /\ Encode(r)[1] = TagOf(r)
         /\ r.kind # "exit" =>
              \A n \in 1 .. AddrBytes : Encode(r)[1 + n] = Digits(r.addr)[n]
         /\ r.kind # "exit" /\ ~r.short =>
              \A n \in 1 .. AddrBytes : Encode(r)[1 + AddrBytes + n] = Digits(r.len)[n]
         /\ r.kind = "write" =>
              \A n \in 1 .. r.len : Encode(r)[Header(r) + n] = r.data[n]
<1> DEFINE T == <<TagOf(r)>>
           A == IF r.kind = "exit" THEN <<>> ELSE Digits(r.addr)
           L == IF r.kind = "exit" \/ r.short THEN <<>> ELSE Digits(r.len)
           D == IF r.kind = "write" THEN r.data ELSE <<>>
<1>1. /\ r.kind \in {"read", "write", "exit"} /\ r.short \in BOOLEAN
      /\ r.data \in Seq(Byte) /\ (r.kind = "write" => Len(r.data) = r.len)
      /\ r.addr \in Nat /\ r.len \in Nat
  BY RequestType
<1>2. T \in Seq(Byte) /\ Len(T) = 1 /\ T[1] = TagOf(r)
  <2>1. TagOf(r) \in Byte
    BY CommandAssumption DEF Commands, TagOf
  <2> QED
    BY <2>1
<1>3. Digits(r.addr) \in Seq(Byte) /\ Digits(r.len) \in Seq(Byte) /\ <<>> \in Seq(Byte)
      /\ Len(Digits(r.addr)) = AddrBytes /\ Len(Digits(r.len)) = AddrBytes
      /\ Len(<<>>) = 0
  BY <1>1, DigitsType, EmptySeq
<1>4. A \in Seq(Byte) /\ L \in Seq(Byte) /\ D \in Seq(Byte)
  BY <1>1, <1>3
<1>5. Encode(r) = T \o A \o L \o D
  <2>1. \A s \in Seq(Byte) : s \o <<>> = s
    BY ConcatEmptySeq
  <2>2. T \o Digits(r.addr) \in Seq(Byte) /\ T \o Digits(r.addr) \o Digits(r.len) \in Seq(Byte)
    BY <1>2, <1>3, ConcatProperties
  <2>3. CASE r.kind = "exit"
    <3>1. Encode(r) = T
      BY <2>3 DEF Encode, TagOf
    <3>2. A = <<>> /\ L = <<>> /\ D = <<>>
      BY <2>3
    <3> HIDE DEF T, A, L, D
    <3> QED
      BY <1>2, <2>1, <3>1, <3>2
  <2>4. CASE r.kind = "read"
    <3>1. Encode(r) = IF r.short THEN T \o Digits(r.addr) ELSE T \o Digits(r.addr) \o Digits(r.len)
      BY <1>1, <2>4 DEF Encode, TagOf
    <3>2. A = Digits(r.addr) /\ L = (IF r.short THEN <<>> ELSE Digits(r.len)) /\ D = <<>>
      BY <2>4
    <3> HIDE DEF T, A, L, D
    <3> QED
      BY <2>1, <2>2, <3>1, <3>2
  <2>5. CASE r.kind = "write"
    <3>1. Encode(r) = IF r.short THEN T \o Digits(r.addr) \o r.data
                      ELSE T \o Digits(r.addr) \o Digits(r.len) \o r.data
      BY <1>1, <2>5 DEF Encode, TagOf
    <3>2. A = Digits(r.addr) /\ L = (IF r.short THEN <<>> ELSE Digits(r.len)) /\ D = r.data
      BY <2>5
    <3> HIDE DEF T, A, L, D
    <3> QED
      BY <2>1, <2>2, <3>1, <3>2
  <2> QED
    BY <1>1, <2>3, <2>4, <2>5
<1>6. /\ Len(A) = IF r.kind = "exit" THEN 0 ELSE AddrBytes
      /\ Len(L) = IF r.kind = "exit" \/ r.short THEN 0 ELSE AddrBytes
      /\ Len(D) = IF r.kind = "write" THEN r.len ELSE 0
  BY <1>1, <1>3
<1>7. /\ r.kind # "exit" => A = Digits(r.addr)
      /\ r.kind # "exit" /\ ~r.short => L = Digits(r.len)
      /\ r.kind = "write" => D = r.data
  OBVIOUS
<1> HIDE DEF T, A, L, D
<1> DEFINE s == Encode(r)
<1>8. s = T \o A \o L \o D
  BY <1>5
<1> HIDE DEF s
<1>9. /\ s \in Seq(Byte) /\ Len(s) = 1 + Len(A) + Len(L) + Len(D)
      /\ \A n \in 1 .. 1 : s[n] = T[n]
      /\ \A n \in 1 .. Len(A) : s[1 + n] = A[n]
      /\ \A n \in 1 .. Len(L) : s[1 + Len(A) + n] = L[n]
      /\ \A n \in 1 .. Len(D) : s[1 + Len(A) + Len(L) + n] = D[n]
  <2>1. /\ s \in Seq(Byte) /\ Len(s) = Len(T) + Len(A) + Len(L) + Len(D)
        /\ \A n \in 1 .. Len(T) : s[n] = T[n]
        /\ \A n \in 1 .. Len(A) : s[Len(T) + n] = A[n]
        /\ \A n \in 1 .. Len(L) : s[Len(T) + Len(A) + n] = L[n]
        /\ \A n \in 1 .. Len(D) : s[Len(T) + Len(A) + Len(L) + n] = D[n]
    <3>1. \A a, b, c, d \in Seq(Byte) : s = a \o b \o c \o d =>
            /\ s \in Seq(Byte) /\ Len(s) = Len(a) + Len(b) + Len(c) + Len(d)
            /\ \A n \in 1 .. Len(a) : s[n] = a[n]
            /\ \A n \in 1 .. Len(b) : s[Len(a) + n] = b[n]
            /\ \A n \in 1 .. Len(c) : s[Len(a) + Len(b) + n] = c[n]
            /\ \A n \in 1 .. Len(d) : s[Len(a) + Len(b) + Len(c) + n] = d[n]
      BY FourParts
    <3>2. T \in Seq(Byte)
      BY <1>2
    <3> QED
      BY <1>4, <1>8, <3>1, <3>2
  <2>2. Len(T) = 1
    BY <1>2
  <2> QED
    BY <2>1, <2>2
<1>10. Header(r) = 1 + Len(A) + Len(L)
  BY <1>1, <1>6, Powers DEF Header
<1>11. s[1] = TagOf(r)
  BY <1>2, <1>9
<1>12. /\ r.kind # "exit" => \A n \in 1 .. AddrBytes : s[1 + n] = Digits(r.addr)[n]
       /\ r.kind # "exit" /\ ~r.short =>
            \A n \in 1 .. AddrBytes : s[1 + AddrBytes + n] = Digits(r.len)[n]
  BY <1>1, <1>6, <1>7, <1>9
<1>13. r.kind = "write" => \A n \in 1 .. r.len : s[Header(r) + n] = r.data[n]
  BY <1>6, <1>7, <1>9, <1>10
<1>14. Len(s) = Header(r) + (IF r.kind = "write" THEN r.len ELSE 0)
  BY <1>6, <1>9, <1>10
<1> QED
  BY <1>9, <1>11, <1>12, <1>13, <1>14 DEF s

-----------------------------------------------------------------------------
(* Every variable has its type: the handler reads no address and no length *)
(* that is too wide, and moves no byte beyond the limit.                   *)
LEMMA GetcharType ==
  ASSUME TypeOK, NEW c, Getchar(c)
  PROVE  c \in Byte /\ rx' \in Seq(Byte) /\ Len(rx') <= RxDepth /\ tx' = tx
<1>1. rx \in Seq(Byte) /\ Len(rx) <= RxDepth /\ rx # <<>> /\ RxDepth \in Nat
  BY FifoAssumption DEF TypeOK, Getchar
<1>2. /\ Head(rx) \in Byte /\ Tail(rx) \in Seq(Byte) /\ Len(Tail(rx)) = Len(rx) - 1
      /\ Len(rx) \in Nat
  BY <1>1, HeadTailProperties
<1> QED
  BY <1>1, <1>2 DEF Getchar

LEMMA InitWidth == Init => WidthInv
<1> SUFFICES ASSUME Init PROVE WidthInv
  OBVIOUS
<1>1. /\ pc = "command" /\ command \in Commands /\ rx = <<>> /\ tx = <<>>
      /\ addr = 0 /\ len = 0 /\ off = 0 /\ i = 0 /\ value = 0 /\ outgoing = <<>>
      /\ outstanding = <<>> /\ enter = FALSE /\ mem \in [Cells -> Byte]
  BY DEF Init, Commands
<1>2. Len(<<>>) = 0 /\ <<>> \in Seq(Byte) /\ <<>> \in Seq(Requests)
  BY EmptySeq
<1>3. 0 \in 0 .. Top - 1 /\ 0 \in 0 .. AddrBytes - 1 /\ 0 \in Byte /\ 0 \in 0 .. Limit
      /\ 0 <= RxDepth /\ 0 <= TxDepth
  BY <1>1, Powers, WidthAssumption, FifoAssumption DEF Byte, Limit
<1>4. 0 <= Ahead
  BY AheadAssumption
<1>5. TypeOK
  BY <1>1, <1>2, <1>3, <1>4 DEF TypeOK
<1> QED
  BY <1>1, <1>5 DEF WidthInv

(* The other end of the line and the UART. *)
LEMMA LineWidth ==
  ASSUME WidthInv,
         \/ SendByte \/ (\E c \in Stray : UserTypes(c)) \/ OnlyEnter \/ PressEnter
         \/ Transmit
  PROVE  WidthInv'
<1>1. UNCHANGED <<localVars, mem, outstanding>>
  BY DEF SendByte, UserTypes, OnlyEnter, PressEnter, Transmit, clientVars
<1>2. /\ rx \in Seq(Byte) /\ Len(rx) <= RxDepth /\ tx \in Seq(Byte) /\ Len(tx) <= TxDepth
      /\ outgoing \in Seq(Byte) /\ enter \in BOOLEAN
  BY DEF WidthInv, TypeOK
<1>3. EXIT \in Byte /\ Stray \subseteq Byte /\ RxDepth \in Nat
  BY CommandAssumption, StrayAssumption, FifoAssumption DEF Commands
<1>4. /\ rx' \in Seq(Byte) /\ Len(rx') <= RxDepth /\ outgoing' \in Seq(Byte)
  <2>1. CASE SendByte
    BY <1>2, <1>3, <2>1 DEF SendByte
  <2>2. CASE \E c \in Stray : UserTypes(c)
    BY <1>2, <1>3, <2>2 DEF UserTypes, clientVars
  <2>3. CASE OnlyEnter \/ Transmit
    BY <1>2, <2>3 DEF OnlyEnter, Transmit, lineVars, clientVars
  <2>4. CASE PressEnter
    BY <1>2, <1>3, <2>4 DEF PressEnter, clientVars
  <2> QED
    BY <2>1, <2>2, <2>3, <2>4
<1>5. tx' \in Seq(Byte) /\ Len(tx') <= TxDepth
  <2>1. CASE Transmit
    <3>1. tx # <<>> /\ tx' = Tail(tx)
      BY <2>1 DEF Transmit
    <3>2. Tail(tx) \in Seq(Byte) /\ Len(Tail(tx)) = Len(tx) - 1 /\ Len(tx) \in Nat
      BY <1>2, <3>1, HeadTailProperties
    <3> QED
      BY <1>2, <3>1, <3>2, FifoAssumption
  <2>2. CASE tx' = tx
    BY <1>2, <2>2
  <2> QED
    BY <2>1, <2>2 DEF SendByte, UserTypes, OnlyEnter, PressEnter, lineVars
<1>6. enter' \in BOOLEAN
  BY <1>2 DEF SendByte, UserTypes, OnlyEnter, PressEnter, Transmit, clientVars
<1> QED
  BY <1>1, <1>4, <1>5, <1>6 DEF WidthInv, TypeOK, localVars, Limit

LEMMA RequestWidth ==
  ASSUME WidthInv, NEW r \in Requests, MakeRequest(r)
  PROVE  WidthInv'
<1>1. UNCHANGED <<lineVars, localVars, mem, enter>>
  BY DEF MakeRequest
<1>2. outgoing' \in Seq(Byte)
  BY EncodeIs DEF MakeRequest
<1>3. outstanding' \in Seq(Requests) /\ Len(outstanding') <= Ahead
  <2>1. outstanding \in Seq(Requests) /\ Len(outstanding) < Ahead
        /\ outstanding' = Append(outstanding, r)
    BY DEF WidthInv, TypeOK, MakeRequest
  <2> QED
    BY <2>1, AppendProperties, AheadAssumption
<1> QED
  BY <1>1, <1>2, <1>3 DEF WidthInv, TypeOK, lineVars, localVars, Limit

LEMMA CommandWidth ==
  ASSUME WidthInv, NEW c \in Byte, Command(c) \/ Ignored(c)
  PROVE  WidthInv'
<1>1. /\ rx' \in Seq(Byte) /\ Len(rx') <= RxDepth /\ tx' = tx
      /\ UNCHANGED <<value, mem, outgoing, enter>>
  BY GetcharType DEF WidthInv, Command, Ignored, localVars, clientVars
<1>2. outstanding \in Seq(Requests) /\ Len(outstanding) <= Ahead
  BY DEF WidthInv, TypeOK
<1>3. CASE Ignored(c)
  BY <1>1, <1>3 DEF Ignored, WidthInv, TypeOK, localVars, clientVars, Limit
<1>4. CASE Command(c)
  <2>1. outstanding' \in Seq(Requests) /\ Len(outstanding') <= Ahead
    <3>1. outstanding # <<>> => /\ Tail(outstanding) \in Seq(Requests)
                                /\ Len(Tail(outstanding)) = Len(outstanding) - 1
                                /\ Len(outstanding) \in Nat
      BY <1>2, HeadTailProperties
    <3>2. outstanding' = outstanding \/ (outstanding # <<>> /\ outstanding' = Tail(outstanding))
      BY <1>4 DEF Command
    <3>3. CASE outstanding' = outstanding
      BY <1>2, <3>3
    <3>4. CASE outstanding # <<>> /\ outstanding' = Tail(outstanding)
      BY <1>2, <3>1, <3>4, AheadAssumption
    <3> QED
      BY <3>2, <3>3, <3>4
  <2>2. /\ pc' \in {"exited", "addr"} /\ command' \in Commands
        /\ addr' = 0 /\ len' = 0 /\ off' = 0 /\ i' = 0
    BY <1>4 DEF Command
  <2>3. 0 \in 0 .. Top - 1 /\ 0 \in 0 .. AddrBytes - 1 /\ 0 < Base ^ 0 /\ off' \in 0 .. Limit'
    BY <2>2, Powers, WidthAssumption DEF Limit
  <2>4. value \in Byte /\ tx \in Seq(Byte) /\ Len(tx) <= TxDepth /\ mem \in [Cells -> Byte]
        /\ outgoing \in Seq(Byte) /\ enter \in BOOLEAN
    BY DEF WidthInv, TypeOK
  <2>5. TypeOK'
    BY <1>1, <2>1, <2>2, <2>3, <2>4 DEF TypeOK
  <2> QED
    BY <2>2, <2>3, <2>5 DEF WidthInv
<1> QED
  BY <1>3, <1>4

(* A number of which k digits have been read takes one more.               *)
LEMMA NumberWidth ==
  ASSUME NEW v \in Nat, NEW k \in 0 .. AddrBytes - 1, v < Base ^ k, NEW c \in Byte
  PROVE  /\ v + c * Base ^ k \in 0 .. Top - 1
         /\ k + 1 < AddrBytes => k + 1 \in 0 .. AddrBytes - 1 /\ v + c * Base ^ k < Base ^ (k + 1)
<1> DEFINE p == Base ^ k
           n == v + c * p
<1>1. k \in 0 .. AddrBytes /\ k + 1 \in 0 .. AddrBytes /\ AddrBytes \in Nat \ {0}
  BY Powers
<1>2. p \in Nat \ {0} /\ Base ^ (k + 1) = Base * p /\ Base \in Nat \ {0}
  BY <1>1, Powers
<1>3. v < p
  OBVIOUS
<1> HIDE DEF p
<1>4. n \in 0 .. Base * p - 1
  BY <1>2, <1>3, AddDigit DEF Byte
<1> HIDE DEF n
<1> DEFINE q == Base ^ (k + 1)
<1>5. q \in Nat \ {0} /\ n \in 0 .. q - 1
  BY <1>1, <1>2, <1>4, Powers
<1> HIDE DEF q
<1>6. q <= Top /\ Top \in Nat
  <2>1. Base ^ (k + 1) <= Top
    <3>1. k + 1 \in 0 .. AddrBytes
      BY <1>1
    <3> QED
      BY <3>1, BelowTop
  <2>2. Top \in Nat
    BY Powers
  <2> QED
    BY <2>1, <2>2 DEF q
<1>7. n \in 0 .. Top - 1 /\ n < q
  BY <1>5, <1>6
<1>8. k + 1 < AddrBytes => k + 1 \in 0 .. AddrBytes - 1
  BY <1>1
<1> QED
  BY <1>7, <1>8 DEF n, p, q

LEMMA AddrWidth ==
  ASSUME WidthInv, NEW c \in Byte, AddrByte(c)
  PROVE  WidthInv'
<1>1. /\ rx' \in Seq(Byte) /\ Len(rx') <= RxDepth /\ tx' = tx
      /\ UNCHANGED <<command, len, off, value, mem, outgoing, outstanding, enter>>
  BY GetcharType DEF WidthInv, AddrByte, clientVars
<1>2. /\ pc = "addr" /\ addr \in 0 .. Top - 1 /\ addr < Base ^ i /\ i \in 0 .. AddrBytes - 1
      /\ len = 0 /\ off = 0 /\ addr \in Nat
  BY Powers DEF AddrByte, WidthInv, TypeOK
<1>3. addr' = addr + c * Base ^ i
  BY DEF AddrByte
<1>4. addr' \in 0 .. Top - 1
  BY <1>2, <1>3, NumberWidth
<1>5. i + 1 < AddrBytes => i + 1 \in 0 .. AddrBytes - 1 /\ addr' < Base ^ (i + 1)
  BY <1>2, <1>3, NumberWidth
<1>6. CASE i + 1 < AddrBytes
  <2>1. pc' = pc /\ i' = i + 1
    BY <1>6 DEF AddrByte
  <2> QED
    BY <1>1, <1>2, <1>4, <1>5, <1>6, <2>1 DEF WidthInv, TypeOK, Limit
<1>7. CASE ~ (i + 1 < AddrBytes)
  <2>1. i' = 0 /\ pc' \in {"read", "write", "len"}
    BY <1>7 DEF AddrByte
  <2>2. 0 \in 0 .. AddrBytes - 1 /\ 0 < Base ^ 0
    BY Powers
  <2> QED
    BY <1>1, <1>2, <1>4, <2>1, <2>2 DEF WidthInv, TypeOK, Limit
<1> QED
  BY <1>6, <1>7

LEMMA LenWidth ==
  ASSUME WidthInv, NEW c \in Byte, LenByte(c)
  PROVE  WidthInv'
<1>1. /\ rx' \in Seq(Byte) /\ Len(rx') <= RxDepth /\ tx' = tx
      /\ UNCHANGED <<command, addr, off, value, mem, outgoing, outstanding, enter>>
  BY GetcharType DEF WidthInv, LenByte, clientVars
<1>2. /\ pc = "len" /\ len \in 0 .. Top - 1 /\ len < Base ^ i /\ i \in 0 .. AddrBytes - 1
      /\ off = 0 /\ len \in Nat
  BY Powers DEF LenByte, WidthInv, TypeOK
<1>3. len' = len + c * Base ^ i
  BY DEF LenByte
<1>4. len' \in 0 .. Top - 1
  BY <1>2, <1>3, NumberWidth
<1>5. i + 1 < AddrBytes => i + 1 \in 0 .. AddrBytes - 1 /\ len' < Base ^ (i + 1)
  BY <1>2, <1>3, NumberWidth
<1>6. off' \in 0 .. Limit'
  BY <1>1, <1>2, <1>4, Powers, WidthAssumption DEF Limit
<1>7. CASE i + 1 < AddrBytes
  <2>1. pc' = pc /\ i' = i + 1
    BY <1>7 DEF LenByte
  <2> QED
    BY <1>1, <1>2, <1>4, <1>5, <1>6, <1>7, <2>1 DEF WidthInv, TypeOK
<1>8. CASE ~ (i + 1 < AddrBytes)
  <2>1. i' = 0 /\ pc' \in {"read", "write"}
    BY <1>8 DEF LenByte
  <2>2. 0 \in 0 .. AddrBytes - 1
    BY Powers
  <2> QED
    BY <1>1, <1>2, <1>4, <1>6, <2>1, <2>2 DEF WidthInv, TypeOK
<1> QED
  BY <1>7, <1>8

LEMMA TargetType ==
  ASSUME TypeOK
  PROVE  Target \in Cells
<1>1. addr + off \in Nat /\ Top \in Nat \ {0}
  BY Powers, WidthAssumption DEF TypeOK, Limit
<1>2. (addr + off) % Top \in 0 .. Top - 1
  BY <1>1, DivSplit
<1> QED
  BY <1>2, CellAssumption DEF Target

LEMMA MoveWidth ==
  ASSUME WidthInv,
         ReadByte \/ PutByte \/ (\E c \in Byte : WriteByte(c)) \/ RequestDone \/ Hardware
  PROVE  WidthInv'
<1>1. TypeOK /\ Limit \in Nat /\ off \in 0 .. Limit
  BY Powers, WidthAssumption DEF WidthInv, TypeOK, Limit
<1>2. CASE ReadByte
  <2>1. value' \in Byte
    BY <1>1, <1>2, TargetType DEF ReadByte, TypeOK
  <2> QED
    BY <1>1, <1>2, <2>1 DEF ReadByte, WidthInv, TypeOK, lineVars, clientVars, Limit
<1>3. CASE PutByte
  <2>1. off < Limit /\ off' = off + 1 /\ pc' = "read"
    BY <1>3 DEF PutByte, WidthInv
  <2>2. tx' \in Seq(Byte) /\ Len(tx') <= TxDepth
    <3>1. tx \in Seq(Byte) /\ value \in Byte /\ Len(tx) \in Nat
      BY <1>1 DEF TypeOK
    <3>2. TxDepth - Len(tx) >= TxReady /\ tx' = Append(tx, value)
      BY <1>3 DEF PutByte
    <3> QED
      BY <3>1, <3>2, AppendProperties, FifoAssumption
  <2>3. off' \in 0 .. Limit' /\ Limit' = Limit
    BY <1>1, <1>3, <2>1 DEF PutByte, Limit
  <2> QED
    BY <1>1, <1>3, <2>1, <2>2, <2>3 DEF PutByte, WidthInv, TypeOK, clientVars
<1>4. CASE \E c \in Byte : WriteByte(c)
  <2>1. PICK c \in Byte : WriteByte(c)
    BY <1>4
  <2>2. rx' \in Seq(Byte) /\ Len(rx') <= RxDepth /\ tx' = tx
    BY <1>1, <2>1, GetcharType DEF WriteByte
  <2>3. mem' \in [Cells -> Byte]
    <3>1. mem' = mem \/ mem' = [mem EXCEPT ![Target] = c]
      BY <2>1 DEF WriteByte
    <3> QED
      BY <1>1, <3>1 DEF TypeOK
  <2>4. off < Limit /\ off' = off + 1 /\ pc' \in {"write", "lost"}
        /\ off' \in 0 .. Limit' /\ Limit' = Limit
    BY <1>1, <2>1 DEF WriteByte, Limit
  <2> QED
    BY <1>1, <2>1, <2>2, <2>3, <2>4 DEF WriteByte, WidthInv, TypeOK, clientVars
<1>5. CASE RequestDone
  <2>1. outstanding' \in Seq(Requests) /\ Len(outstanding') <= Ahead
    <3>1. outstanding \in Seq(Requests) /\ Len(outstanding) <= Ahead
      BY <1>1 DEF TypeOK
    <3>2. outstanding # <<>> => /\ Tail(outstanding) \in Seq(Requests)
                                /\ Len(Tail(outstanding)) = Len(outstanding) - 1
                                /\ Len(outstanding) \in Nat
      BY <3>1, HeadTailProperties
    <3>3. CASE outstanding = <<>>
      BY <1>5, <3>1, <3>3 DEF RequestDone
    <3>4. CASE outstanding # <<>>
      BY <1>5, <3>1, <3>2, <3>4, AheadAssumption DEF RequestDone
    <3> QED
      BY <3>3, <3>4
  <2> QED
    BY <1>1, <1>5, <2>1 DEF RequestDone, WidthInv, TypeOK, lineVars, Limit
<1>6. CASE Hardware
  <2>1. mem' \in [Cells -> Byte]
    BY <1>1, <1>6, CellAssumption DEF Hardware, TypeOK
  <2> QED
    BY <1>1, <1>6, <2>1 DEF Hardware, WidthInv, TypeOK, lineVars, localVars, clientVars, Limit
<1> QED
  BY <1>2, <1>3, <1>4, <1>5, <1>6

THEOREM WidthInvariance == Spec => []WidthInv
<1>1. WidthInv /\ [Next]_vars => WidthInv'
  <2> SUFFICES ASSUME WidthInv, [Next]_vars
               PROVE  WidthInv'
    OBVIOUS
  <2>1. CASE UNCHANGED vars
    BY <2>1 DEF vars, lineVars, localVars, clientVars, WidthInv, TypeOK, Limit
  <2>2. CASE Next
    BY <2>2, LineWidth, RequestWidth, CommandWidth, AddrWidth, LenWidth, MoveWidth
    DEF Next, Monitor
  <2> QED
    BY <2>1, <2>2
<1> QED
  BY <1>1, InitWidth, PTL DEF Spec

(* Every variable has its type, whatever the other end of the line sends:   *)
(* the counters of bmo_handler stay below the widths of their types, and no *)
(* FIFO overflows.                                                          *)
THEOREM BmoTypes == Spec => []TypeOK
<1>1. WidthInv => TypeOK
  BY DEF WidthInv
<1> QED
  BY <1>1, WidthInvariance, PTL

-----------------------------------------------------------------------------
(* Requests on the line, one behind the other. *)
LEMMA WireIs ==
  ASSUME NEW q \in Seq(Requests)
  PROVE  /\ Wire(q) \in Seq(Byte)
         /\ q = <<>> => Wire(q) = <<>>
         /\ q # <<>> => Wire(q) = Encode(Head(q)) \o Wire(Tail(q))
<1> DEFINE w == [n \in 1 .. Len(q) |-> Encode(q[n])]
<1>1. /\ w \in Seq(Seq(Byte)) /\ Len(w) = Len(q) /\ Wire(q) = FlattenSeq(w)
      /\ \A n \in 1 .. Len(q) : w[n] = Encode(q[n])
  <2>1. \A n \in 1 .. Len(q) : Encode(q[n]) \in Seq(Byte)
    BY EncodeIs
  <2>2. DOMAIN q = 1 .. Len(q) /\ Len(q) \in Nat
    OBVIOUS
  <2> QED
    BY <2>1, <2>2 DEF Wire
<1> HIDE DEF w
<1>2. CASE q = <<>>
  <2>1. w = <<>>
    BY <1>1, <1>2, EmptySeq
  <2> QED
    BY <1>1, <1>2, <2>1, FlatEmpty, EmptySeq
<1>3. CASE q # <<>>
  <2>1. w # <<>> /\ Len(q) \in Nat \ {0}
    BY <1>1, <1>3
  <2>2. FlattenSeq(w) = Head(w) \o FlattenSeq(Tail(w)) /\ FlattenSeq(w) \in Seq(Byte)
    BY <1>1, <2>1, FlatHead, FlatType
  <2>3. Head(w) = Encode(Head(q))
    <3>1. 1 \in 1 .. Len(q) /\ Head(w) = w[1] /\ Head(q) = q[1]
      BY <1>1, <1>3, <2>1
    <3> QED
      BY <1>1, <3>1
  <2>4. Tail(w) = [n \in DOMAIN Tail(q) |-> Encode(Tail(q)[n])]
    <3>1. /\ Len(Tail(w)) = Len(w) - 1 /\ Tail(w) \in Seq(Seq(Byte))
          /\ \A n \in 1 .. Len(Tail(w)) : Tail(w)[n] = w[n + 1]
      BY <1>1, <2>1, HeadTailProperties
    <3>2. /\ Len(Tail(q)) = Len(q) - 1 /\ Tail(q) \in Seq(Requests)
          /\ \A n \in 1 .. Len(Tail(q)) : Tail(q)[n] = q[n + 1]
      BY <1>3, HeadTailProperties
    <3> DEFINE tq == Tail(q)
               tw == Tail(w)
               z == Len(q) - 1
    <3>3. DOMAIN tq = 1 .. z /\ DOMAIN tw = 1 .. z /\ tw = [n \in 1 .. z |-> tw[n]]
      <4>1. z \in Nat /\ Len(tw) = z /\ Len(tq) = z
        BY <1>1, <2>1, <3>1, <3>2
      <4>2. tw \in Seq(Seq(Byte)) /\ tq \in Seq(Requests)
        BY <3>1, <3>2
      <4> HIDE DEF tw, tq, z
      <4>3. \A S : \A s \in Seq(S) : DOMAIN s = 1 .. Len(s) /\ s = [n \in 1 .. Len(s) |-> s[n]]
        OBVIOUS
      <4> QED
        BY <4>1, <4>2, <4>3
    <3>4. \A n \in 1 .. z : tw[n] = Encode(tq[n])
      <4> TAKE n \in 1 .. z
      <4>1. tw[n] = w[n + 1] /\ tq[n] = q[n + 1] /\ n + 1 \in 1 .. Len(q)
        BY <1>1, <2>1, <3>1, <3>2
      <4> QED
        BY <1>1, <4>1
    <3> HIDE DEF tq, tw, z
    <3>5. tw = [n \in DOMAIN tq |-> Encode(tq[n])]
      BY <3>3, <3>4
    <3> QED
      BY <3>5 DEF tq, tw
  <2>5. FlattenSeq(Tail(w)) = Wire(Tail(q))
    BY <2>4 DEF Wire
  <2> QED
    BY <1>1, <1>3, <2>2, <2>3, <2>5
<1> QED
  BY <1>2, <1>3

LEMMA WireAppend ==
  ASSUME NEW q \in Seq(Requests), NEW r \in Requests
  PROVE  Wire(Append(q, r)) = Wire(q) \o Encode(r)
<1> DEFINE w == [n \in 1 .. Len(q) |-> Encode(q[n])]
           e == Encode(r)
           qr == Append(q, r)
           wr == [n \in DOMAIN qr |-> Encode(qr[n])]
<1>1. w \in Seq(Seq(Byte)) /\ Wire(q) = FlattenSeq(w) /\ Len(w) = Len(q) /\ Len(q) \in Nat
  <2>1. \A n \in 1 .. Len(q) : Encode(q[n]) \in Seq(Byte)
    BY EncodeIs
  <2>2. DOMAIN q = 1 .. Len(q) /\ Len(q) \in Nat
    OBVIOUS
  <2> QED
    BY <2>1, <2>2 DEF Wire
<1>2. e \in Seq(Byte)
  BY EncodeIs
<1>3. /\ DOMAIN qr = 1 .. Len(q) + 1 /\ qr[Len(q) + 1] = r
      /\ \A n \in 1 .. Len(q) : qr[n] = q[n]
  BY AppendProperties
<1>4. /\ \A n \in 1 .. Len(q) : Append(w, e)[n] = Encode(q[n])
      /\ Append(w, e)[Len(q) + 1] = e
      /\ Append(w, e) = [n \in 1 .. Len(q) + 1 |-> Append(w, e)[n]]
  <2>1. \A n \in 1 .. Len(q) : w[n] = Encode(q[n])
    OBVIOUS
  <2> HIDE DEF w, e
  <2>2. Append(w, e) \in Seq(Seq(Byte)) /\ Len(Append(w, e)) = Len(q) + 1
    BY <1>1, <1>2, AppendProperties
  <2>3. \A s \in Seq(Seq(Byte)), x \in Seq(Byte) :
          /\ \A n \in 1 .. Len(s) : Append(s, x)[n] = s[n]
          /\ Append(s, x)[Len(s) + 1] = x
    BY AppendProperties
  <2>4. \A s \in Seq(Seq(Byte)) : s = [n \in 1 .. Len(s) |-> s[n]]
    OBVIOUS
  <2>5. Append(w, e) = [n \in 1 .. Len(q) + 1 |-> Append(w, e)[n]]
    BY <2>2, <2>4
  <2>6. Append(w, e)[Len(q) + 1] = e
    BY <1>1, <1>2, <2>3
  <2>7. \A n \in 1 .. Len(q) : Append(w, e)[n] = Encode(q[n])
    BY <1>1, <1>2, <2>1, <2>3
  <2> QED
    BY <2>5, <2>6, <2>7
<1>5. wr = Append(w, e)
  <2>1. \A n \in 1 .. Len(q) + 1 : Encode(qr[n]) = Append(w, e)[n]
    <3> TAKE n \in 1 .. Len(q) + 1
    <3>1. n \in 1 .. Len(q) \/ n = Len(q) + 1
      BY <1>1
    <3> HIDE DEF w, qr
    <3> QED
      BY <1>3, <1>4, <3>1
  <2> HIDE DEF w, e, qr
  <2> QED
    BY <1>3, <1>4, <2>1
<1>6. Wire(qr) = FlattenSeq(wr)
  BY DEF Wire
<1> HIDE DEF w, e, qr, wr
<1>7. FlattenSeq(Append(w, e)) = FlattenSeq(w) \o e
  BY <1>1, <1>2, FlatAppend
<1>8. Wire(qr) = Wire(q) \o e
  BY <1>1, <1>5, <1>6, <1>7
<1> QED
  BY <1>8 DEF qr, e

(* OnLine: u and then v are the rest of e, from its byte k on, and then w.  *)
OnLine(u, v, e, w, k) == u \o v = SubSeq(e, k, Len(e)) \o w

(* Taking the first byte of what is on the line, of which the rest of one   *)
(* request comes first.                                                     *)
LEMMA TakeByte ==
  ASSUME NEW u \in Seq(Byte), NEW v \in Seq(Byte), u # <<>>,
         NEW e \in Seq(Byte), NEW w \in Seq(Byte), NEW k \in 0 .. Len(e) - 1,
         OnLine(u, v, e, w, k + 1)
  PROVE  Head(u) = e[k + 1] /\ OnLine(Tail(u), v, e, w, k + 2)
<1> DEFINE a == SubSeq(e, k + 1, Len(e))
           b == SubSeq(e, k + 2, Len(e))
<1>1. Len(e) \in Nat /\ k \in Nat /\ k < Len(e) /\ Len(u) \in Nat \ {0}
  OBVIOUS
<1>2. /\ a \in Seq(Byte) /\ Len(a) = Len(e) - k /\ \A n \in 1 .. Len(e) - k : a[n] = e[k + n]
  <2>1. \A n \in k + 1 .. Len(e) : e[n] \in Byte
    BY <1>1
  <2>2. /\ a \in Seq(Byte)
        /\ Len(a) = IF k + 1 <= Len(e) THEN Len(e) - (k + 1) + 1 ELSE 0
        /\ \A n \in 1 .. Len(e) - (k + 1) + 1 : a[n] = e[k + 1 + n - 1]
    BY <1>1, <2>1, SubSeqProperties
  <2>3. Len(e) - (k + 1) + 1 = Len(e) - k /\ k + 1 <= Len(e)
    BY <1>1
  <2>4. \A n \in 1 .. Len(e) - k : k + 1 + n - 1 = k + n
    BY <1>1
  <2> HIDE DEF a
  <2> QED
    BY <2>2, <2>3, <2>4
<1>3. /\ b \in Seq(Byte) /\ Len(b) = Len(e) - k - 1
      /\ \A n \in 1 .. Len(e) - k - 1 : b[n] = e[k + 1 + n]
  <2> DEFINE m == k + 2
  <2>1. m \in Nat \ {0} /\ \A n \in m .. Len(e) : e[n] \in Byte
    BY <1>1
  <2>5. b = SubSeq(e, m, Len(e))
    OBVIOUS
  <2> HIDE DEF m, b
  <2>6. /\ SubSeq(e, m, Len(e)) \in Seq(Byte)
        /\ Len(SubSeq(e, m, Len(e))) = IF m <= Len(e) THEN Len(e) - m + 1 ELSE 0
        /\ \A n \in 1 .. Len(e) - m + 1 : SubSeq(e, m, Len(e))[n] = e[m + n - 1]
    BY <1>1, <2>1, SubSeqProperties, SMTT(60)
  <2>2. /\ b \in Seq(Byte)
        /\ Len(b) = IF k + 2 <= Len(e) THEN Len(e) - (k + 2) + 1 ELSE 0
        /\ \A n \in 1 .. Len(e) - (k + 2) + 1 : b[n] = e[k + 2 + n - 1]
    BY <2>5, <2>6 DEF m
  <2>3. Len(e) - (k + 2) + 1 = Len(e) - k - 1
        /\ (~ (k + 2 <= Len(e)) => Len(e) - k - 1 = 0)
    BY <1>1
  <2>4. \A n \in 1 .. Len(e) - k - 1 : k + 2 + n - 1 = k + 1 + n
    BY <1>1
  <2> HIDE DEF b
  <2> QED
    BY <2>2, <2>3, <2>4
<1>4. u \o v = a \o w
  BY DEF OnLine
<1> HIDE DEF a, b
<1>5. /\ u \o v \in Seq(Byte) /\ Len(u \o v) = Len(u) + Len(v)
      /\ \A n \in 1 .. Len(u) + Len(v) :
           (u \o v)[n] = IF n <= Len(u) THEN u[n] ELSE v[n - Len(u)]
  BY ConcatProperties
<1>6. /\ Len(a \o w) = Len(a) + Len(w)
      /\ \A n \in 1 .. Len(a) + Len(w) :
           (a \o w)[n] = IF n <= Len(a) THEN a[n] ELSE w[n - Len(a)]
  BY <1>2, ConcatProperties
<1>7. Head(u) = e[k + 1] /\ Head(u) \in Byte
  <2>1. Head(u) = u[1] /\ 1 \in 1 .. Len(u) /\ Len(v) \in Nat /\ Len(w) \in Nat
    BY <1>1
  <2>2. (u \o v)[1] = u[1] /\ (a \o w)[1] = a[1] /\ a[1] = e[k + 1]
    BY <1>1, <1>2, <1>5, <1>6, <2>1
  <2> QED
    BY <1>4, <2>1, <2>2
<1>8. Tail(u) \o v = b \o w
  <2>1. /\ Tail(u) \in Seq(Byte) /\ Len(Tail(u)) = Len(u) - 1
        /\ \A n \in 1 .. Len(Tail(u)) : Tail(u)[n] = u[n + 1]
    BY HeadTailProperties
  <2> DEFINE x == Tail(u)
             y == x \o v
             z == b \o w
  <2>2. Len(v) \in Nat /\ Len(w) \in Nat /\ Len(u) + Len(v) = Len(a) + Len(w)
    BY <1>4, <1>5, <1>6
  <2> HIDE DEF x
  <2>3. /\ y \in Seq(Byte) /\ Len(y) = Len(u) - 1 + Len(v)
        /\ \A n \in 1 .. Len(u) - 1 + Len(v) :
             y[n] = IF n <= Len(u) - 1 THEN x[n] ELSE v[n - (Len(u) - 1)]
    BY <2>1, ConcatProperties DEF x
  <2>4. /\ z \in Seq(Byte) /\ Len(z) = Len(b) + Len(w)
        /\ \A n \in 1 .. Len(b) + Len(w) :
             z[n] = IF n <= Len(b) THEN b[n] ELSE w[n - Len(b)]
    BY <1>3, ConcatProperties
  <2>5. Len(y) = Len(z) /\ Len(b) + Len(w) = Len(u) - 1 + Len(v)
    BY <1>1, <1>2, <1>3, <2>2, <2>3, <2>4
  <2>6. \A n \in 1 .. Len(y) : y[n] = (u \o v)[n + 1]
    <3> TAKE n \in 1 .. Len(y)
    <3>1. n \in 1 .. Len(u) - 1 + Len(v) /\ n + 1 \in 1 .. Len(u) + Len(v)
      BY <1>1, <2>2, <2>3
    <3>2. n + 1 - Len(u) = n - (Len(u) - 1) /\ (n + 1 <= Len(u) <=> n <= Len(u) - 1)
      BY <1>1, <3>1
    <3>3. n <= Len(u) - 1 => x[n] = u[n + 1]
      BY <1>1, <2>1, <3>1 DEF x
    <3> QED
      BY <1>5, <2>3, <3>1, <3>2, <3>3
  <2>7. \A n \in 1 .. Len(y) : z[n] = (a \o w)[n + 1]
    <3> TAKE n \in 1 .. Len(y)
    <3>1. n \in 1 .. Len(b) + Len(w) /\ n + 1 \in 1 .. Len(a) + Len(w)
      BY <1>1, <1>2, <1>3, <2>2, <2>3, <2>5
    <3>2. n + 1 - Len(a) = n - Len(b) /\ (n + 1 <= Len(a) <=> n <= Len(b))
      BY <1>1, <1>2, <1>3, <3>1
    <3>3. n <= Len(b) => b[n] = e[k + 1 + n] /\ a[n + 1] = e[k + (n + 1)]
      BY <1>1, <1>2, <1>3, <3>1
    <3>4. k + 1 + n = k + (n + 1)
      BY <1>1, <3>1
    <3>5. (a \o w)[n + 1] = IF n + 1 <= Len(a) THEN a[n + 1] ELSE w[n + 1 - Len(a)]
      BY <1>6, <3>1, SMTT(60)
    <3>6. z[n] = IF n <= Len(b) THEN b[n] ELSE w[n - Len(b)]
      BY <2>4, <3>1
    <3> HIDE DEF z
    <3> QED
      BY <3>2, <3>3, <3>4, <3>5, <3>6
  <2> HIDE DEF y, z
  <2>8. \A n \in 1 .. Len(y) : y[n] = z[n]
    BY <1>4, <2>6, <2>7
  <2>9. y = z
    BY <2>3, <2>4, <2>5, <2>8, SeqEqual
  <2> QED
    BY <2>9 DEF x, y, z
<1> QED
  BY <1>7, <1>8 DEF b, OnLine

LEMMA RestOf ==
  ASSUME NEW S, NEW s \in Seq(S)
  PROVE  /\ SubSeq(s, 1, Len(s)) = s
         /\ SubSeq(s, Len(s) + 1, Len(s)) = <<>>
         /\ \A k \in 0 .. Len(s) : SubSeq(s, k + 1, Len(s)) \in Seq(S)
<1>1. Len(s) \in Nat /\ \A n \in 1 .. Len(s) : s[n] \in S
  OBVIOUS
<1>2. \A m \in 1 .. Len(s) + 1 :
        /\ SubSeq(s, m, Len(s)) \in Seq(S)
        /\ Len(SubSeq(s, m, Len(s))) = Len(s) - m + 1
        /\ \A n \in 1 .. Len(s) - m + 1 : SubSeq(s, m, Len(s))[n] = s[m + n - 1]
  <2> TAKE m \in 1 .. Len(s) + 1
  <2>1. m \in Nat \ {0} /\ \A n \in m .. Len(s) : s[n] \in S
    BY <1>1
  <2>2. /\ SubSeq(s, m, Len(s)) \in Seq(S)
        /\ Len(SubSeq(s, m, Len(s))) = IF m <= Len(s) THEN Len(s) - m + 1 ELSE 0
        /\ \A n \in 1 .. Len(s) - m + 1 : SubSeq(s, m, Len(s))[n] = s[m + n - 1]
    BY <1>1, <2>1, SubSeqProperties
  <2>3. ~ (m <= Len(s)) => Len(s) - m + 1 = 0
    BY <1>1
  <2> QED
    BY <2>2, <2>3
<1>3. SubSeq(s, 1, Len(s)) = s
  <2> DEFINE u == SubSeq(s, 1, Len(s))
  <2>1. 1 \in 1 .. Len(s) + 1 /\ Len(s) - 1 + 1 = Len(s)
    BY <1>1
  <2>2. u \in Seq(S) /\ Len(u) = Len(s) /\ \A n \in 1 .. Len(s) : u[n] = s[1 + n - 1]
    BY <1>2, <2>1
  <2>3. \A n \in 1 .. Len(s) : 1 + n - 1 = n
    BY <1>1
  <2> HIDE DEF u
  <2>4. u = s
    BY <2>2, <2>3, SeqEqual
  <2> QED
    BY <2>4 DEF u
<1>4. SubSeq(s, Len(s) + 1, Len(s)) = <<>>
  <2> DEFINE m == Len(s) + 1
             u == SubSeq(s, m, Len(s))
  <2>1. m \in 1 .. Len(s) + 1 /\ Len(s) - m + 1 = 0
    BY <1>1
  <2> HIDE DEF m
  <2>2. u \in Seq(S) /\ Len(u) = 0
    BY <1>2, <2>1
  <2> HIDE DEF u
  <2>3. u = <<>>
    BY <2>2, EmptySeq
  <2> QED
    BY <2>3 DEF u, m
<1>5. \A k \in 0 .. Len(s) : SubSeq(s, k + 1, Len(s)) \in Seq(S)
  <2> TAKE k \in 0 .. Len(s)
  <2> DEFINE m == k + 1
  <2>1. m \in 1 .. Len(s) + 1
    BY <1>1
  <2> HIDE DEF m
  <2>2. SubSeq(s, m, Len(s)) \in Seq(S)
    BY <1>2, <2>1
  <2> QED
    BY <2>2 DEF m
<1> QED
  BY <1>3, <1>4, <1>5

-----------------------------------------------------------------------------
(* The handler and the program in step. *)
LEMMA FirstIs ==
  ASSUME TypeOK, outstanding # <<>>
  PROVE  /\ First \in Requests /\ Tail(outstanding) \in Seq(Requests)
         /\ Len(Tail(outstanding)) = Len(outstanding) - 1 /\ Len(outstanding) \in Nat \ {0}
         /\ First = outstanding[1]
         /\ \A n \in 1 .. Len(outstanding) - 1 : Tail(outstanding)[n] = outstanding[n + 1]
<1>1. outstanding \in Seq(Requests)
  BY DEF TypeOK
<1>2. Len(outstanding) \in Nat \ {0}
  BY <1>1
<1> QED
  BY <1>1, <1>2, HeadTailProperties DEF First

(* Which command a request begins with tells everything about its kind.     *)
LEMMA TagIs ==
  ASSUME NEW r \in Requests
  PROVE  /\ TagOf(r) \in Commands
         /\ TagOf(r) = EXIT <=> r.kind = "exit"
         /\ TagOf(r) = READ <=> r.kind = "read" /\ r.short
         /\ TagOf(r) = WRITE <=> r.kind = "write" /\ r.short
         /\ TagOf(r) = MEM_READ <=> r.kind = "read" /\ ~r.short
         /\ TagOf(r) = MEM_WRITE <=> r.kind = "write" /\ ~r.short
  BY RequestType, CommandAssumption DEF TagOf, Commands

LEMMA ConsumedIs ==
  ASSUME WidthInv, ServingInv
  PROVE  /\ pc \in {"command", "exited", "lost"} => Consumed = 0
         /\ pc = "addr" => Consumed = 1 + i
         /\ pc = "len" => Consumed = 1 + AddrBytes + i
         /\ pc \in {"read", "put"} => Consumed = Header(First)
         /\ pc = "write" => Consumed = Header(First) + off
<1>1. \/ pc \in {"command", "exited", "lost"} \/ pc = "addr" \/ pc = "len"
      \/ pc \in {"read", "put"} \/ pc = "write"
  BY DEF WidthInv, TypeOK
<1>2. CASE pc \in {"command", "exited", "lost"}
  BY <1>2 DEF Consumed
<1>3. CASE pc = "addr"
  BY <1>3 DEF Consumed
<1>4. CASE pc = "len"
  BY <1>4 DEF Consumed
<1>5. CASE pc \in {"read", "put", "write"}
  <2>1. outstanding # <<>> /\ command = Encode(First)[1] /\ First.kind # "exit"
    BY <1>5 DEF ServingInv, Serving
  <2>2. First \in Requests /\ command = TagOf(First)
    BY <2>1, FirstIs, EncodeIs DEF WidthInv
  <2>3. command \in {READ, WRITE} <=> First.short
    BY <2>1, <2>2, TagIs, RequestType
  <2>4. Header(First) = 1 + (IF command \in {READ, WRITE} THEN AddrBytes ELSE 2 * AddrBytes)
    BY <2>1, <2>3 DEF Header
  <2>5. Header(First) \in Nat
    BY <2>2, RequestType
  <2>6. CASE pc \in {"read", "put"}
    BY <2>4, <2>5, <2>6 DEF Consumed
  <2>7. CASE pc = "write"
    BY <2>4, <2>5, <2>7 DEF Consumed
  <2> QED
    BY <1>5, <2>6, <2>7
<1> QED
  BY <1>1, <1>2, <1>3, <1>4, <1>5

(* It has read no more of a request than there is.                          *)
LEMMA ConsumedWithin ==
  ASSUME WidthInv, ServingInv, outstanding # <<>>
  PROVE  /\ Consumed \in 0 .. Len(Encode(First))
         /\ \/ pc \in {"command", "exited", "lost", "addr", "len"}
            \/ pc = "write" /\ off < Limit
            => Consumed < Len(Encode(First))
<1> DEFINE l == Len(Encode(First))
           h == Header(First)
           d == IF First.kind = "write" THEN First.len ELSE 0
<1>1. First \in Requests
  BY FirstIs DEF WidthInv
<1>2. l = h + d /\ h \in Nat /\ d \in Nat
  BY <1>1, EncodeIs, RequestType
<1>3. AddrBytes \in Nat \ {0} /\ i \in 0 .. AddrBytes - 1 /\ off \in 0 .. Limit
      /\ pc \in {"command", "addr", "len", "read", "put", "write", "exited", "lost"}
  BY Powers DEF WidthInv, TypeOK
<1>4. h = IF First.kind = "exit" THEN 1
          ELSE IF First.short THEN 1 + AddrBytes ELSE 1 + 2 * AddrBytes
  BY DEF Header
<1>5. CASE pc \in {"command", "exited", "lost"}
  <2>1. Consumed = 0
    BY <1>5, ConsumedIs
  <2>2. h >= 1
    BY <1>3, <1>4
  <2> HIDE DEF h, d, l
  <2>3. 0 \in 0 .. l /\ 0 < l
    BY <1>2, <2>2
  <2> QED
    BY <2>1, <2>3 DEF l
<1>6. CASE pc = "addr"
  <2>1. Consumed = 1 + i /\ First.kind # "exit"
    BY <1>6, ConsumedIs DEF ServingInv, Serving
  <2>2. h >= 1 + AddrBytes
    BY <1>3, <1>4, <2>1
  <2> HIDE DEF h, d, l
  <2>3. 1 + i \in 0 .. l /\ 1 + i < l
    BY <1>2, <1>3, <2>2
  <2> QED
    BY <2>1, <2>3 DEF l
<1>7. CASE pc = "len"
  <2>1. Consumed = 1 + AddrBytes + i /\ First.kind # "exit" /\ ~First.short
    BY <1>7, ConsumedIs DEF ServingInv, Serving
  <2>2. h = 1 + 2 * AddrBytes
    BY <1>3, <1>4, <2>1
  <2> HIDE DEF h, d, l
  <2>3. 1 + AddrBytes + i \in 0 .. l /\ 1 + AddrBytes + i < l
    BY <1>2, <1>3, <2>2
  <2> QED
    BY <2>1, <2>3 DEF l
<1>8. CASE pc \in {"read", "put"}
  <2>1. Consumed = h
    BY <1>8, ConsumedIs
  <2> HIDE DEF h, d, l
  <2>2. h \in 0 .. l
    BY <1>2
  <2> QED
    BY <1>8, <2>1, <2>2 DEF l
<1>9. CASE pc = "write"
  <2>1. Consumed = h + off /\ Limit = d
    BY <1>9, ConsumedIs DEF ServingInv
  <2> HIDE DEF h, d, l
  <2>2. h + off \in 0 .. l /\ (off < Limit => h + off < l)
    BY <1>2, <1>3, <2>1
  <2> QED
    BY <1>9, <2>1, <2>2 DEF l
<1> QED
  BY <1>3, <1>5, <1>6, <1>7, <1>8, <1>9

(* The byte that the handler takes is the next one of the first request.    *)
LEMMA Received ==
  ASSUME WidthInv, ServingInv, LineInv, NEW c, Getchar(c),
         \/ pc \in {"command", "exited", "lost", "addr", "len"}
         \/ pc = "write" /\ off < Limit
  PROVE  /\ outstanding # <<>> /\ First \in Requests
         /\ c = Encode(First)[Consumed + 1]
         /\ rx' \o outgoing = SubSeq(Encode(First), Consumed + 2, Len(Encode(First)))
                                \o Wire(Tail(outstanding))
<1>1. rx \in Seq(Byte) /\ outgoing \in Seq(Byte) /\ rx # <<>> /\ c = Head(rx) /\ rx' = Tail(rx)
  BY DEF WidthInv, TypeOK, Getchar
<1>2. rx \o outgoing # <<>>
  <2>1. Len(rx) \in Nat \ {0} /\ Len(outgoing) \in Nat /\ Len(rx \o outgoing) = Len(rx) + Len(outgoing)
    BY <1>1, ConcatProperties
  <2> QED
    BY <2>1
<1>3. outstanding # <<>>
  BY <1>2 DEF LineInv
<1>4. First \in Requests /\ Tail(outstanding) \in Seq(Requests)
  BY <1>3, FirstIs DEF WidthInv
<1> DEFINE e == Encode(First)
           w == Wire(Tail(outstanding))
           k == Consumed
<1>5. e \in Seq(Byte) /\ w \in Seq(Byte)
  BY <1>4, EncodeIs, WireIs
<1>6. k \in 0 .. Len(e) - 1
  <2>1. k \in 0 .. Len(e) /\ k < Len(e)
    BY <1>3, ConsumedWithin
  <2> HIDE DEF k, e
  <2> QED
    BY <1>5, <2>1
<1>7. OnLine(rx, outgoing, e, w, k + 1)
  BY <1>3 DEF LineInv, OnLine
<1> HIDE DEF e, w, k
<1>8. Head(rx) = e[k + 1] /\ OnLine(Tail(rx), outgoing, e, w, k + 2)
  <2>1. rx \in Seq(Byte) /\ outgoing \in Seq(Byte) /\ rx # <<>>
    BY <1>1
  <2> QED
    BY <1>5, <1>6, <1>7, <2>1, TakeByte, Zenon
<1> QED
  BY <1>1, <1>3, <1>4, <1>8 DEF e, w, k, OnLine

(* After it, what is on the line is still the rest of the first request and *)
(* the others.                                                              *)
LEMMA StillInStep ==
  ASSUME WidthInv, ServingInv, LineInv, NEW c, Getchar(c),
         \/ pc \in {"command", "exited", "lost", "addr", "len"}
         \/ pc = "write" /\ off < Limit,
         UNCHANGED <<outgoing, outstanding, enter>>,
         Consumed' = Consumed + 1, pc' \notin {"exited", "lost"}
  PROVE  LineInv'
<1>1. /\ outstanding # <<>> /\ First \in Requests
      /\ rx' \o outgoing = SubSeq(Encode(First), Consumed + 2, Len(Encode(First)))
                             \o Wire(Tail(outstanding))
  BY Received
<1>2. Consumed + 2 = Consumed' + 1
  <2>1. Consumed \in Nat
    BY <1>1, ConsumedWithin, EncodeIs
  <2> DEFINE k == Consumed
             m == Consumed'
  <2>2. k \in Nat /\ m = k + 1
    BY <2>1
  <2> HIDE DEF k, m
  <2>3. k + 2 = m + 1
    BY <2>2
  <2> QED
    BY <2>3 DEF k, m
<1>3. First' = First
  BY DEF First
<1>4. rx' \o outgoing' = SubSeq(Encode(First'), Consumed' + 1, Len(Encode(First')))
                           \o Wire(Tail(outstanding'))
  BY <1>1, <1>2, <1>3
<1> QED
  BY <1>1, <1>4 DEF LineInv

(* The other end and the UART move bytes along and add requests at the end. *)
LEMMA LineStep ==
  ASSUME Stray = {}, WidthInv, ServingInv, LineInv,
         \/ SendByte \/ (\E c \in Stray : UserTypes(c)) \/ OnlyEnter \/ PressEnter
         \/ Transmit \/ Hardware
  PROVE  ServingInv' /\ LineInv'
<1>1. UNCHANGED <<localVars, outstanding, enter>>
  BY DEF SendByte, UserTypes, OnlyEnter, PressEnter, Transmit, Hardware, clientVars, LineInv
<1>2. rx' \o outgoing' = rx \o outgoing
  <2>1. rx \in Seq(Byte) /\ outgoing \in Seq(Byte)
    BY DEF WidthInv, TypeOK
  <2>2. CASE SendByte
    <3>1. \A u, v \in Seq(Byte) : v # <<>> => Append(u, Head(v)) \o Tail(v) = u \o v
      <4> TAKE u, v \in Seq(Byte)
      <4> HAVE v # <<>>
      <4>1. Head(v) \in Byte /\ Tail(v) \in Seq(Byte) /\ v = <<Head(v)>> \o Tail(v)
        BY HeadTailProperties
      <4>2. Append(u, Head(v)) = u \o <<Head(v)>>
        BY <4>1
      <4>3. <<Head(v)>> \in Seq(Byte)
        BY <4>1
      <4>4. (u \o <<Head(v)>>) \o Tail(v) = u \o (<<Head(v)>> \o Tail(v))
        BY <4>1, <4>3, ConcatAssociative
      <4> QED
        BY <4>1, <4>2, <4>4
    <3> QED
      BY <2>1, <2>2, <3>1 DEF SendByte
  <2>3. CASE Transmit \/ Hardware
    BY <2>3 DEF Transmit, Hardware, lineVars, clientVars
  <2> QED
    BY <2>2, <2>3 DEF UserTypes, OnlyEnter, PressEnter, LineInv
<1>3. First' = First /\ Consumed' = Consumed
  BY <1>1 DEF First, Consumed, localVars
<1>4. ServingInv'
  BY <1>1 DEF ServingInv, Serving, First, Limit, localVars
<1>5. LineInv'
  BY <1>1, <1>2, <1>3 DEF LineInv, localVars
<1> QED
  BY <1>4, <1>5

LEMMA RequestStep ==
  ASSUME WidthInv, ServingInv, LineInv, NEW r \in Requests, MakeRequest(r)
  PROVE  ServingInv' /\ LineInv'
<1>1. /\ outgoing = <<>> /\ outgoing' = Encode(r) /\ outstanding' = Append(outstanding, r)
      /\ ~Leaving /\ pc # "exited" /\ pc # "lost"
      /\ UNCHANGED <<lineVars, localVars, enter>>
  BY DEF MakeRequest, LineInv
<1>2. rx \in Seq(Byte) /\ outstanding \in Seq(Requests) /\ Encode(r) \in Seq(Byte)
  BY EncodeIs DEF WidthInv, TypeOK
<1>3. Consumed' = Consumed
  BY <1>1 DEF Consumed, localVars
<1>4. outstanding' # <<>> /\ Len(outstanding') - 1 = Len(outstanding)
      /\ \A n \in 1 .. Len(outstanding) : outstanding'[n] = outstanding[n]
  BY <1>1, <1>2, AppendProperties
<1>5. \A n \in 1 .. Len(outstanding') - 1 : outstanding'[n].kind # "exit"
  <2>1. \A n \in 1 .. Len(outstanding) : outstanding[n].kind # "exit"
    BY <1>1, <1>2 DEF Leaving
  <2> QED
    BY <1>4, <2>1
<1>6. rx \o outgoing = rx /\ rx' \o outgoing' = rx \o Encode(r)
  BY <1>1, <1>2, ConcatEmptySeq DEF lineVars
<1>7. CASE outstanding = <<>>
  <2>1. outstanding' = <<r>> /\ First' = r /\ Tail(outstanding') = <<>>
    BY <1>1, <1>7 DEF First
  <2>2. rx = <<>>
    BY <1>6, <1>7 DEF LineInv
  <2>3. pc = "command" /\ ~Serving
    BY <1>1, <1>7 DEF ServingInv, Serving, WidthInv, TypeOK
  <2>4. Consumed' = 0
    BY <1>3, <2>3 DEF Consumed
  <2>5. rx' \o outgoing' = Encode(r)
    BY <1>2, <1>6, <2>2
  <2>6. Wire(<<>>) = <<>> /\ SubSeq(Encode(r), 1, Len(Encode(r))) = Encode(r)
        /\ Encode(r) \o <<>> = Encode(r)
    BY <1>2, WireIs, RestOf, ConcatEmptySeq, EmptySeq
  <2>7. rx' \o outgoing' = SubSeq(Encode(First'), Consumed' + 1, Len(Encode(First')))
                             \o Wire(Tail(outstanding'))
    BY <2>1, <2>4, <2>5, <2>6
  <2>8. LineInv'
    BY <1>1, <1>4, <1>5, <2>7 DEF LineInv, localVars
  <2>9. ServingInv'
    BY <1>1, <2>3 DEF ServingInv, Serving, localVars
  <2> QED
    BY <2>8, <2>9
<1>8. CASE outstanding # <<>>
  <2>1. First' = First /\ Tail(outstanding') = Append(Tail(outstanding), r)
    <3>1. \A s \in Seq(Requests) : s # <<>> => Head(Append(s, r)) = Head(s)
                                               /\ Tail(Append(s, r)) = Append(Tail(s), r)
      OBVIOUS
    <3> QED
      BY <1>1, <1>2, <1>8, <3>1 DEF First
  <2>2. First \in Requests /\ Tail(outstanding) \in Seq(Requests)
    BY <1>8, FirstIs DEF WidthInv
  <2> DEFINE e == Encode(First)
             s == SubSeq(e, Consumed + 1, Len(e))
             w == Wire(Tail(outstanding))
  <2>3. s \in Seq(Byte) /\ w \in Seq(Byte)
    <3>1. e \in Seq(Byte) /\ Consumed \in 0 .. Len(e)
      BY <1>8, <2>2, EncodeIs, ConsumedWithin
    <3>2. \A k \in 0 .. Len(e) : SubSeq(e, k + 1, Len(e)) \in Seq(Byte)
      BY <3>1, RestOf
    <3> QED
      BY <2>2, <3>1, <3>2, WireIs
  <2>4. Wire(Tail(outstanding')) = w \o Encode(r)
    BY <2>1, <2>2, WireAppend
  <2>5. rx = s \o w
    BY <1>6, <1>8 DEF LineInv
  <2>6. rx' \o outgoing' = s \o (w \o Encode(r))
    <3> HIDE DEF s, w
    <3>1. (s \o w) \o Encode(r) = s \o (w \o Encode(r))
      BY <1>2, <2>3, ConcatAssociative
    <3> QED
      BY <1>6, <2>5, <3>1
  <2>7. rx' \o outgoing' = SubSeq(Encode(First'), Consumed' + 1, Len(Encode(First')))
                             \o Wire(Tail(outstanding'))
    BY <1>3, <2>1, <2>4, <2>6
  <2>8. LineInv'
    BY <1>1, <1>4, <1>5, <2>7 DEF LineInv, localVars
  <2>9. ServingInv'
    <3>1. outstanding' # <<>> /\ First' = First /\ Serving' = Serving /\ Limit' = Limit
      BY <1>1, <1>4, <2>1 DEF Serving, Limit, localVars
    <3> QED
      BY <1>1, <1>8, <3>1 DEF ServingInv, localVars
  <2> QED
    BY <2>8, <2>9
<1> QED
  BY <1>7, <1>8

(* The command: the first byte of a request, and all of a request to leave. *)
LEMMA CommandStep ==
  ASSUME WidthInv, ServingInv, LineInv, NEW c, Command(c) \/ Ignored(c)
  PROVE  ServingInv' /\ LineInv'
<1>1. pc = "command" /\ Getchar(c) /\ Consumed = 0
  BY ConsumedIs DEF Command, Ignored
<1>2. /\ outstanding # <<>> /\ First \in Requests
      /\ c = Encode(First)[0 + 1]
      /\ rx' \o outgoing = SubSeq(Encode(First), 0 + 2, Len(Encode(First)))
                             \o Wire(Tail(outstanding))
  <2>1. /\ outstanding # <<>> /\ First \in Requests
        /\ c = Encode(First)[Consumed + 1]
        /\ rx' \o outgoing = SubSeq(Encode(First), Consumed + 2, Len(Encode(First)))
                               \o Wire(Tail(outstanding))
    BY <1>1, Received
  <2> QED
    BY <1>1, <2>1
<1>3. c = TagOf(First) /\ c = Encode(First)[1]
  BY <1>2, EncodeIs
<1>4. c \in Commands
  BY <1>2, <1>3, TagIs
<1>5. Command(c)
  BY <1>4 DEF Ignored, Command
<1>6. /\ pc' = IF c = EXIT THEN "exited" ELSE "addr"
      /\ command' = c /\ addr' = 0 /\ len' = 0 /\ off' = 0 /\ i' = 0
      /\ outstanding' = IF c = EXIT THEN Tail(outstanding) ELSE outstanding
      /\ UNCHANGED <<outgoing, enter>>
  BY <1>2, <1>5 DEF Command
<1>7. CASE c = EXIT
  <2>1. First.kind = "exit"
    BY <1>2, <1>3, <1>7, TagIs
  <2>2. Len(outstanding) = 1 /\ Tail(outstanding) = <<>>
    <3>1. /\ Tail(outstanding) \in Seq(Requests) /\ Len(Tail(outstanding)) = Len(outstanding) - 1
          /\ Len(outstanding) \in Nat \ {0} /\ First = outstanding[1]
      BY <1>2, FirstIs DEF WidthInv
    <3>2. Len(outstanding) = 1
      <4>1. 1 \in 1 .. Len(outstanding) - 1 => outstanding[1].kind # "exit"
        BY DEF LineInv
      <4> QED
        BY <2>1, <3>1, <4>1
    <3> DEFINE t == Tail(outstanding)
    <3>3. t \in Seq(Requests) /\ Len(t) = 0
      BY <3>1, <3>2
    <3> HIDE DEF t
    <3>4. t = <<>>
      BY <3>3, EmptySeq
    <3> QED
      BY <3>2, <3>4 DEF t
  <2>3. rx' \o outgoing = <<>>
    <3>1. Encode(First) = <<EXIT>>
      BY <2>1 DEF Encode
    <3>2. Len(Encode(First)) = 1 /\ <<EXIT>> \in Seq({EXIT})
      BY <3>1
    <3>3. SubSeq(<<EXIT>>, Len(<<EXIT>>) + 1, Len(<<EXIT>>)) = <<>>
      BY <3>2, RestOf
    <3>4. SubSeq(Encode(First), 0 + 2, Len(Encode(First))) = <<>>
      BY <3>1, <3>2, <3>3
    <3>5. Wire(<<>>) = <<>> /\ <<>> \o <<>> = <<>>
      <4>1. <<>> \in Seq(Requests)
        BY EmptySeq
      <4>2. Wire(<<>>) = <<>>
        BY <4>1, WireIs, Zenon
      <4>3. \A s \in Seq({}) : <<>> \o s = s
        BY ConcatEmptySeq
      <4> QED
        BY <4>2, <4>3, EmptySeq
    <3> QED
      BY <1>2, <2>2, <3>4, <3>5
  <2>4. outstanding' = <<>> /\ pc' = "exited"
    BY <1>6, <1>7, <2>2
  <2>5. Len(<<>>) = 0
    OBVIOUS
  <2>6. LineInv'
    <3>1. ~enter' /\ rx' \o outgoing' = <<>>
      BY <1>6, <2>3 DEF LineInv
    <3>2. \A n \in 1 .. Len(outstanding') - 1 : FALSE
      BY <2>4, <2>5
    <3> QED
      BY <2>4, <3>1, <3>2 DEF LineInv
  <2> QED
    BY <2>4, <2>6 DEF ServingInv, Serving
<1>8. CASE c # EXIT
  <2>1. First' = First /\ outstanding' = outstanding /\ pc' = "addr" /\ First.kind # "exit"
    BY <1>2, <1>3, <1>6, <1>8, TagIs DEF First
  <2>2. First.addr % Base ^ 0 = 0
    <3>1. First.addr \in 0 .. Top - 1 /\ 0 \in 0 .. AddrBytes - 1
      BY <1>2, RequestType, Powers
    <3> QED
      BY <3>1, ReadDigit
  <2>3. ServingInv'
    BY <1>2, <1>3, <1>6, <2>1, <2>2 DEF ServingInv, Serving
  <2>4. Consumed' = Consumed + 1
    BY <1>1, <1>6, <2>1 DEF Consumed
  <2>5. LineInv'
    BY <1>1, <1>6, <2>1, <2>4, StillInStep
  <2> QED
    BY <2>3, <2>5
<1> QED
  BY <1>7, <1>8

(* A byte of the address.  The read and write commands do not change it.    *)
LEMMA AddrStep ==
  ASSUME WidthInv, ServingInv, LineInv, NEW c, AddrByte(c)
  PROVE  ServingInv' /\ LineInv'
<1>1. /\ pc = "addr" /\ Getchar(c) /\ Consumed = 1 + i /\ Serving
      /\ addr' = addr + c * Base ^ i
      /\ UNCHANGED <<command, len, off, outgoing, outstanding, enter>>
  BY ConsumedIs DEF AddrByte, clientVars, Serving
<1>2. outstanding # <<>> /\ First \in Requests /\ c = Encode(First)[Consumed + 1]
  BY <1>1, Received
<1>3. /\ i \in 0 .. AddrBytes - 1 /\ AddrBytes \in Nat \ {0} /\ len = 0 /\ off = 0
      /\ command \in Commands
  BY <1>1, Powers DEF WidthInv, TypeOK
<1>4. addr = First.addr % Base ^ i /\ First.kind # "exit" /\ command = TagOf(First)
  BY <1>1, <1>2, EncodeIs DEF ServingInv
<1>5. c = Digits(First.addr)[i + 1]
  <2>1. \A n \in 1 .. AddrBytes : Encode(First)[1 + n] = Digits(First.addr)[n]
    BY <1>2, <1>4, EncodeIs
  <2>2. i + 1 \in 1 .. AddrBytes /\ 1 + i + 1 = 1 + (i + 1)
    BY <1>3
  <2>3. c = Encode(First)[1 + (i + 1)]
    BY <1>1, <1>2, <2>2
  <2> QED
    BY <2>1, <2>2, <2>3
<1>6. /\ First.addr \in 0 .. Top - 1 /\ First.len \in 0 .. Top - 1
      /\ First.kind \in {"read", "write", "exit"} /\ First.short \in BOOLEAN
      /\ First.short => First.len = WordBytes
  BY <1>2, RequestType
<1>7. /\ addr' = First.addr % Base ^ (i + 1)
      /\ i + 1 = AddrBytes => First.addr % Base ^ (i + 1) = First.addr
      /\ First.len % Base ^ 0 = 0
  <2>1. addr' = (First.addr % Base ^ i) + Digits(First.addr)[i + 1] * Base ^ i
    BY <1>1, <1>4, <1>5
  <2>2. /\ (First.addr % Base ^ i) + Digits(First.addr)[i + 1] * Base ^ i
             = First.addr % Base ^ (i + 1)
        /\ i + 1 = AddrBytes => First.addr % Base ^ (i + 1) = First.addr
        /\ First.len % Base ^ 0 = 0
    BY <1>3, <1>6, ReadDigit
  <2> QED
    BY <2>1, <2>2
<1>8. First' = First
  BY <1>1 DEF First
<1>9. CASE i + 1 < AddrBytes
  <2>1. pc' = "addr" /\ i' = i + 1
    BY <1>1, <1>9 DEF AddrByte
  <2>2. ServingInv'
    BY <1>1, <1>2, <1>4, <1>7, <1>8, <2>1 DEF ServingInv, Serving
  <2>3. Consumed' = Consumed + 1
    BY <1>1, <1>3, <2>1 DEF Consumed
  <2>4. LineInv'
    BY <1>1, <2>1, <2>3, StillInStep
  <2> QED
    BY <2>2, <2>4
<1>10. CASE ~ (i + 1 < AddrBytes)
  <2>1. /\ i' = 0 /\ i + 1 = AddrBytes
        /\ pc' = CASE command = READ -> "read" [] command = WRITE -> "write" [] OTHER -> "len"
    BY <1>3, <1>10 DEF AddrByte
  <2>2. addr' = First.addr
    BY <1>7, <2>1
  <2>3. /\ command = READ <=> First.kind = "read" /\ First.short
        /\ command = WRITE <=> First.kind = "write" /\ First.short
        /\ READ # WRITE
    BY <1>2, <1>4, TagIs, CommandAssumption
  <2>4. \/ pc' = "read" /\ First.kind = "read" /\ First.short
        \/ pc' = "write" /\ First.kind = "write" /\ First.short
        \/ pc' = "len" /\ ~First.short
    BY <1>4, <1>6, <2>1, <2>3
  <2>5. pc' \in {"read", "write"} => Limit' = First.len /\ command \in {READ, WRITE}
    BY <1>1, <1>6, <2>1, <2>3, <2>4 DEF Limit
  <2>6. ServingInv'
    BY <1>1, <1>2, <1>3, <1>4, <1>7, <1>8, <2>1, <2>2, <2>4, <2>5 DEF ServingInv, Serving
  <2>7. Consumed' = Consumed + 1
    BY <1>1, <1>3, <2>1, <2>4, <2>5 DEF Consumed
  <2>8. LineInv'
    BY <1>1, <2>4, <2>7, StillInStep
  <2> QED
    BY <2>6, <2>8
<1> QED
  BY <1>9, <1>10

(* A byte of the length. *)
LEMMA LenStep ==
  ASSUME WidthInv, ServingInv, LineInv, NEW c, LenByte(c)
  PROVE  ServingInv' /\ LineInv'
<1>1. /\ pc = "len" /\ Getchar(c) /\ Consumed = 1 + AddrBytes + i /\ Serving
      /\ len' = len + c * Base ^ i
      /\ UNCHANGED <<command, addr, off, outgoing, outstanding, enter>>
  BY ConsumedIs DEF LenByte, clientVars, Serving
<1>2. outstanding # <<>> /\ First \in Requests /\ c = Encode(First)[Consumed + 1]
  BY <1>1, Received
<1>3. i \in 0 .. AddrBytes - 1 /\ AddrBytes \in Nat \ {0} /\ off = 0
  BY <1>1, Powers DEF WidthInv, TypeOK
<1>4. /\ addr = First.addr /\ len = First.len % Base ^ i /\ ~First.short
      /\ First.kind # "exit" /\ command = TagOf(First)
  BY <1>1, <1>2, EncodeIs DEF ServingInv
<1>5. c = Digits(First.len)[i + 1]
  <2>1. \A n \in 1 .. AddrBytes : Encode(First)[1 + AddrBytes + n] = Digits(First.len)[n]
    BY <1>2, <1>4, EncodeIs
  <2>2. i + 1 \in 1 .. AddrBytes /\ 1 + AddrBytes + i + 1 = 1 + AddrBytes + (i + 1)
    BY <1>3
  <2>3. c = Encode(First)[1 + AddrBytes + (i + 1)]
    BY <1>1, <1>2, <2>2
  <2> QED
    BY <2>1, <2>2, <2>3
<1>6. /\ First.len \in 0 .. Top - 1 /\ First.kind \in {"read", "write", "exit"}
      /\ First.short \in BOOLEAN
  BY <1>2, RequestType
<1>7. /\ len' = First.len % Base ^ (i + 1)
      /\ i + 1 = AddrBytes => First.len % Base ^ (i + 1) = First.len
  <2>1. len' = (First.len % Base ^ i) + Digits(First.len)[i + 1] * Base ^ i
    BY <1>1, <1>4, <1>5
  <2>2. /\ (First.len % Base ^ i) + Digits(First.len)[i + 1] * Base ^ i
             = First.len % Base ^ (i + 1)
        /\ i + 1 = AddrBytes => First.len % Base ^ (i + 1) = First.len
    BY <1>3, <1>6, ReadDigit
  <2> QED
    BY <2>1, <2>2
<1>8. First' = First
  BY <1>1 DEF First
<1>9. CASE i + 1 < AddrBytes
  <2>1. pc' = "len" /\ i' = i + 1
    BY <1>1, <1>9 DEF LenByte
  <2>2. ServingInv'
    BY <1>1, <1>2, <1>4, <1>7, <1>8, <2>1 DEF ServingInv, Serving
  <2>3. Consumed' = Consumed + 1
    BY <1>1, <1>3, <2>1 DEF Consumed
  <2>4. LineInv'
    BY <1>1, <2>1, <2>3, StillInStep
  <2> QED
    BY <2>2, <2>4
<1>10. CASE ~ (i + 1 < AddrBytes)
  <2>1. /\ i' = 0 /\ i + 1 = AddrBytes
        /\ pc' = IF command = MEM_READ THEN "read" ELSE "write"
    BY <1>3, <1>10 DEF LenByte
  <2>2. len' = First.len
    BY <1>7, <2>1
  <2>3. /\ command = MEM_READ <=> First.kind = "read"
        /\ command \notin {READ, WRITE}
    BY <1>2, <1>4, <1>6, TagIs
  <2>4. \/ pc' = "read" /\ First.kind = "read"
        \/ pc' = "write" /\ First.kind = "write"
    BY <1>4, <1>6, <2>1, <2>3
  <2>5. Limit' = First.len
    BY <1>1, <2>2, <2>3 DEF Limit
  <2>6. ServingInv'
    BY <1>1, <1>2, <1>4, <1>8, <2>4, <2>5 DEF ServingInv, Serving
  <2>7. Consumed' = Consumed + 1
    BY <1>1, <1>3, <2>1, <2>3, <2>4 DEF Consumed
  <2>8. LineInv'
    BY <1>1, <2>4, <2>7, StillInStep
  <2> QED
    BY <2>6, <2>8
<1> QED
  BY <1>9, <1>10

(* The bytes of memory. *)
LEMMA MoveStep ==
  ASSUME WidthInv, ServingInv, LineInv, ReadByte \/ PutByte
  PROVE  ServingInv' /\ LineInv'
<1>1. /\ UNCHANGED <<rx, command, addr, len, i, outgoing, outstanding, enter>>
      /\ pc \in {"read", "put"} /\ pc' \in {"read", "put"}
  BY DEF ReadByte, PutByte, lineVars, clientVars
<1>2. First' = First /\ Limit' = Limit /\ Consumed' = Consumed
  BY <1>1 DEF First, Limit, Consumed
<1>3. ServingInv'
  BY <1>1, <1>2 DEF ServingInv, Serving
<1>4. LineInv'
  BY <1>1, <1>2 DEF LineInv
<1> QED
  BY <1>3, <1>4

(* The byte that is written is the one the program meant for its cell, so   *)
(* that it is none that ends the handler.                                   *)
LEMMA WrittenIs ==
  ASSUME WidthInv, ServingInv, LineInv, NEW c, WriteByte(c)
  PROVE  c = First.data[off + 1] /\ pc' = "write"
<1>1. /\ pc = "write" /\ off < Limit /\ Getchar(c)
      /\ pc' = IF <<Target, c>> \in Fatal THEN "lost" ELSE "write"
  BY DEF WriteByte
<1>2. /\ outstanding # <<>> /\ addr = First.addr /\ Limit = First.len
      /\ First.kind = "write" /\ First \in Requests
  BY <1>1, FirstIs DEF ServingInv, Serving, WidthInv
<1>3. Header(First) \in Nat /\ First.len \in Nat
  BY <1>2, RequestType
<1>4. off \in Nat /\ off + 1 \in 1 .. First.len
  BY <1>1, <1>2, <1>3, Powers, WidthAssumption DEF WidthInv, TypeOK
<1>5. c = First.data[off + 1]
  <2>1. c = Encode(First)[Consumed + 1] /\ Consumed = Header(First) + off
    BY <1>1, Received, ConsumedIs
  <2>2. \A n \in 1 .. First.len : Encode(First)[Header(First) + n] = First.data[n]
    BY <1>2, EncodeIs
  <2>3. Header(First) + off + 1 = Header(First) + (off + 1)
    <3> DEFINE h == Header(First)
    <3>1. h \in Nat
      BY <1>3
    <3> HIDE DEF h
    <3>2. h + off + 1 = h + (off + 1)
      BY <1>4, <3>1
    <3> QED
      BY <3>2 DEF h
  <2> QED
    BY <1>4, <2>1, <2>2, <2>3
<1>6. <<Target, c>> \notin Fatal
  <2> DEFINE k == off + 1
  <2>1. <<Cell[(First.addr + (k - 1)) % Top], First.data[k]>> \notin Fatal
    BY <1>2, <1>4, RequestAssumption
  <2>2. k - 1 = off
    BY <1>4
  <2> HIDE DEF k
  <2>3. Target = Cell[(First.addr + (k - 1)) % Top]
    BY <1>2, <2>2 DEF Target
  <2>4. c = First.data[k]
    BY <1>5 DEF k
  <2> QED
    BY <2>1, <2>3, <2>4
<1> QED
  BY <1>1, <1>5, <1>6

LEMMA WriteStep ==
  ASSUME WidthInv, ServingInv, LineInv, NEW c, WriteByte(c)
  PROVE  ServingInv' /\ LineInv'
<1>1. /\ pc = "write" /\ off < Limit /\ Getchar(c) /\ off' = off + 1
      /\ UNCHANGED <<command, addr, len, i, outgoing, outstanding, enter>>
      /\ pc' = pc
  BY WrittenIs DEF WriteByte, clientVars
<1>2. First' = First /\ Limit' = Limit
  BY <1>1 DEF First, Limit
<1>3. ServingInv'
  BY <1>1, <1>2 DEF ServingInv, Serving
<1>4. Consumed' = Consumed + 1
  <2>1. off \in Nat
    BY Powers, WidthAssumption DEF WidthInv, TypeOK, Limit
  <2> QED
    BY <1>1, <2>1, Powers DEF Consumed
<1>5. LineInv'
  BY <1>1, <1>4, StillInStep
<1> QED
  BY <1>3, <1>5

(* At the end of a request nothing of it is left on the line.               *)
LEMMA DoneStep ==
  ASSUME WidthInv, ServingInv, LineInv, RequestDone
  PROVE  ServingInv' /\ LineInv'
<1>1. /\ pc \in {"read", "write"} /\ off = Limit /\ pc' = "command"
      /\ outstanding # <<>> /\ outstanding' = Tail(outstanding)
      /\ UNCHANGED <<rx, outgoing, enter>>
  BY DEF RequestDone, lineVars, ServingInv, Serving
<1>2. /\ First \in Requests /\ Tail(outstanding) \in Seq(Requests)
      /\ Len(Tail(outstanding)) = Len(outstanding) - 1 /\ Len(outstanding) \in Nat \ {0}
      /\ \A n \in 1 .. Len(outstanding) - 1 : Tail(outstanding)[n] = outstanding[n + 1]
  BY <1>1, FirstIs DEF WidthInv
<1> DEFINE e == Encode(First)
           w == Wire(Tail(outstanding))
<1>3. e \in Seq(Byte) /\ w \in Seq(Byte)
  BY <1>2, EncodeIs, WireIs
<1>4. Consumed = Len(e)
  <2>1. Header(First) \in Nat /\ First.len \in Nat
    BY <1>2, RequestType
  <2>2. Len(e) = Header(First) + (IF First.kind = "write" THEN First.len ELSE 0)
    BY <1>2, EncodeIs
  <2>3. CASE pc = "read"
    BY <2>1, <2>2, <2>3, ConsumedIs DEF ServingInv
  <2>4. CASE pc = "write"
    BY <1>1, <2>1, <2>2, <2>4, ConsumedIs DEF ServingInv
  <2> QED
    BY <1>1, <2>3, <2>4
<1>5. rx' \o outgoing' = w
  <2>1. rx \o outgoing = SubSeq(e, Consumed + 1, Len(e)) \o w
    BY <1>1 DEF LineInv
  <2>2. SubSeq(e, Len(e) + 1, Len(e)) = <<>> /\ <<>> \o w = w
    BY <1>3, RestOf, ConcatEmptySeq
  <2> HIDE DEF e, w
  <2> QED
    BY <1>1, <1>4, <2>1, <2>2
<1>6. Consumed' = 0
  BY <1>1 DEF Consumed
<1>7. rx' \o outgoing' =
        IF outstanding' = <<>> THEN <<>>
        ELSE SubSeq(Encode(First'), Consumed' + 1, Len(Encode(First'))) \o Wire(Tail(outstanding'))
  <2> DEFINE q == Tail(outstanding)
  <2>1. q \in Seq(Requests) /\ outstanding' = q /\ First' = Head(q)
    BY <1>1, <1>2 DEF First
  <2>2. rx' \o outgoing' = Wire(q)
    BY <1>5
  <2> HIDE DEF q
  <2>3. CASE q = <<>>
    BY <2>1, <2>2, <2>3, WireIs
  <2>4. CASE q # <<>>
    <3>1. Wire(q) = Encode(Head(q)) \o Wire(Tail(q)) /\ Head(q) \in Requests
      BY <2>1, <2>4, WireIs, HeadTailProperties
    <3>2. SubSeq(Encode(Head(q)), 1, Len(Encode(Head(q)))) = Encode(Head(q))
      BY <3>1, EncodeIs, RestOf
    <3>3. Consumed' + 1 = 1
      BY <1>6
    <3> QED
      BY <2>1, <2>2, <2>4, <3>1, <3>2, <3>3
  <2> QED
    BY <2>3, <2>4
<1>8. \A n \in 1 .. Len(outstanding') - 1 : outstanding'[n].kind # "exit"
  <2> TAKE n \in 1 .. Len(outstanding') - 1
  <2> DEFINE m == n + 1
  <2>1. n \in 1 .. Len(outstanding) - 1 /\ m \in 1 .. Len(outstanding) - 1
    BY <1>1, <1>2
  <2>2. outstanding'[n] = outstanding[m]
    BY <1>1, <1>2, <2>1
  <2> HIDE DEF m
  <2> QED
    BY <2>1, <2>2 DEF LineInv
<1>9. LineInv'
  BY <1>1, <1>7, <1>8 DEF LineInv
<1> QED
  BY <1>1, <1>9 DEF ServingInv, Serving

(* Everything the handler knows of a request is what the program meant, and *)
(* nothing on the line is lost or left over, for a program that is alone on *)
(* the line.                                                                *)
THEOREM BmoInvariance == Spec => []BmoInv
<1>1. Init => BmoInv
  <2> SUFFICES ASSUME Init PROVE BmoInv
    OBVIOUS
  <2>1. WidthInv
    BY InitWidth
  <2>2. /\ pc = "command" /\ rx = <<>> /\ outgoing = <<>> /\ outstanding = <<>>
        /\ ~enter
    BY DEF Init
  <2>3. Len(<<>>) = 0 /\ <<>> \o <<>> = <<>>
    OBVIOUS
  <2>4. ServingInv /\ LineInv
    BY <2>2, <2>3 DEF ServingInv, LineInv, Serving
  <2> QED
    BY <2>1, <2>4 DEF BmoInv
<1>2. BmoInv /\ WidthInv' /\ [Next]_vars => BmoInv'
  <2> SUFFICES ASSUME BmoInv, WidthInv', [Next]_vars
               PROVE  BmoInv'
    OBVIOUS
  <2> SUFFICES ASSUME Stray = {} PROVE ServingInv' /\ LineInv'
    BY DEF BmoInv
  <2>1. WidthInv /\ ServingInv /\ LineInv
    BY DEF BmoInv
  <2>2. CASE UNCHANGED vars
    BY <2>1, <2>2 DEF vars, lineVars, localVars, clientVars, ServingInv, LineInv, Serving,
                      First, Limit, Consumed
  <2>3. CASE Next
    <3>1. CASE \E r \in Requests : MakeRequest(r)
      BY <2>1, <3>1, RequestStep
    <3>2. CASE \/ SendByte \/ (\E c \in Stray : UserTypes(c)) \/ OnlyEnter \/ PressEnter
               \/ Transmit \/ Hardware
      BY <2>1, <3>2, LineStep
    <3>3. CASE \E c \in Byte : Command(c) \/ Ignored(c)
      BY <2>1, <3>3, CommandStep
    <3>4. CASE \E c \in Byte : AddrByte(c)
      BY <2>1, <3>4, AddrStep
    <3>5. CASE \E c \in Byte : LenByte(c)
      BY <2>1, <3>5, LenStep
    <3>6. CASE \E c \in Byte : WriteByte(c)
      BY <2>1, <3>6, WriteStep
    <3>7. CASE ReadByte \/ PutByte
      BY <2>1, <3>7, MoveStep
    <3>8. CASE RequestDone
      BY <2>1, <3>8, DoneStep
    <3> QED
      BY <2>3, <3>1, <3>2, <3>3, <3>4, <3>5, <3>6, <3>7, <3>8 DEF Next, Monitor
  <2> QED
    BY <2>2, <2>3
<1> QED
  BY <1>1, <1>2, WidthInvariance, PTL DEF Spec

LEMMA RestOfTwo ==
  ASSUME NEW S, NEW e \in Seq(S), NEW w \in Seq(S), NEW k \in 0 .. Len(e)
  PROVE  SubSeq(e \o w, k + 1, Len(e \o w)) = SubSeq(e, k + 1, Len(e)) \o w
<1> DEFINE s == e \o w
           m == k + 1
           a == SubSeq(e, m, Len(e))
           b == SubSeq(s, m, Len(s))
           t == a \o w
           le == Len(e)
           lw == Len(w)
<1>1. le \in Nat /\ lw \in Nat /\ m \in 1 .. le + 1 /\ m \in Nat \ {0}
  OBVIOUS
<1>2. /\ s \in Seq(S) /\ Len(s) = le + lw
      /\ \A n \in 1 .. le + lw : s[n] = IF n <= le THEN e[n] ELSE w[n - le]
  BY ConcatProperties
<1>3. (\A n \in 1 .. le : e[n] \in S) /\ (\A n \in 1 .. le + lw : s[n] \in S)
  <2>1. \A x \in Seq(S) : \A n \in 1 .. Len(x) : x[n] \in S
    OBVIOUS
  <2> HIDE DEF s
  <2>2. \A n \in 1 .. Len(s) : s[n] \in S
    BY <1>2, <2>1
  <2> QED
    BY <1>2, <2>1, <2>2
<1> HIDE DEF s, m, le, lw
<1>4. /\ a \in Seq(S) /\ Len(a) = le - m + 1
      /\ \A n \in 1 .. le - m + 1 : a[n] = e[m + n - 1]
  <2>1. \A n \in m .. Len(e) : e[n] \in S
    BY <1>1, <1>3 DEF le
  <2>2. /\ a \in Seq(S) /\ Len(a) = IF m <= Len(e) THEN Len(e) - m + 1 ELSE 0
        /\ \A n \in 1 .. Len(e) - m + 1 : a[n] = e[m + n - 1]
    BY <1>1, <2>1, SubSeqProperties DEF le
  <2> HIDE DEF a
  <2> QED
    BY <1>1, <2>2 DEF le
<1>5. /\ b \in Seq(S) /\ Len(b) = le + lw - m + 1
      /\ \A n \in 1 .. le + lw - m + 1 : b[n] = s[m + n - 1]
  <2>1. \A n \in m .. Len(s) : s[n] \in S
    BY <1>1, <1>2, <1>3
  <2>2. Len(s) \in Nat
    BY <1>1, <1>2
  <2>3. /\ b \in Seq(S) /\ Len(b) = IF m <= Len(s) THEN Len(s) - m + 1 ELSE 0
        /\ \A n \in 1 .. Len(s) - m + 1 : b[n] = s[m + n - 1]
    BY <1>1, <2>1, <2>2, SubSeqProperties
  <2> HIDE DEF b
  <2> QED
    BY <1>1, <1>2, <2>3
<1> HIDE DEF a, b
<1>6. /\ t \in Seq(S) /\ Len(t) = le + lw - m + 1
      /\ \A n \in 1 .. le + lw - m + 1 :
           t[n] = IF n <= le - m + 1 THEN a[n] ELSE w[n - (le - m + 1)]
  <2>1. /\ t \in Seq(S) /\ Len(t) = Len(a) + lw
        /\ \A n \in 1 .. Len(a) + lw : t[n] = IF n <= Len(a) THEN a[n] ELSE w[n - Len(a)]
    BY <1>4, ConcatProperties DEF lw
  <2>2. Len(a) + lw = le + lw - m + 1
    BY <1>1, <1>4
  <2> HIDE DEF t
  <2> QED
    BY <1>4, <2>1, <2>2
<1> HIDE DEF t
<1>7. \A n \in 1 .. le + lw - m + 1 : b[n] = t[n]
  <2> TAKE n \in 1 .. le + lw - m + 1
  <2> DEFINE x == m + n - 1
  <2>1. /\ x \in 1 .. le + lw /\ x - le = n - (le - m + 1)
        /\ x <= le <=> n <= le - m + 1
    BY <1>1
  <2>2. b[n] = s[x]
    BY <1>5
  <2>3. n <= le - m + 1 => a[n] = e[x]
    BY <1>1, <1>4
  <2> HIDE DEF x
  <2>4. s[x] = IF x <= le THEN e[x] ELSE w[x - le]
    BY <1>2, <2>1
  <2>5. t[n] = IF n <= le - m + 1 THEN a[n] ELSE w[n - (le - m + 1)]
    BY <1>6
  <2> QED
    BY <2>1, <2>2, <2>3, <2>4, <2>5
<1>8. b = t
  BY <1>5, <1>6, <1>7, SeqEqual
<1> QED
  BY <1>8 DEF b, t, a, s, m

(* The bytes still to be read are the rest of the requests still to be     *)
(* served: a program that is alone on the line and the handler agree on    *)
(* where every request begins and ends, however many are under way.        *)
THEOREM BmoInStep == Spec => []InStep
<1>1. BmoInv => InStep
  <2> SUFFICES ASSUME BmoInv, Stray = {}
               PROVE  rx \o outgoing
                        = SubSeq(Wire(outstanding), Consumed + 1, Len(Wire(outstanding)))
    BY DEF InStep
  <2>1. WidthInv /\ ServingInv /\ LineInv /\ outstanding \in Seq(Requests)
    BY DEF BmoInv, WidthInv, TypeOK
  <2>2. CASE outstanding = <<>>
    <3>1. rx \o outgoing = <<>> /\ Wire(outstanding) = <<>>
      BY <2>1, <2>2, WireIs DEF LineInv
    <3>2. Consumed = 0
      BY <2>1, <2>2, ConsumedIs DEF ServingInv, Serving, WidthInv, TypeOK
    <3>3. SubSeq(<<>>, 0 + 1, Len(<<>>)) = <<>>
      OBVIOUS
    <3> QED
      BY <3>1, <3>2, <3>3
  <2>3. CASE outstanding # <<>>
    <3> DEFINE e == Encode(First)
               w == Wire(Tail(outstanding))
               k == Consumed
    <3>1. Wire(outstanding) = e \o w
      BY <2>1, <2>3, WireIs DEF First
    <3>2. e \in Seq(Byte) /\ w \in Seq(Byte)
      BY <2>1, <2>3, FirstIs, EncodeIs, WireIs DEF WidthInv
    <3>3. k \in 0 .. Len(e)
      BY <2>1, <2>3, ConsumedWithin
    <3>4. rx \o outgoing = SubSeq(e, k + 1, Len(e)) \o w
      BY <2>1, <2>3 DEF LineInv
    <3> HIDE DEF e, w, k
    <3>5. SubSeq(e \o w, k + 1, Len(e \o w)) = SubSeq(e, k + 1, Len(e)) \o w
      BY <3>2, <3>3, RestOfTwo
    <3> QED
      BY <3>1, <3>4, <3>5 DEF k
  <2> QED
    BY <2>2, <2>3
<1> QED
  BY <1>1, BmoInvariance, PTL

-----------------------------------------------------------------------------
(* Binary mode implements the memory of MemServer. *)
LEMMA ServerInit == Init => Server!Init
  BY DEF Init, Server!Init

(* The line, the program and the UART. *)
LEMMA LineRefines ==
  ASSUME Stray = {}, BmoInv,
         \/ (\E r \in Requests : MakeRequest(r))
         \/ SendByte \/ (\E c \in Stray : UserTypes(c)) \/ OnlyEnter \/ PressEnter
         \/ Transmit \/ Hardware
  PROVE  [Server!Next]_(Server!vars)
<1> USE DEF Server!vars
<1>1. tx \in Seq(Byte) /\ value \in Byte /\ ~enter
  BY DEF BmoInv, WidthInv, TypeOK, LineInv
<1>2. ASSUME NEW r \in Requests, MakeRequest(r) PROVE Server!Request(r)
  BY <1>2 DEF MakeRequest, Server!Request, lineVars, localVars
<1>3. CASE SendByte
  BY <1>3 DEF SendByte, localVars
<1>4. CASE Transmit
  <2>1. tx # <<>> /\ tx' = Tail(tx) /\ UNCHANGED <<pc, off, value, mem, outstanding>>
    BY <1>4 DEF Transmit, localVars, clientVars
  <2>2. Append(tx, value) # <<>> /\ Tail(Append(tx, value)) = Append(Tail(tx), value)
    <3>1. \A s \in Seq(Byte), x \in Byte :
            s # <<>> => Append(s, x) # <<>> /\ Tail(Append(s, x)) = Append(Tail(s), x)
      OBVIOUS
    <3> QED
      BY <1>1, <2>1, <3>1
  <2>3. Server!Deliver
    BY <2>1, <2>2 DEF Server!Deliver
  <2> QED
    BY <2>3 DEF Server!Next
<1>5. CASE Hardware
  <2>1. Server!Hardware
    BY <1>5 DEF Hardware, Server!Hardware, lineVars, localVars, clientVars
  <2> QED
    BY <2>1 DEF Server!Next
<1> QED
  BY <1>1, <1>2, <1>3, <1>4, <1>5 DEF Server!Next, OnlyEnter, PressEnter

(* The handler reads numbers invisibly, and leaves when it is asked to.     *)
LEMMA NumbersRefine ==
  ASSUME Stray = {}, BmoInv,
         NEW c, Command(c) \/ Ignored(c) \/ AddrByte(c) \/ LenByte(c)
  PROVE  [Server!Next]_(Server!vars)
<1> USE DEF Server!vars
<1>1. WidthInv /\ ServingInv /\ LineInv
  BY DEF BmoInv
<1>2. CASE Ignored(c)
  BY <1>2 DEF Ignored, localVars, clientVars, Getchar
<1>3. CASE AddrByte(c) \/ LenByte(c)
  <2>1. /\ pc \in {"addr", "len"} /\ pc' \in {"addr", "len", "read", "write"} /\ off = 0
        /\ UNCHANGED <<off, tx, value, mem, outstanding>>
    BY <1>1, <1>3 DEF AddrByte, LenByte, Getchar, clientVars, WidthInv
  <2> QED
    BY <2>1
<1>4. CASE Command(c)
  <2>1. /\ pc = "command" /\ Getchar(c) /\ UNCHANGED <<tx, value, mem>> /\ Consumed = 0
    BY <1>1, <1>4, ConsumedIs DEF Command, Getchar
  <2>2. outstanding # <<>> /\ First \in Requests /\ c = TagOf(First)
    <3>1. /\ outstanding # <<>> /\ First \in Requests
          /\ c = Encode(First)[Consumed + 1]
      BY <1>1, <2>1, Received
    <3>2. 0 + 1 = 1
      OBVIOUS
    <3> QED
      BY <2>1, <3>1, <3>2, EncodeIs
  <2>3. CASE c = EXIT
    <3>1. First.kind = "exit" /\ First.len = 0
      BY <2>2, <2>3, TagIs, RequestType
    <3>2. pc' = "exited" /\ outstanding' = Tail(outstanding)
      BY <1>4, <2>2, <2>3 DEF Command
    <3>3. Server!Complete
      BY <2>1, <2>2, <3>1, <3>2 DEF Server!Complete, First
    <3> QED
      BY <3>3 DEF Server!Next
  <2>4. CASE c # EXIT
    <3>1. pc' = "addr" /\ outstanding' = outstanding
      BY <1>4, <2>4 DEF Command
    <3> QED
      BY <2>1, <3>1
  <2> QED
    BY <2>3, <2>4
<1> QED
  BY <1>2, <1>3, <1>4

(* A byte of memory is read or written, or the request is complete.         *)
LEMMA BytesRefine ==
  ASSUME Stray = {}, BmoInv,
         ReadByte \/ PutByte \/ (\E c \in Byte : WriteByte(c)) \/ RequestDone
  PROVE  [Server!Next]_(Server!vars)
<1> USE DEF Server!vars
<1>1. WidthInv /\ ServingInv /\ LineInv
  BY DEF BmoInv
<1>2. /\ outstanding # <<>> /\ addr = First.addr /\ Limit = First.len
      /\ pc \in {"read", "put"} => First.kind = "read"
      /\ pc = "write" => First.kind = "write"
      /\ pc \in {"read", "put", "write"} /\ First \in Requests
  BY <1>1, FirstIs
  DEF ReadByte, PutByte, WriteByte, RequestDone, ServingInv, Serving, WidthInv
<1>3. CASE ReadByte
  <2>1. Server!ReadByte
    BY <1>2, <1>3 DEF ReadByte, Server!ReadByte, Server!Busy, First, Target, lineVars, clientVars
  <2> QED
    BY <2>1 DEF Server!Next
<1>4. CASE PutByte
  BY <1>4 DEF PutByte, clientVars
<1>5. CASE \E c \in Byte : WriteByte(c)
  <2>1. PICK c \in Byte : WriteByte(c)
    BY <1>5
  <2>2. /\ pc = "write" /\ off < Limit /\ Getchar(c)
        /\ mem' = IF Target \in ReadOnly THEN mem ELSE [mem EXCEPT ![Target] = c]
        /\ off' = off + 1
        /\ UNCHANGED <<pc, tx, value, outstanding>>
    BY <1>1, <2>1, WrittenIs DEF WriteByte, Getchar, clientVars
  <2>3. c = First.data[off + 1]
    BY <1>1, <2>1, WrittenIs
  <2>4. mem' = [x \in Cells |-> IF x = Target /\ x \notin ReadOnly
                                  THEN First.data[off + 1] ELSE mem[x]]
    <3>1. mem \in [Cells -> Byte] /\ Target \in Cells
      BY <1>1, TargetType DEF WidthInv, TypeOK
    <3> HIDE DEF Target
    <3> QED
      BY <2>2, <2>3, <3>1
  <2>5. Server!WriteByte
    BY <1>2, <2>2, <2>4 DEF Server!WriteByte, Server!Busy, First, Target
  <2> QED
    BY <2>5 DEF Server!Next
<1>6. CASE RequestDone
  <2>1. Server!Complete
    BY <1>2, <1>6 DEF RequestDone, Server!Complete, First, lineVars
  <2> QED
    BY <2>1 DEF Server!Next
<1> QED
  BY <1>3, <1>4, <1>5, <1>6

(* To a program that is alone on the line, binary mode is a memory that     *)
(* serves its requests in order, byte by byte, and gives back the bytes it  *)
(* read in that order.                                                      *)
THEOREM BmoRefinement ==
  ASSUME Stray = {}
  PROVE  Spec => ImplementsMemServer
<1>1. BmoInv /\ [Next]_vars => [Server!Next]_(Server!vars)
  <2> SUFFICES ASSUME BmoInv, [Next]_vars
               PROVE  [Server!Next]_(Server!vars)
    OBVIOUS
  <2>1. CASE UNCHANGED vars
    BY <2>1 DEF vars, lineVars, localVars, clientVars, Server!vars
  <2>2. CASE Next
    BY <2>2, LineRefines, NumbersRefine, BytesRefine DEF Next, Monitor
  <2> QED
    BY <2>1, <2>2
<1> QED
  BY <1>1, ServerInit, BmoInvariance, PTL DEF Spec, ImplementsMemServer, Server!Spec

=============================================================================
