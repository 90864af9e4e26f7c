--------------------------- MODULE MonitorMemProofs ---------------------------
(***************************************************************************)
(* Proofs about MonitorMem, for every base and width of numbers, every     *)
(* size of banks and pages, every set of commands and all contents of      *)
(* memory.                                                                 *)
(***************************************************************************)
EXTENDS MonitorMem, Lemmas

BasePower == [n \in 0 .. MaxDigits |-> Base ^ n]
BytePower == [n \in 0 .. MaxDigits |-> ByteTop ^ n]
Space == Banks * BankSize
Memory == [Location -> Byte]

-----------------------------------------------------------------------------
(* The constants. *)
LEMMA Scale ==
  /\ Base \in Nat \ {0} /\ ByteTop \in Nat \ {0}
  /\ ByteDigits \in Nat \ {0} /\ MaxDigits \in Nat /\ MaxDigits >= 4
  /\ BankSize \in Nat \ {0} /\ PageSize \in Nat \ {0} /\ SfrSpace \in Nat \ {0}
  /\ BankSize >= 4 /\ PageSize >= 4 /\ SfrSpace >= 4
  /\ Banks \in Nat \ {0} /\ Banks <= ByteTop - 1 /\ Space \in Nat \ {0}
  /\ AddrTop \in Nat \ {0} /\ AddrTop \div 8 = Space
<1>1. /\ Base \in Nat \ {0} /\ ByteDigits \in Nat \ {0} /\ MaxDigits = 4 * ByteDigits
      /\ AddrTop = 8 * Banks * BankSize /\ Banks \in Byte \ {0}
      /\ BankSize \in Nat \ (0 .. 3) /\ PageSize \in Nat \ (0 .. 3) /\ SfrSpace \in Nat \ (0 .. 3)
  BY ScaleAssumption
<1>2. ByteTop \in Nat \ {0}
  <2>1. ByteDigits \in 0 .. MaxDigits - 1
    BY <1>1
  <2> QED
    BY <2>1, PowerAssumption DEF ByteTop
<1>3. Banks \in Nat \ {0} /\ Banks <= ByteTop - 1
  BY <1>1, <1>2 DEF Byte
<1>4. Space \in Nat \ {0}
  BY <1>1, <1>3 DEF Space
<1>5. AddrTop = 8 * Space + 0
  BY <1>1, <1>3, <1>4 DEF Space
<1>6. (8 * Space + 0) \div 8 = Space
  BY <1>4, DivUnique
<1>7. AddrTop \in Nat \ {0}
  BY <1>4, <1>5
<1> QED
  BY <1>1, <1>2, <1>3, <1>4, <1>5, <1>6, <1>7

LEMMA Powers ==
  IsPowers(BasePower, Base, MaxDigits) /\ IsPowers(BytePower, ByteTop, MaxDigits)
<1> SUFFICES ASSUME NEW b \in {Base, ByteTop}
             PROVE  IsPowers([n \in 0 .. MaxDigits |-> b ^ n], b, MaxDigits)
  BY DEF BasePower, BytePower
<1>1. b \in Nat \ {0} /\ MaxDigits \in Nat /\ MaxDigits >= 4
  BY Scale
<1>2. b ^ 0 = 1 /\ \A n \in 0 .. MaxDigits - 1 : b ^ n \in Nat \ {0} /\ b ^ (n + 1) = b * b ^ n
  BY PowerAssumption
<1> DEFINE p == [n \in 0 .. MaxDigits |-> b ^ n]
<1>3. \A n \in 0 .. MaxDigits - 1 : p[n] = b ^ n /\ p[n + 1] = b ^ (n + 1)
  BY <1>1
<1>4. b ^ MaxDigits \in Nat \ {0}
  <2> DEFINE n == MaxDigits - 1
  <2>1. n \in 0 .. MaxDigits - 1 /\ n + 1 = MaxDigits
    BY <1>1
  <2> HIDE DEF n
  <2>2. b ^ (n + 1) = b * b ^ n /\ b ^ n \in Nat \ {0}
    BY <1>2, <2>1
  <2>3. b ^ (n + 1) \in Nat \ {0}
    BY <1>1, <2>2, ProductIsNat
  <2> QED
    BY <2>1, <2>3
<1>5. p \in [0 .. MaxDigits -> Nat \ {0}]
  <2>1. \A n \in 0 .. MaxDigits : n = MaxDigits \/ n \in 0 .. MaxDigits - 1
    BY <1>1
  <2> QED
    BY <1>2, <1>4, <2>1
<1>6. p[0] = 1
  BY <1>1, <1>2
<1> HIDE DEF p
<1>7. IsPowers(p, b, MaxDigits)
  BY <1>1, <1>2, <1>3, <1>5, <1>6 DEF IsPowers
<1> QED
  BY <1>7 DEF p

(* What the powers are, where they occur in MonitorMem.                    *)
LEMMA PowersAre ==
  /\ \A n \in 0 .. MaxDigits : Base ^ n = BasePower[n] /\ ByteTop ^ n = BytePower[n]
  /\ \A n \in 0 .. MaxDigits : BasePower[n] \in Nat \ {0} /\ BytePower[n] \in Nat \ {0}
  /\ \A n \in {1, 2, 4} : ByteTop ^ n = Base ^ (n * ByteDigits) /\ n * ByteDigits \in 1 .. MaxDigits
  /\ ByteTop ^ 4 = Base ^ MaxDigits
<1>1. \A n \in 0 .. MaxDigits : Base ^ n = BasePower[n] /\ ByteTop ^ n = BytePower[n]
  BY DEF BasePower, BytePower
<1>2. \A n \in 0 .. MaxDigits : BasePower[n] \in Nat \ {0} /\ BytePower[n] \in Nat \ {0}
  BY Powers DEF IsPowers
<1>3. ByteDigits \in Nat \ {0} /\ MaxDigits = 4 * ByteDigits
  BY ScaleAssumption
<1>4. \A n \in {1, 2, 4} : n * ByteDigits \in 1 .. MaxDigits
  BY <1>3
<1>5. \A n \in {1, 2, 4} : ByteTop ^ n = Base ^ (n * ByteDigits)
  BY PowerAssumption
<1>6. ByteTop ^ 4 = Base ^ MaxDigits
  BY <1>3, <1>5
<1> QED
  BY <1>1, <1>2, <1>4, <1>5, <1>6

-----------------------------------------------------------------------------
(* Locations. *)
LEMMA Locations ==
  /\ DpxAt \in Location /\ PconAt \in Location /\ DpxAt # PconAt
  /\ Nowhere \notin Location
  /\ DpxAt[1] = "SFR" /\ PconAt[1] = "SFR"
<1>1. /\ DPX \in SfrSpace \div 2 .. SfrSpace - 1 /\ PCON \in SfrSpace \div 2 .. SfrSpace - 1
      /\ DPX # PCON
  BY SfrAssumption
<1>2. DpxAt = <<"SFR", 0, DPX>> /\ PconAt = <<"SFR", 0, PCON>>
  BY DEF DpxAt, PconAt, SfrAt
<1>3. DpxAt \in Location /\ PconAt \in Location
  BY <1>1, <1>2 DEF Location
<1>4. Nowhere \notin Location
  BY DEF Nowhere, Location
<1> QED
  BY <1>1, <1>2, <1>3, <1>4

LEMMA RegionIs ==
  ASSUME NEW reg
  PROVE  Region(reg) \in {"XDATA", "IDATA", "PDATA", "CODE", "SFR"}
  BY DEF Region

LEMMA BankIs ==
  ASSUME NEW reg \in Nat
  PROVE  Bank(reg) \in 0 .. Banks - 1 /\ Bank(reg) \in Byte
<1>1. reg \div BankSize \in Nat
  BY Scale, DivSplit
<1>2. Bank(reg) \in 0 .. Banks - 1
  BY <1>1, Scale, DivSplit DEF Bank
<1> QED
  BY <1>2, Scale DEF Byte

LEMMA WithBankIs ==
  ASSUME NEW m \in Memory, NEW reg \in Nat
  PROVE  /\ WithBank(m, reg) \in Memory
         /\ WithBank(m, reg)[DpxAt] = Bank(reg)
         /\ \A l \in Location \ {DpxAt} : WithBank(m, reg)[l] = m[l]
         /\ MemselSet(WithBank(m, reg)) = MemselSet(m)
<1>1. Bank(reg) \in Byte
  BY BankIs
<1>2. /\ WithBank(m, reg) \in Memory
      /\ WithBank(m, reg)[DpxAt] = Bank(reg)
      /\ \A l \in Location \ {DpxAt} : WithBank(m, reg)[l] = m[l]
  BY <1>1, Locations DEF WithBank, Memory
<1> QED
  BY <1>2, Locations DEF MemselSet

LEMMA MemselIs ==
  ASSUME NEW m \in Memory
  PROVE  /\ m[PconAt] \in Byte
         /\ SetMemsel(m) \in Memory /\ MemselSet(SetMemsel(m))
         /\ \A l \in Location \ {PconAt} : SetMemsel(m)[l] = m[l]
         /\ SetMemsel(m)[PconAt] = IF MemselSet(m) THEN m[PconAt] ELSE m[PconAt] + Memsel
         /\ ClearMemsel(m) \in Memory
         /\ \A l \in Location \ {PconAt} : ClearMemsel(m)[l] = m[l]
         /\ ClearMemsel(m)[PconAt] = IF MemselSet(m) THEN m[PconAt] - Memsel ELSE m[PconAt]
<1> DEFINE x == m[PconAt]
<1>1. x \in Byte /\ PconAt \in Location
  BY Locations DEF Memory
<1>2. Byte = 0 .. ByteTop - 1 /\ ByteTop \in Nat \ {0} /\ Memsel \in Nat \ {0}
      /\ ByteTop % (2 * Memsel) = 0
  BY Scale, SfrAssumption DEF Byte
<1>3. MemselSet(m) <=> (x \div Memsel) % 2 = 1
  BY DEF MemselSet
<1>4. ~MemselSet(m) => x + Memsel \in Byte /\ ((x + Memsel) \div Memsel) % 2 = 1
  <2> SUFFICES ASSUME ~MemselSet(m)
               PROVE  x + Memsel \in Byte /\ ((x + Memsel) \div Memsel) % 2 = 1
    OBVIOUS
  <2>1. x \div Memsel \in Nat
    BY <1>1, <1>2, DivSplit
  <2>2. (x \div Memsel) % 2 = 0
    BY <1>3, <2>1
  <2> HIDE DEF x
  <2> QED
    BY <1>1, <1>2, <2>2, SetBit
<1>5. MemselSet(m) => x - Memsel \in Byte
  <2> SUFFICES ASSUME MemselSet(m) PROVE x - Memsel \in Byte
    OBVIOUS
  <2>1. x \in Nat /\ (x \div Memsel) % 2 = 1
    BY <1>1, <1>2, <1>3
  <2> HIDE DEF x
  <2>2. x - Memsel \in Nat
    BY <1>2, <2>1, ClearBit
  <2> QED
    BY <1>1, <1>2, <2>2
<1>6. /\ SetMemsel(m) \in Memory /\ MemselSet(SetMemsel(m))
      /\ \A l \in Location \ {PconAt} : SetMemsel(m)[l] = m[l]
      /\ SetMemsel(m)[PconAt] = IF MemselSet(m) THEN x ELSE x + Memsel
  <2>1. CASE MemselSet(m)
    BY <2>1 DEF SetMemsel
  <2>2. CASE ~MemselSet(m)
    <3>1. SetMemsel(m) = [m EXCEPT ![PconAt] = x + Memsel]
      BY <2>2 DEF SetMemsel
    <3>2. SetMemsel(m)[PconAt] = x + Memsel
      BY <1>1, <3>1 DEF Memory
    <3> QED
      BY <1>1, <1>4, <2>2, <3>1, <3>2 DEF Memory, MemselSet
  <2> QED
    BY <2>1, <2>2
<1>7. /\ ClearMemsel(m) \in Memory
      /\ \A l \in Location \ {PconAt} : ClearMemsel(m)[l] = m[l]
      /\ ClearMemsel(m)[PconAt] = IF MemselSet(m) THEN x - Memsel ELSE x
  <2>1. CASE ~MemselSet(m)
    BY <2>1 DEF ClearMemsel
  <2>2. CASE MemselSet(m)
    <3>1. ClearMemsel(m) = [m EXCEPT ![PconAt] = x - Memsel]
      BY <2>2 DEF ClearMemsel
    <3> QED
      BY <1>1, <1>5, <2>2, <3>1 DEF Memory
  <2> QED
    BY <2>1, <2>2
<1> QED
  BY <1>1, <1>6, <1>7

(* The location that byte k of an access at reg reaches.                   *)
Place(m, reg, k) ==
  IF Region(reg) = "SFR" THEN Sfr(reg + k) ELSE Pointed(WithBank(m, reg), Region(reg), reg + k)

LEMMA SfrIs ==
  ASSUME NEW n \in Nat
  PROVE  /\ Sfr(n) # Nowhere => Sfr(n) = SfrAt(n % SfrSpace) /\ Sfr(n) \in Location
         /\ n % SfrSpace \in 0 .. SfrSpace - 1
<1>1. n % SfrSpace \in 0 .. SfrSpace - 1
  BY Scale, DivSplit
<1>2. SfrSpace \div 2 \in Nat
  BY Scale
<1>3. n % SfrSpace >= SfrSpace \div 2 => SfrAt(n % SfrSpace) \in Location
  BY <1>1, <1>2, Scale DEF SfrAt, Location
<1> QED
  BY <1>1, <1>3 DEF Sfr

LEMMA PlaceIs ==
  ASSUME NEW m \in Memory, NEW reg \in Nat, NEW k \in Nat
  PROVE  /\ Region(reg) = "SFR" => Place(m, reg, k) = Sfr(reg + k)
         /\ Region(reg) = "XDATA" =>
              Place(m, reg, k) = <<IF MemselSet(m) THEN "CODE" ELSE "XDATA",
                                   Bank(reg), (reg + k) % BankSize>>
         /\ Region(reg) = "CODE" => Place(m, reg, k) = <<"CODE", Bank(reg), (reg + k) % BankSize>>
         /\ Region(reg) \in {"IDATA", "PDATA"} =>
              Place(m, reg, k) = <<Region(reg), 0, (reg + k) % PageSize>>
         /\ Place(m, reg, k) = Nowhere \/ Place(m, reg, k) \in Location
         /\ Region(reg) # "SFR" => /\ Place(m, reg, k) \in Location
                                   /\ Place(m, reg, k) \notin {DpxAt, PconAt}
<1>1. reg + k \in Nat
  OBVIOUS
<1>2. (reg + k) % BankSize \in 0 .. BankSize - 1 /\ (reg + k) % PageSize \in 0 .. PageSize - 1
  BY <1>1, Scale, DivSplit
<1>3. WithBank(m, reg)[DpxAt] = Bank(reg) /\ MemselSet(WithBank(m, reg)) = MemselSet(m)
      /\ Bank(reg) \in 0 .. Banks - 1
  BY WithBankIs, BankIs
<1>4. CASE Region(reg) = "SFR"
  BY <1>1, <1>4, SfrIs DEF Place
<1>5. CASE Region(reg) = "XDATA"
  <2> DEFINE kind == IF MemselSet(m) THEN "CODE" ELSE "XDATA"
  <2>1. Place(m, reg, k) = <<kind, Bank(reg), (reg + k) % BankSize>>
    BY <1>3, <1>5 DEF Place, Pointed
  <2>2. kind \in {"XDATA", "CODE"}
    OBVIOUS
  <2> HIDE DEF kind
  <2>3. Place(m, reg, k) \in Location
    BY <1>2, <1>3, <2>1, <2>2 DEF Location
  <2>4. Place(m, reg, k)[1] # "SFR"
    BY <2>1, <2>2
  <2> QED
    BY <1>5, <2>1, <2>3, <2>4, Locations DEF kind
<1>6. CASE Region(reg) = "CODE"
  <2>1. Place(m, reg, k) = <<"CODE", Bank(reg), (reg + k) % BankSize>>
    BY <1>3, <1>6 DEF Place, Pointed
  <2>2. Place(m, reg, k) \in Location
    BY <1>2, <1>3, <2>1 DEF Location
  <2>3. Place(m, reg, k)[1] # "SFR"
    BY <2>1
  <2> QED
    BY <1>6, <2>1, <2>2, <2>3, Locations
<1>7. CASE Region(reg) \in {"IDATA", "PDATA"}
  <2>1. Place(m, reg, k) = <<Region(reg), 0, (reg + k) % PageSize>>
    BY <1>7 DEF Place, Pointed
  <2>2. Place(m, reg, k) \in Location
    BY <1>2, <1>7, <2>1 DEF Location
  <2>3. Place(m, reg, k)[1] # "SFR"
    BY <1>7, <2>1
  <2> QED
    BY <1>7, <2>1, <2>2, <2>3, Locations
<1> QED
  BY <1>4, <1>5, <1>6, <1>7, RegionIs

(* The bytes of an access are at different places.                         *)
LEMMA PlacesDiffer ==
  ASSUME NEW m \in Memory, NEW reg \in Nat, NEW j \in 0 .. 3, NEW k \in 0 .. 3,
         Place(m, reg, j) = Place(m, reg, k), Place(m, reg, j) # Nowhere
  PROVE  j = k
<1>1. j \in Nat /\ k \in Nat /\ reg + j \in Nat /\ reg + k \in Nat
  OBVIOUS
<1>2. CASE Region(reg) = "SFR"
  <2>1. SfrAt((reg + j) % SfrSpace) = SfrAt((reg + k) % SfrSpace)
    BY <1>1, <1>2, PlaceIs, SfrIs
  <2>2. (reg + j) % SfrSpace = (reg + k) % SfrSpace
    BY <2>1 DEF SfrAt
  <2>3. j \in 0 .. SfrSpace - 1 /\ k \in 0 .. SfrSpace - 1 /\ SfrSpace \in Nat \ {0}
    BY Scale
  <2> QED
    BY <2>2, <2>3, ModDistinct
<1>3. CASE Region(reg) \in {"XDATA", "CODE"}
  <2>1. (reg + j) % BankSize = (reg + k) % BankSize
    BY <1>1, <1>3, PlaceIs
  <2>2. j \in 0 .. BankSize - 1 /\ k \in 0 .. BankSize - 1 /\ BankSize \in Nat \ {0}
    BY Scale
  <2> QED
    BY <2>1, <2>2, ModDistinct
<1>4. CASE Region(reg) \in {"IDATA", "PDATA"}
  <2>1. (reg + j) % PageSize = (reg + k) % PageSize
    BY <1>1, <1>4, PlaceIs
  <2>2. j \in 0 .. PageSize - 1 /\ k \in 0 .. PageSize - 1 /\ PageSize \in Nat \ {0}
    BY Scale
  <2> QED
    BY <2>1, <2>2, ModDistinct
<1> QED
  BY <1>2, <1>3, <1>4, RegionIs

-----------------------------------------------------------------------------
(* What a write does. *)
LEMMA ByteOfIs ==
  ASSUME NEW v \in Nat, NEW k \in 0 .. 3
  PROVE  ByteOf(v, k) \in Byte /\ ByteOf(v, k) = (v \div BytePower[k]) % ByteTop
<1>1. k \in 0 .. MaxDigits
  BY Scale
<1>2. ByteTop ^ k = BytePower[k] /\ BytePower[k] \in Nat \ {0}
  BY <1>1, PowersAre
<1>3. v \div BytePower[k] \in Nat
  BY <1>2, DivSplit
<1>4. (v \div BytePower[k]) % ByteTop \in 0 .. ByteTop - 1
  BY <1>3, Scale, DivSplit
<1> QED
  BY <1>2, <1>4 DEF ByteOf, Byte

(* Store, at locations that are not the same.                              *)
Apart(at, size) ==
  /\ DOMAIN at = 0 .. size - 1
  /\ \A j, k \in 0 .. size - 1 : at[j] = at[k] /\ at[j] \in Location => j = k

IsStored(s, m, at, size, v) ==
  /\ s \in Memory
  /\ \A k \in 0 .. size - 1 : at[k] \in Location => s[at[k]] = ByteOf(v, k)
  /\ \A l \in Location : (\A k \in 0 .. size - 1 : at[k] # l) => s[l] = m[l]

LEMMA StoreIs ==
  ASSUME NEW m \in Memory, NEW size \in {1, 2, 4}, NEW v \in Nat, NEW at, Apart(at, size)
  PROVE  IsStored(Store(m, at, v), m, at, size, v)
<1>0. /\ DOMAIN at = 0 .. size - 1
      /\ \A j, k \in 0 .. size - 1 : at[j] = at[k] /\ at[j] \in Location => j = k
  BY DEF Apart
<1>1. \A k \in 0 .. size - 1 : k \in 0 .. 3
  OBVIOUS
<1>2. ASSUME NEW k \in 0 .. size - 1, at[k] \in Location
      PROVE  Store(m, at, v)[at[k]] = ByteOf(v, k)
  <2>1. (CHOOSE j \in DOMAIN at : at[j] = at[k]) = k
    BY <1>0, <1>2
  <2>2. Store(m, at, v)[at[k]] = ByteOf(v, CHOOSE j \in DOMAIN at : at[j] = at[k])
    BY <1>2, <1>0 DEF Store
  <2> QED
    BY <2>1, <2>2
<1>3. ASSUME NEW l \in Location, \A k \in 0 .. size - 1 : at[k] # l
      PROVE  Store(m, at, v)[l] = m[l]
  BY <1>0, <1>3 DEF Store
<1>4. ASSUME NEW l \in Location
      PROVE  Store(m, at, v)[l] \in Byte
  <2>1. CASE \E k \in 0 .. size - 1 : at[k] = l
    <3>1. PICK k \in 0 .. size - 1 : at[k] = l
      BY <2>1
    <3>2. Store(m, at, v)[l] = ByteOf(v, k)
      BY <1>2, <3>1
    <3> QED
      BY <1>1, <3>2, ByteOfIs
  <2>2. CASE ~ \E k \in 0 .. size - 1 : at[k] = l
    <3>1. m[l] \in Byte
      BY DEF Memory
    <3> QED
      BY <1>3, <2>2, <3>1
  <2> QED
    BY <2>1, <2>2
<1>5. Store(m, at, v) \in Memory
  <2>1. Store(m, at, v) = [l \in Location |-> Store(m, at, v)[l]]
    BY DEF Store
  <2> QED
    BY <1>4, <2>1 DEF Memory
<1> QED
  BY <1>2, <1>3, <1>5 DEF IsStored

LEMMA WrittenIs ==
  ASSUME NEW m \in Memory, NEW reg \in Nat, NEW k \in Nat
  PROVE  /\ Written(m, reg, k) =
              IF Region(reg) = "SFR" /\ (reg + k) % SfrSpace \in Protected
                THEN Nowhere ELSE Place(m, reg, k)
         /\ Written(m, reg, k) # Nowhere => Written(m, reg, k) \in Location
         /\ Region(reg) # "SFR" => Written(m, reg, k) \notin {DpxAt, PconAt}
<1>1. Written(m, reg, k) = IF Region(reg) = "SFR" /\ (reg + k) % SfrSpace \in Protected
                             THEN Nowhere ELSE Place(m, reg, k)
  <2>1. CASE Region(reg) = "SFR"
    BY <2>1 DEF Written, SfrWritten, Place
  <2>2. CASE Region(reg) = "CODE"
    <3> DEFINE c == SetMemsel(WithBank(m, reg))
    <3>1. WithBank(m, reg) \in Memory /\ WithBank(m, reg)[DpxAt] = Bank(reg)
      BY WithBankIs
    <3>2. MemselSet(c) /\ c[DpxAt] = Bank(reg)
      BY <3>1, MemselIs, Locations
    <3> HIDE DEF c
    <3>3. Written(m, reg, k) = Pointed(c, "XDATA", reg + k)
      BY <2>2 DEF Written, Context, c
    <3>4. Written(m, reg, k) = <<"CODE", Bank(reg), (reg + k) % BankSize>>
      BY <3>2, <3>3 DEF Pointed
    <3> QED
      BY <2>2, <3>4, PlaceIs
  <2>3. CASE Region(reg) \notin {"SFR", "CODE"}
    BY <2>3 DEF Written, Context, Place
  <2> QED
    BY <2>1, <2>2, <2>3
<1>2. /\ Place(m, reg, k) = Nowhere \/ Place(m, reg, k) \in Location
      /\ Region(reg) # "SFR" => Place(m, reg, k) \notin {DpxAt, PconAt}
  BY PlaceIs
<1> QED
  BY <1>1, <1>2

(* Only the bytes written change, and MEMSEL, which a write of CODE        *)
(* clears.                                                                 *)
IsWritten(w, m, reg, size, v) ==
  /\ w \in Memory
  /\ \A k \in 0 .. size - 1 :
       Written(m, reg, k) # Nowhere => w[Written(m, reg, k)] = ByteOf(v, k)
  /\ \A l \in Location :
       (\A k \in 0 .. size - 1 : Written(m, reg, k) # l)
         => w[l] = IF Region(reg) = "CODE" THEN ClearMemsel(m)[l] ELSE m[l]

LEMMA WriteIs ==
  ASSUME NEW m \in Memory, NEW reg \in Nat, NEW size \in {1, 2, 4}, NEW v \in Nat
  PROVE  IsWritten(Write(m, reg, size, v), m, reg, size, v)
<1> DEFINE at == [k \in 0 .. size - 1 |-> Written(m, reg, k)]
           c == Context(m, reg)
           s == Store(c, at, v)
           done == [s EXCEPT ![DpxAt] = m[DpxAt]]
           w == Write(m, reg, size, v)
<1>1. \A k \in 0 .. size - 1 : k \in 0 .. 3 /\ k \in Nat /\ at[k] = Written(m, reg, k)
  OBVIOUS
<1>2. DOMAIN at = 0 .. size - 1
  OBVIOUS
<1> HIDE DEF at
<1>3. \A k \in 0 .. size - 1 : /\ at[k] \in Location <=> at[k] # Nowhere
                               /\ at[k] \in Location => at[k] = Place(m, reg, k)
                               /\ Region(reg) # "SFR" => at[k] \notin {DpxAt, PconAt}
  BY <1>1, WrittenIs, Locations
<1>4. Apart(at, size)
  <2> SUFFICES ASSUME NEW j \in 0 .. size - 1, NEW k \in 0 .. size - 1,
                      at[j] = at[k], at[j] \in Location
               PROVE  j = k
    BY <1>2 DEF Apart
  <2>1. Place(m, reg, j) = Place(m, reg, k) /\ Place(m, reg, j) # Nowhere
    BY <1>3
  <2>2. j \in 0 .. 3 /\ k \in 0 .. 3
    BY <1>1
  <2> QED
    BY <2>1, <2>2, PlacesDiffer
<1>5. CASE Region(reg) = "SFR"
  <2>1. w = Store(m, at, v)
    BY <1>5 DEF Write, at
  <2> HIDE DEF w
  <2>2. IsStored(w, m, at, size, v)
    BY <1>4, <2>1, StoreIs
  <2>3. /\ w \in Memory
        /\ \A k \in 0 .. size - 1 : Written(m, reg, k) # Nowhere => w[Written(m, reg, k)] = ByteOf(v, k)
        /\ \A l \in Location : (\A k \in 0 .. size - 1 : Written(m, reg, k) # l) => w[l] = m[l]
    BY <1>1, <1>3, <2>2 DEF IsStored
  <2> QED
    BY <1>5, <2>3 DEF w, IsWritten
<1>6. CASE Region(reg) # "SFR"
  <2>1. /\ WithBank(m, reg) \in Memory
        /\ \A l \in Location \ {DpxAt} : WithBank(m, reg)[l] = m[l]
        /\ MemselSet(WithBank(m, reg)) = MemselSet(m)
    BY WithBankIs
  <2>2. /\ c \in Memory
        /\ \A l \in Location \ {DpxAt, PconAt} : c[l] = m[l]
        /\ Region(reg) = "CODE" => MemselSet(c) /\ c[PconAt] = IF MemselSet(m) THEN m[PconAt]
                                                                ELSE m[PconAt] + Memsel
        /\ Region(reg) # "CODE" => c[PconAt] = m[PconAt]
    <3>1. CASE Region(reg) = "CODE"
      <4>1. c = SetMemsel(WithBank(m, reg))
        BY <3>1 DEF Context
      <4>2. WithBank(m, reg)[PconAt] = m[PconAt]
        BY <2>1, Locations
      <4> HIDE DEF c
      <4> QED
        BY <2>1, <3>1, <4>1, <4>2, MemselIs
    <3>2. CASE Region(reg) # "CODE"
      BY <2>1, <3>2, Locations DEF Context
    <3> QED
      BY <3>1, <3>2
  <2> HIDE DEF c
  <2>3. /\ s \in Memory
        /\ \A k \in 0 .. size - 1 : at[k] \in Location => s[at[k]] = ByteOf(v, k)
        /\ \A l \in Location : (\A k \in 0 .. size - 1 : at[k] # l) => s[l] = c[l]
    <3>1. IsStored(Store(c, at, v), c, at, size, v)
      BY <1>4, <2>2, StoreIs
    <3> QED
      BY <3>1 DEF IsStored
  <2>4. s[PconAt] = c[PconAt]
    BY <1>3, <1>6, <2>3, Locations
  <2> HIDE DEF s
  <2>5. m[DpxAt] \in Byte
    BY Locations DEF Memory
  <2>6. /\ done \in Memory
        /\ done[DpxAt] = m[DpxAt]
        /\ \A l \in Location \ {DpxAt} : done[l] = s[l]
    BY <2>3, <2>5, Locations DEF Memory
  <2> HIDE DEF done
  <2>7. done[PconAt] = c[PconAt]
    BY <2>4, <2>6, Locations
  <2>8. \A k \in 0 .. size - 1 : at[k] # Nowhere => done[at[k]] = ByteOf(v, k)
    BY <1>3, <1>6, <2>3, <2>6
  <2>9. \A l \in Location \ {PconAt} :
          (\A k \in 0 .. size - 1 : at[k] # l) => done[l] = m[l]
    BY <2>2, <2>3, <2>6, Locations
  <2>10. w = IF Region(reg) = "CODE" THEN ClearMemsel(done) ELSE done
    BY <1>6 DEF Write, done, s, c, at
  <2> HIDE DEF w
  <2>11. CASE Region(reg) # "CODE"
    <3>1. w = done /\ done[PconAt] = m[PconAt]
      BY <2>2, <2>7, <2>10, <2>11
    <3>2. /\ w \in Memory
          /\ \A k \in 0 .. size - 1 : Written(m, reg, k) # Nowhere => w[Written(m, reg, k)] = ByteOf(v, k)
          /\ \A l \in Location : (\A k \in 0 .. size - 1 : Written(m, reg, k) # l) => w[l] = m[l]
      BY <1>1, <2>6, <2>8, <2>9, <3>1
    <3> QED
      BY <2>11, <3>2 DEF w, IsWritten
  <2>12. CASE Region(reg) = "CODE"
    <3>1. w = ClearMemsel(done)
      BY <2>10, <2>12
    <3>2. MemselSet(done)
      BY <2>2, <2>7, <2>12 DEF MemselSet
    <3>3. /\ w \in Memory
          /\ \A l \in Location \ {PconAt} : w[l] = done[l]
          /\ w[PconAt] = c[PconAt] - Memsel
      BY <2>6, <2>7, <3>1, <3>2, MemselIs
    <3>4. /\ \A l \in Location \ {PconAt} : ClearMemsel(m)[l] = m[l]
          /\ ClearMemsel(m)[PconAt] = IF MemselSet(m) THEN m[PconAt] - Memsel ELSE m[PconAt]
          /\ m[PconAt] \in Byte
      BY MemselIs
    <3>5. w[PconAt] = ClearMemsel(m)[PconAt]
      <4>1. Memsel \in Int /\ m[PconAt] \in Int
        BY <3>4, Scale, SfrAssumption DEF Byte
      <4> QED
        BY <2>2, <2>12, <3>3, <3>4, <4>1
    <3>6. \A k \in 0 .. size - 1 : Written(m, reg, k) # Nowhere => w[Written(m, reg, k)] = ByteOf(v, k)
      BY <1>1, <1>3, <1>6, <2>8, <3>3
    <3>7. \A l \in Location : (\A k \in 0 .. size - 1 : Written(m, reg, k) # l)
                                => w[l] = ClearMemsel(m)[l]
      BY <1>1, <2>9, <3>3, <3>4, <3>5
    <3> QED
      BY <2>12, <3>3, <3>6, <3>7 DEF w, IsWritten
  <2> QED
    BY <2>11, <2>12
<1> QED
  BY <1>5, <1>6

-----------------------------------------------------------------------------
(* What a read gives. *)
Bytes(m, reg, size) == [k \in 0 .. size - 1 |-> ReadAt(m, reg, k)]

LEMMA ReadAtIs ==
  ASSUME NEW m \in Memory, NEW reg \in Nat, NEW k \in Nat
  PROVE  /\ ReadAt(m, reg, k) = IF Place(m, reg, k) = Nowhere THEN 0 ELSE m[Place(m, reg, k)]
         /\ ReadAt(m, reg, k) \in Byte
<1>1. ReadAt(m, reg, k) = IF Place(m, reg, k) = Nowhere THEN 0 ELSE m[Place(m, reg, k)]
  BY DEF ReadAt, Place
<1>2. Place(m, reg, k) = Nowhere \/ Place(m, reg, k) \in Location
  BY PlaceIs
<1>3. 0 \in Byte
  BY Scale DEF Byte
<1> QED
  BY <1>1, <1>2, <1>3 DEF Memory

LEMMA ReadIsSum ==
  ASSUME NEW m \in Memory, NEW reg \in Nat, NEW size \in {1, 2, 4}
  PROVE  /\ Bytes(m, reg, size) \in [0 .. size - 1 -> 0 .. ByteTop - 1]
         /\ \E s : /\ IsSum(s, Bytes(m, reg, size), BytePower, size)
                   /\ Read(m, reg, size) = s[size]
<1> DEFINE a == Bytes(m, reg, size)
           G(f) == [k \in 0 .. size |->
                      IF k = 0 THEN 0 ELSE f[k - 1] + ReadAt(m, reg, k - 1) * ByteTop ^ (k - 1)]
           g == [x \in Nat \X (1 .. size) |->
                   x[1] + ReadAt(m, reg, x[2] - 1) * ByteTop ^ (x[2] - 1)]
           s == CHOOSE f : f = G(f)
<1>1. \A k \in 0 .. size - 1 : a[k] = ReadAt(m, reg, k) /\ a[k] \in 0 .. ByteTop - 1
  <2> SUFFICES ASSUME NEW k \in 0 .. size - 1
               PROVE  ReadAt(m, reg, k) \in 0 .. ByteTop - 1
    BY DEF Bytes
  <2> QED
    BY ReadAtIs DEF Byte
<1>2. a \in [0 .. size - 1 -> 0 .. ByteTop - 1]
  BY <1>1 DEF Bytes
<1>3. \A k \in 0 .. size - 1 : ByteTop ^ k = BytePower[k] /\ BytePower[k] \in Nat \ {0}
  <2>1. \A k \in 0 .. size - 1 : k \in 0 .. MaxDigits
    BY Scale
  <2> QED
    BY <2>1, PowersAre
<1> HIDE DEF a
<1>4. g \in [Nat \X (1 .. size) -> Nat]
  <2> SUFFICES ASSUME NEW x \in Nat \X (1 .. size)
               PROVE  x[1] + ReadAt(m, reg, x[2] - 1) * ByteTop ^ (x[2] - 1) \in Nat
    OBVIOUS
  <2> DEFINE k == x[2] - 1
  <2>1. k \in 0 .. size - 1 /\ x[1] \in Nat
    OBVIOUS
  <2> HIDE DEF k
  <2>2. ReadAt(m, reg, k) \in Nat /\ ByteTop ^ k \in Nat
    BY <1>1, <1>3, <2>1, Scale
  <2>3. ReadAt(m, reg, k) * ByteTop ^ k \in Nat
    BY <2>2, ProductIsNat
  <2>4. x[1] + ReadAt(m, reg, k) * ByteTop ^ k \in Nat
    BY <2>1, <2>3
  <2> QED
    BY <2>4 DEF k
<1>5. \E f : f = G(f)
  <2>1. \E f : Iterates(f, Nat, 0, g, size)
    <3>1. size \in Nat /\ 0 \in Nat
      OBVIOUS
    <3>2. IsStep(g, Nat, size)
      BY <1>4 DEF IsStep
    <3> HIDE DEF g
    <3> QED
      BY <3>1, <3>2, RecursionExists
  <2>2. PICK f \in [0 .. size -> Nat] :
               f[0] = 0 /\ \A k \in 1 .. size : f[k] = g[<<f[k - 1], k>>]
    BY <2>1 DEF Iterates
  <2>3. \A k \in 1 .. size : f[k] = f[k - 1] + ReadAt(m, reg, k - 1) * ByteTop ^ (k - 1)
    <3> TAKE k \in 1 .. size
    <3>1. <<f[k - 1], k>> \in Nat \X (1 .. size)
      OBVIOUS
    <3>2. f[k] = g[<<f[k - 1], k>>]
      BY <2>2
    <3> QED
      BY <3>1, <3>2
  <2>4. f = G(f)
    BY <2>2, <2>3
  <2> QED
    BY <2>4
<1>6. s = G(s)
  BY <1>5
<1>7. Read(m, reg, size) = s[size]
  BY DEF Read
<1> HIDE DEF s
<1>8. s[0] = 0 /\ \A k \in 0 .. size - 1 : s[k + 1] = s[k] + a[k] * BytePower[k]
  <2>1. s[0] = 0
    BY <1>6
  <2>2. ASSUME NEW k \in 0 .. size - 1
        PROVE  s[k + 1] = s[k] + a[k] * BytePower[k]
    <3>1. k + 1 \in 0 .. size /\ k + 1 # 0 /\ (k + 1) - 1 = k
      OBVIOUS
    <3>2. s[k + 1] = s[k] + ReadAt(m, reg, k) * ByteTop ^ k
      BY <1>6, <3>1
    <3> QED
      BY <1>1, <1>3, <3>2
  <2> QED
    BY <2>1, <2>2
<1> QED
  BY <1>2, <1>7, <1>8 DEF IsSum, a

(* A number that is read has size bytes, and they are those of the places; *)
(* it is v when they are the bytes of v.                                   *)
LEMMA ReadIs ==
  ASSUME NEW m \in Memory, NEW reg \in Nat, NEW size \in {1, 2, 4}
  PROVE  /\ Read(m, reg, size) \in Nat
         /\ Read(m, reg, size) \in 0 .. ByteTop ^ size - 1
         /\ \A k \in 0 .. size - 1 : ByteOf(Read(m, reg, size), k) = ReadAt(m, reg, k)
<1> DEFINE a == Bytes(m, reg, size)
           r == Read(m, reg, size)
<1>1. \A k \in 0 .. size - 1 : a[k] = ReadAt(m, reg, k) /\ k \in 0 .. 3
  BY DEF Bytes
<1>2. a \in [0 .. size - 1 -> 0 .. ByteTop - 1] /\ size \in 0 .. MaxDigits
  <2>1. a \in [0 .. size - 1 -> 0 .. ByteTop - 1]
    BY ReadIsSum
  <2>2. size \in 0 .. MaxDigits
    BY Scale
  <2> QED
    BY <2>1, <2>2
<1>3. PICK s : IsSum(s, a, BytePower, size) /\ r = s[size]
  BY ReadIsSum
<1> HIDE DEF a, r
<1>4. \A n \in 0 .. size : s[n] \in 0 .. BytePower[n] - 1
  BY <1>2, <1>3, Powers, SumBelow
<1>5. \A k \in 0 .. size - 1 : (s[size] \div BytePower[k]) % ByteTop = a[k]
  BY <1>2, <1>3, Powers, SumDigit
<1>6. r \in 0 .. BytePower[size] - 1
  <2>1. size \in 0 .. size
    OBVIOUS
  <2> QED
    BY <1>3, <1>4, <2>1
<1>7. r \in Nat /\ r \in 0 .. ByteTop ^ size - 1
  <2>1. BytePower[size] \in Nat /\ ByteTop ^ size = BytePower[size]
    BY <1>2, PowersAre
  <2> QED
    BY <1>6, <2>1
<1>8. \A k \in 0 .. size - 1 : ByteOf(r, k) = ReadAt(m, reg, k)
  BY <1>1, <1>3, <1>5, <1>7, ByteOfIs
<1> QED
  BY <1>7, <1>8 DEF r

LEMMA ReadsBack ==
  ASSUME NEW m \in Memory, NEW reg \in Nat, NEW size \in {1, 2, 4},
         NEW v \in 0 .. ByteTop ^ size - 1,
         \A k \in 0 .. size - 1 : ReadAt(m, reg, k) = ByteOf(v, k)
  PROVE  Read(m, reg, size) = v
<1> DEFINE a == Bytes(m, reg, size)
           r == Read(m, reg, size)
<1>1. size \in 0 .. MaxDigits /\ ByteTop ^ size = BytePower[size] /\ BytePower[size] \in Nat \ {0}
  <2>1. size \in 0 .. MaxDigits
    BY Scale
  <2> QED
    BY <2>1, PowersAre
<1>2. v \in 0 .. BytePower[size] - 1 /\ v \in Nat
  BY <1>1
<1>3. \A k \in 0 .. size - 1 : a[k] = (v \div BytePower[k]) % ByteTop
  <2> TAKE k \in 0 .. size - 1
  <2>1. k \in 0 .. 3
    OBVIOUS
  <2>2. a[k] = ReadAt(m, reg, k)
    BY DEF Bytes
  <2> QED
    BY <1>2, <2>1, <2>2, ByteOfIs
<1>4. PICK s : IsSum(s, a, BytePower, size) /\ r = s[size]
  BY ReadIsSum
<1> HIDE DEF a, r
<1>5. s[size] = v
  BY <1>1, <1>2, <1>3, <1>4, Powers, DigitsSum
<1> QED
  BY <1>4, <1>5 DEF r

-----------------------------------------------------------------------------
(* Numbers as they are typed and printed. *)
LEMMA NumberIs ==
  ASSUME NEW d \in Seq(Digit), Len(d) <= MaxDigits
  PROVE  /\ \E h : IsHorner(h, Base, d, Len(d)) /\ Number(d) = h[Len(d)]
         /\ Number(d) \in 0 .. Base ^ MaxDigits - 1
<1> DEFINE n == Len(d)
           G(f) == [k \in 0 .. n |-> IF k = 0 THEN 0 ELSE f[k - 1] * Base + d[k]]
           g == [x \in Nat \X (1 .. n) |-> x[1] * Base + d[x[2]]]
           h == CHOOSE f : f = G(f)
<1>1. n \in Nat /\ n \in 0 .. MaxDigits /\ Base \in Nat \ {0} /\ MaxDigits \in Nat
  BY Scale
<1>2. \A k \in 1 .. n : d[k] \in 0 .. Base - 1
  <2>1. d \in [1 .. Len(d) -> Digit]
    BY LenProperties
  <2> QED
    BY <2>1 DEF Digit
<1>3. Number(d) = h[n]
  BY DEF Number
<1> HIDE DEF n
<1>4. IsStep(g, Nat, n)
  <2> SUFFICES ASSUME NEW x \in Nat \X (1 .. n)
               PROVE  x[1] * Base + d[x[2]] \in Nat
    BY DEF IsStep
  <2> DEFINE y == x[1]
             z == d[x[2]]
  <2>1. y \in Nat /\ z \in 0 .. Base - 1
    BY <1>2
  <2> HIDE DEF y, z
  <2>2. y * Base \in Nat
    BY <1>1, <2>1
  <2>3. y * Base + z \in Nat
    BY <1>1, <2>1, <2>2
  <2> QED
    BY <2>3 DEF y, z
<1>5. \E f : f = G(f)
  <2>1. \E f : Iterates(f, Nat, 0, g, n)
    <3> HIDE DEF g
    <3> QED
      BY <1>1, <1>4, RecursionExists
  <2>2. PICK f \in [0 .. n -> Nat] : f[0] = 0 /\ \A k \in 1 .. n : f[k] = g[<<f[k - 1], k>>]
    BY <2>1 DEF Iterates
  <2>3. \A k \in 1 .. n : f[k] = f[k - 1] * Base + d[k]
    <3> TAKE k \in 1 .. n
    <3>1. <<f[k - 1], k>> \in Nat \X (1 .. n)
      BY <1>1
    <3>2. f[k] = g[<<f[k - 1], k>>]
      BY <2>2
    <3> QED
      BY <3>1, <3>2
  <2>4. f = G(f)
    <3>1. f = [k \in 0 .. n |-> f[k]]
      BY <2>2
    <3>2. \A k \in 0 .. n : f[k] = IF k = 0 THEN 0 ELSE f[k - 1] * Base + d[k]
      <4> TAKE k \in 0 .. n
      <4>1. k = 0 \/ k \in 1 .. n
        BY <1>1
      <4>2. k \in 1 .. n => k # 0
        BY <1>1
      <4> QED
        BY <2>2, <2>3, <4>1, <4>2
    <3> QED
      BY <3>1, <3>2
  <2> QED
    BY <2>4
<1>6. h = G(h)
  BY <1>5
<1> HIDE DEF h
<1>7. IsHorner(h, Base, d, n)
  <2>1. h[0] = 0
    BY <1>1, <1>6
  <2>2. \A k \in 1 .. n : h[k] = h[k - 1] * Base + d[k]
    BY <1>1, <1>6
  <2> QED
    BY <2>1, <2>2 DEF IsHorner
<1>8. h[n] \in 0 .. BasePower[n] - 1
  <2>1. \A k \in 0 .. n : h[k] \in 0 .. BasePower[k] - 1
    BY <1>1, <1>2, <1>7, Powers, HornerBelow
  <2>2. n \in 0 .. n
    BY <1>1
  <2> QED
    BY <2>1, <2>2
<1>9. BasePower[n] <= BasePower[MaxDigits]
  BY <1>1, Powers, PowersGrow
<1>10. h[n] \in 0 .. Base ^ MaxDigits - 1
  <2>1. MaxDigits \in 0 .. MaxDigits
    BY <1>1
  <2>2. Base ^ MaxDigits = BasePower[MaxDigits]
        /\ BasePower[MaxDigits] \in Nat /\ BasePower[n] \in Nat
    BY <1>1, <2>1, PowersAre
  <2> QED
    BY <1>8, <1>9, <2>2
<1> QED
  BY <1>3, <1>7, <1>10 DEF n

LEMMA ParseHexIs ==
  ASSUME NEW str \in Seq(Int)
  PROVE  /\ ParseHex(str).ok \in BOOLEAN
         /\ ParseHex(str).value \in 0 .. Base ^ MaxDigits - 1
<1> DEFINE digits == IF Prefixed(str) THEN SubSeq(str, 3, Len(str)) ELSE str
<1>1. digits \in Seq(Int)
  <2>1. Len(str) \in Int /\ \A n \in 3 .. Len(str) : str[n] \in Int
    OBVIOUS
  <2>2. SubSeq(str, 3, Len(str)) \in Seq(Int)
    BY <2>1, SubSeqProperties
  <2> QED
    BY <2>2
<1>2. ParseHex(str) = IF Len(digits) > MaxDigits \/ \E n \in DOMAIN digits : digits[n] \notin Digit
                        THEN Error ELSE [ok |-> TRUE, value |-> Number(digits)]
  BY DEF ParseHex
<1> HIDE DEF digits
<1>3. CASE Len(digits) > MaxDigits \/ \E n \in DOMAIN digits : digits[n] \notin Digit
  <2>1. MaxDigits \in 0 .. MaxDigits
    BY Scale
  <2>2. Base ^ MaxDigits \in Nat \ {0}
    BY <2>1, PowersAre
  <2> QED
    BY <1>2, <1>3, <2>2 DEF Error
<1>4. CASE ~ (Len(digits) > MaxDigits \/ \E n \in DOMAIN digits : digits[n] \notin Digit)
  <2>1. digits \in Seq(Digit)
    BY <1>1, <1>4
  <2>2. Len(digits) <= MaxDigits
    BY <1>1, <1>4, Scale
  <2>3. Number(digits) \in 0 .. Base ^ MaxDigits - 1
    BY <2>1, <2>2, NumberIs
  <2> QED
    BY <1>2, <1>4, <2>3
<1> QED
  BY <1>3, <1>4

(* What print_hex prints is what parse_hex takes.                          *)
LEMMA PrintHexIs ==
  ASSUME NEW v \in Nat, v < Base ^ MaxDigits, NEW min \in 1 .. MaxDigits
  PROVE  ParseHex(PrintHex(v, min)) = [ok |-> TRUE, value |-> v]
<1> DEFINE fits == {n \in 1 .. MaxDigits : n >= min /\ v < Base ^ n}
           n == CHOOSE n \in fits : \A k \in fits : n <= k
           d == [k \in 1 .. n |-> (v \div Base ^ (n - k)) % Base]
           str == <<0, X>> \o d
<1>1. PrintHex(v, min) = str
  BY DEF PrintHex
<1>2. n \in fits
  <2>1. MaxDigits \in fits
    BY Scale
  <2>2. fits \in SUBSET Nat /\ fits # {}
    BY <2>1
  <2>3. \E y \in fits : \A k \in fits : y <= k
    <3> HIDE DEF fits
    <3> QED
      BY <2>2, LeastNat
  <2> QED
    BY <2>3
<1>3. n \in 1 .. MaxDigits /\ v < Base ^ n
  BY <1>2
<1> HIDE DEF n, fits
<1>4. n \in Nat /\ n \in 0 .. MaxDigits /\ Base \in Nat \ {0} /\ MaxDigits \in Nat
  BY <1>3, Scale
<1>5. \A k \in 1 .. n : d[k] = (v \div BasePower[n - k]) % Base /\ d[k] \in Digit
  <2> TAKE k \in 1 .. n
  <2> DEFINE e == n - k
  <2>1. e \in 0 .. MaxDigits
    BY <1>3, <1>4
  <2> HIDE DEF e
  <2>2. Base ^ e = BasePower[e] /\ BasePower[e] \in Nat \ {0}
    BY <2>1, PowersAre
  <2>3. v \div BasePower[e] \in Nat
    BY <2>2, DivSplit
  <2>4. (v \div BasePower[e]) % Base \in 0 .. Base - 1
    BY <1>4, <2>3, DivSplit
  <2>5. d[k] = (v \div Base ^ e) % Base
    BY DEF e
  <2>6. d[k] = (v \div BasePower[e]) % Base /\ d[k] \in Digit
    BY <2>2, <2>4, <2>5 DEF Digit
  <2> QED
    BY <2>6 DEF e
<1>6. d \in [1 .. n -> Digit]
  BY <1>5
<1>7. DOMAIN d = 1 .. n
  OBVIOUS
<1> HIDE DEF d
<1>8. d \in Seq(Digit) /\ Len(d) = n /\ d \in Seq(Int)
  BY <1>4, <1>6 DEF Digit
<1>9. str \in Seq(Int) /\ Len(str) = n + 2 /\ str[1] = 0 /\ str[2] = X
      /\ \A k \in 1 .. n : str[k + 2] = d[k]
  BY <1>4, <1>8 DEF X
<1> HIDE DEF str
<1>10. SubSeq(str, 3, Len(str)) = d
  <2> DEFINE t == SubSeq(str, 3, Len(str))
  <2>1. t \in Seq(Int) /\ Len(t) = n /\ \A k \in 1 .. n : t[k] = str[k + 2]
    BY <1>3, <1>4, <1>9
  <2> HIDE DEF t
  <2>2. t \in [1 .. n -> Int] /\ d \in [1 .. n -> Int]
    BY <1>8, <2>1, LenProperties
  <2>3. \A k \in 1 .. n : t[k] = d[k]
    BY <1>9, <2>1
  <2>4. t = d
    <3>1. t = [k \in 1 .. n |-> t[k]] /\ d = [k \in 1 .. n |-> d[k]]
      BY <2>2
    <3> QED
      BY <2>3, <3>1
  <2> QED
    BY <2>4 DEF t
<1>11. Prefixed(str)
  BY <1>4, <1>9 DEF Prefixed
<1>12. ParseHex(str) = [ok |-> TRUE, value |-> Number(d)]
  <2> DEFINE digits == IF Prefixed(str) THEN SubSeq(str, 3, Len(str)) ELSE str
  <2>1. ParseHex(str) = IF Len(digits) > MaxDigits \/ \E k \in DOMAIN digits : digits[k] \notin Digit
                          THEN Error ELSE [ok |-> TRUE, value |-> Number(digits)]
    BY DEF ParseHex
  <2>2. digits = d
    BY <1>10, <1>11
  <2> HIDE DEF digits
  <2>3. ~ (Len(d) > MaxDigits) /\ ~ \E k \in DOMAIN d : d[k] \notin Digit
    BY <1>3, <1>4, <1>6, <1>8
  <2> QED
    BY <2>1, <2>2, <2>3
<1>13. Number(d) = v
  <2>1. PICK h : IsHorner(h, Base, d, n) /\ Number(d) = h[n]
    BY <1>3, <1>4, <1>8, NumberIs
  <2>2. v \in 0 .. BasePower[n] - 1
    <3>1. Base ^ n = BasePower[n] /\ BasePower[n] \in Nat
      BY <1>4, PowersAre
    <3> QED
      BY <1>3, <3>1
  <2>3. \A k \in 1 .. n : d[k] = (v \div BasePower[n - k]) % Base
    BY <1>5
  <2>4. HasDigits(d, v, BasePower, Base, n)
    BY <2>2, <2>3 DEF HasDigits
  <2> QED
    BY <1>4, <2>1, <2>4, Powers, HornerDigits
<1> QED
  BY <1>1, <1>12, <1>13

-----------------------------------------------------------------------------
(* The invariant. *)
LEMMA LineIs ==
  ASSUME TypeOK
  PROVE  /\ line.size \in {1, 2, 4} /\ line.write \in BOOLEAN
         /\ line \in Lines => \A k \in 1 .. Len(line.args) : line.args[k] \in Seq(Int)
<1>1. line \in Lines \/ line = NoLine
  BY DEF TypeOK
<1>2. line = NoLine => line.size = 1 /\ line.write = FALSE
  BY DEF NoLine
<1>3. ASSUME line \in Lines
      PROVE  /\ line.size \in {1, 2, 4} /\ line.write \in BOOLEAN
             /\ \A k \in 1 .. Len(line.args) : line.args[k] \in Seq(Int)
  <2>1. line.size \in {1, 2, 4} /\ line.write \in BOOLEAN /\ line.args \in Seq(Seq(Int))
    BY <1>3, LineAssumption
  <2> QED
    BY <2>1, ElementOfSeq
<1> QED
  BY <1>1, <1>2, <1>3

LEMMA Numbers ==
  ASSUME TypeOK
  PROVE  /\ ptr \in Nat /\ value \in Nat /\ mem \in Memory /\ before \in Memory
         /\ \A n \in {1, 2, 4} : ByteTop ^ n \in Nat \ {0}
         /\ Base ^ MaxDigits \in Nat \ {0}
<1>1. AddrTop \in Nat /\ MaxDigits \in 0 .. MaxDigits /\ \A n \in {1, 2, 4} : n \in 0 .. MaxDigits
  BY Scale
<1>2. Base ^ MaxDigits \in Nat \ {0}
  BY <1>1, PowersAre
<1>3. \A n \in {1, 2, 4} : ByteTop ^ n \in Nat \ {0}
  BY <1>1, PowersAre
<1>4. ptr \in Nat /\ value \in Nat
  BY <1>1, <1>2 DEF TypeOK
<1>5. mem \in Memory /\ before \in Memory
  BY DEF TypeOK, Memory
<1> QED
  BY <1>2, <1>3, <1>4, <1>5

LEMMA InitMem ==
  ASSUME Init
  PROVE  MemInv
<1>1. mem \in [Location -> Byte] /\ before = mem
  BY ContentsAssumption DEF Init
<1>2. AddrTop \in Nat \ {0} /\ MaxDigits \in 0 .. MaxDigits
  BY Scale
<1>3. 0 \in 0 .. AddrTop - 1
  BY <1>2
<1>4. 0 \in 0 .. Base ^ MaxDigits - 1
  <2>1. Base ^ MaxDigits \in Nat \ {0}
    BY <1>2, PowersAre
  <2> QED
    BY <2>1
<1>5. runs = 0 /\ MaxRuns \in Nat
  BY ScaleAssumption DEF Init
<1>6. shown = <<>> /\ Len(shown) = 0 /\ DOMAIN shown = {} /\ shown \in Seq(Nat)
  BY DEF Init
<1>7. TypeOK
  BY <1>1, <1>3, <1>4, <1>5, <1>6 DEF Init, TypeOK
<1>8. FlowInv
  BY <1>6 DEF Init, FlowInv
<1>9. EffectInv
  BY <1>1, <1>6 DEF Init, EffectInv, Stored, NoLine
<1> QED
  BY <1>7, <1>8, <1>9 DEF MemInv

LEMMA CommandMem ==
  ASSUME MemInv, NEW l \in Lines, Command(l)
  PROVE  MemInv'
<1>1. TypeOK /\ runs \in Nat /\ MaxRuns \in Nat /\ runs < MaxRuns
  BY ScaleAssumption DEF MemInv, TypeOK, Command
<1>2. shown' = <<>> /\ Len(shown') = 0 /\ DOMAIN shown' = {} /\ shown' \in Seq(Nat)
  BY DEF Command
<1>3. \/ pc' = "prompt" /\ result' = "error"
      \/ pc' = "address" /\ result' = "none" /\ ~ (Len(l.args) < (IF l.write THEN 2 ELSE 1))
  BY DEF Command, Return
<1>4. mem' = mem /\ before' = mem /\ ptr' = ptr /\ value' = value /\ line' = l
  BY DEF Command
<1>5. TypeOK'
  BY <1>1, <1>2, <1>3, <1>4 DEF TypeOK, Command
<1>6. FlowInv'
  <2>1. l.args \in Seq(Seq(Int))
    BY LineAssumption
  <2> QED
    BY <1>2, <1>3, <1>4, <2>1 DEF FlowInv
<1>7. ~Stored'
  BY <1>2, <1>3 DEF Stored
<1>8. EffectInv'
  BY <1>2, <1>3, <1>4, <1>7 DEF EffectInv
<1> QED
  BY <1>5, <1>6, <1>8 DEF MemInv

LEMMA AddressMem ==
  ASSUME MemInv, ParseAddress
  PROVE  MemInv'
<1>1. TypeOK /\ FlowInv /\ EffectInv /\ pc = "address"
  BY DEF MemInv, ParseAddress
<1>2. shown = <<>> /\ Len(shown) = 0 /\ DOMAIN shown = {} /\ result = "none" /\ line \in Lines
  BY <1>1 DEF FlowInv
<1>3. ~Stored /\ mem = before
  BY <1>1, <1>2 DEF EffectInv, Stored
<1> DEFINE p == ParseHex(line.args[1])
<1>4. p.ok => p.value \in Nat
  <2>1. Len(line.args) >= 1 /\ Len(line.args) \in Nat
    <3>1. line.args \in Seq(Seq(Int))
      BY <1>2, LineAssumption
    <3> QED
      BY <1>1, <3>1 DEF FlowInv
  <2>2. line.args[1] \in Seq(Int)
    BY <1>1, <1>2, <2>1, LineIs
  <2>3. Base ^ MaxDigits \in Nat
    BY <1>1, Numbers
  <2> QED
    BY <2>2, <2>3, ParseHexIs
<1> HIDE DEF p
<1>5. UNCHANGED <<mem, line, value, shown, before, runs>>
  BY DEF ParseAddress
<1>6. \/ pc' = "read" /\ result' = result /\ p.ok /\ ptr' = p.value /\ p.value < AddrTop
      \/ pc' = "prompt" /\ result' = "error" /\ ptr' = ptr
  BY DEF ParseAddress, Return, p
<1>7. ptr' \in 0 .. AddrTop - 1
  <2>1. ptr \in 0 .. AddrTop - 1 /\ AddrTop \in Nat
    BY <1>1, Scale DEF TypeOK
  <2> QED
    BY <1>4, <1>6, <2>1
<1>8. TypeOK'
  BY <1>1, <1>2, <1>5, <1>6, <1>7 DEF TypeOK
<1>9. FlowInv'
  BY <1>1, <1>2, <1>5, <1>6 DEF FlowInv
<1>10. ~Stored'
  BY <1>2, <1>5, <1>6 DEF Stored
<1>11. EffectInv'
  BY <1>2, <1>3, <1>5, <1>6, <1>10 DEF EffectInv
<1> QED
  BY <1>8, <1>9, <1>11 DEF MemInv

LEMMA ReadMem ==
  ASSUME MemInv, ReadAndPrint
  PROVE  MemInv'
<1>1. TypeOK /\ FlowInv /\ EffectInv /\ pc = "read" /\ result = "none"
  BY DEF MemInv, ReadAndPrint, FlowInv
<1>2. line.size \in {1, 2, 4} /\ line.write \in BOOLEAN
  BY <1>1, LineIs
<1> DEFINE r == Read(mem, ptr, line.size)
           top == ByteTop ^ line.size
<1>3. r \in Nat /\ r \in 0 .. top - 1
  BY <1>1, <1>2, Numbers, ReadIs
<1>4. shown' = Append(shown, r) /\ UNCHANGED <<mem, line, ptr, value, before, runs>>
  BY DEF ReadAndPrint
<1>5. IF line.write /\ shown = <<>> THEN pc' = "value" /\ result' = result
                                    ELSE pc' = "prompt" /\ result' = "ok"
  BY DEF ReadAndPrint, Return
<1>6. shown \in Seq(Nat) /\ (shown = <<>> \/ (line.write /\ Len(shown) = 1))
  BY <1>1 DEF FlowInv
<1>7. \A k \in DOMAIN shown : shown[k] \in 0 .. top - 1
  BY <1>1 DEF TypeOK
<1> HIDE DEF r, top
<1>8. /\ shown' \in Seq(Nat) /\ Len(shown') = Len(shown) + 1
      /\ shown'[Len(shown) + 1] = r
      /\ \A k \in DOMAIN shown : shown'[k] = shown[k]
      /\ DOMAIN shown' = 1 .. Len(shown) + 1 /\ DOMAIN shown = 1 .. Len(shown)
  BY <1>3, <1>4, <1>6
<1>10. Len(shown) \in {0, 1}
  BY <1>6
<1>9. Len(shown') <= 2 /\ \A k \in DOMAIN shown' : shown'[k] \in 0 .. top - 1
  <2> DEFINE n == Len(shown)
  <2>1. n \in {0, 1} /\ Len(shown') = n + 1
    BY <1>8, <1>10
  <2>2. \A k \in 1 .. n : shown'[k] \in 0 .. top - 1
    BY <1>7, <1>8
  <2>3. shown'[n + 1] \in 0 .. top - 1 /\ DOMAIN shown' = 1 .. n + 1
    BY <1>3, <1>8
  <2> HIDE DEF n
  <2>4. \A k \in 1 .. n + 1 : k \in 1 .. n \/ k = n + 1
    BY <2>1
  <2>5. \A k \in DOMAIN shown' : shown'[k] \in 0 .. top - 1
    BY <2>2, <2>3, <2>4
  <2>6. n + 1 <= 2
    BY <2>1
  <2> QED
    BY <2>1, <2>5, <2>6
<1>11. TypeOK'
  <2>1. Len(shown') <= 2
    BY <1>9
  <2>2. \A k \in DOMAIN shown' : shown'[k] \in 0 .. ByteTop ^ line'.size - 1
    BY <1>4, <1>9 DEF top
  <2> HIDE DEF top
  <2> QED
    BY <1>1, <1>4, <1>5, <2>1, <2>2 DEF TypeOK
<1>12. CASE shown = <<>>
  <2>1. Len(shown) = 0 /\ Len(shown') = 1 /\ shown' # <<>> /\ shown'[1] = r
    BY <1>8, <1>12
  <2>2. ~Stored /\ mem = before
    BY <1>1, <1>12 DEF EffectInv, Stored
  <2>3. FlowInv'
    BY <1>1, <1>2, <1>4, <1>5, <1>8, <1>12, <2>1 DEF FlowInv
  <2>4. ~Stored' /\ pc' # "write"
    BY <1>1, <1>4, <1>5, <1>12 DEF Stored
  <2>5. shown'[1] = Read(before', ptr', line'.size)
    BY <1>4, <2>1, <2>2 DEF r
  <2>6. EffectInv'
    BY <1>4, <2>1, <2>2, <2>4, <2>5 DEF EffectInv
  <2> QED
    BY <1>11, <2>3, <2>6 DEF MemInv
<1>13. CASE shown # <<>>
  <2>1. line.write /\ Len(shown) = 1 /\ Len(shown') = 2 /\ shown' # <<>>
        /\ shown'[1] = shown[1] /\ shown'[2] = r
    BY <1>6, <1>8, <1>13, SMTT(30)
  <2>2. Stored /\ pc' = "prompt" /\ result' = "ok"
    BY <1>1, <1>5, <1>13, <2>1 DEF Stored
  <2>3. FlowInv'
    BY <1>1, <1>4, <1>8, <2>1, <2>2 DEF FlowInv
  <2>4. Stored'
    BY <1>4, <2>1, <2>2 DEF Stored
  <2>5. shown'[2] = Read(mem', ptr', line'.size)
    BY <1>4, <2>1 DEF r
  <2>6. EffectInv'
    BY <1>1, <1>4, <1>13, <2>1, <2>2, <2>4, <2>5 DEF EffectInv
  <2> QED
    BY <1>11, <2>3, <2>6 DEF MemInv
<1> QED
  BY <1>12, <1>13

LEMMA ValueMem ==
  ASSUME MemInv, ParseValue
  PROVE  MemInv'
<1>1. TypeOK /\ FlowInv /\ EffectInv /\ pc = "value" /\ result = "none"
  BY DEF MemInv, ParseValue, FlowInv
<1>2. line.size \in {1, 2, 4} /\ line.write /\ Len(shown) = 1 /\ line \in Lines
  BY <1>1, LineIs DEF FlowInv
<1>3. ~Stored /\ mem = before
  BY <1>1 DEF EffectInv, Stored
<1> DEFINE p == ParseHex(line.args[2])
           top == ByteTop ^ line.size
<1>4. p.value \in 0 .. Base ^ MaxDigits - 1 /\ p.value \in Nat
  <2>1. Len(line.args) >= 2 /\ Len(line.args) \in Nat
    <3>1. line.args \in Seq(Seq(Int))
      BY <1>2, LineAssumption
    <3> QED
      BY <1>1, <1>2, <3>1 DEF FlowInv
  <2>2. line.args[2] \in Seq(Int)
    BY <1>1, <1>2, <2>1, LineIs
  <2>3. Base ^ MaxDigits \in Nat
    BY <1>1, Numbers
  <2> QED
    BY <2>2, <2>3, ParseHexIs
<1>5. top \in Nat /\ (line.size = 4 => top = Base ^ MaxDigits)
  BY <1>1, <1>2, Numbers, PowersAre
<1> HIDE DEF p, top
<1>6. UNCHANGED <<mem, line, ptr, shown, before, runs>>
  BY DEF ParseValue
<1>7. \/ pc' = "write" /\ result' = result /\ value' = p.value /\ ~TooLarge(p.value)
      \/ pc' = "prompt" /\ result' = "error" /\ value' = value
  BY DEF ParseValue, Return, p
<1>8. ~TooLarge(p.value) => p.value < top
  <2>1. Base ^ MaxDigits \in Nat
    BY <1>1, Numbers
  <2> QED
    BY <1>2, <1>4, <1>5, <2>1 DEF TooLarge, top
<1>9. TypeOK'
  BY <1>1, <1>4, <1>6, <1>7 DEF TypeOK
<1>10. FlowInv'
  <2>1. shown' \in Seq(Nat) /\ Len(shown') = 1 /\ line' \in Lines /\ line'.write
        /\ Len(line'.args) >= (IF line'.write THEN 2 ELSE 1)
    BY <1>1, <1>2, <1>6 DEF FlowInv
  <2>2. \/ pc' = "write" /\ result' = "none"
        \/ pc' = "prompt" /\ result' = "error"
    BY <1>1, <1>7
  <2> QED
    BY <2>1, <2>2 DEF FlowInv
<1>11. ~Stored'
  BY <1>1, <1>6, <1>7 DEF Stored
<1>12. pc' = "write" => value' = ParseHex(line'.args[2]).value /\ value' < ByteTop ^ line'.size
  BY <1>6, <1>7, <1>8 DEF p, top
<1>13. EffectInv'
  BY <1>1, <1>2, <1>3, <1>6, <1>11, <1>12 DEF EffectInv
<1> QED
  BY <1>9, <1>10, <1>13 DEF MemInv

LEMMA WriteMem ==
  ASSUME MemInv, WriteMemory
  PROVE  MemInv'
<1>1. TypeOK /\ FlowInv /\ EffectInv /\ pc = "write" /\ result = "none"
  BY DEF MemInv, WriteMemory, FlowInv
<1>2. line.size \in {1, 2, 4} /\ line.write /\ Len(shown) = 1 /\ line \in Lines
  BY <1>1, LineIs DEF FlowInv
<1>3. ~Stored /\ mem = before /\ shown # <<>>
  <2>1. shown = <<>> => Len(shown) = 0
    OBVIOUS
  <2>2. ~Stored
    BY <1>1 DEF Stored
  <2>3. shown # <<>>
    BY <1>2, <2>1
  <2> QED
    BY <1>1, <2>2, <2>3 DEF EffectInv
<1>4. /\ mem' = Write(before, ptr, line.size, value) /\ pc' = "read"
      /\ UNCHANGED <<line, ptr, value, shown, result, before, runs>>
  BY <1>3 DEF WriteMemory
<1>5. mem' \in Memory
  BY <1>1, <1>2, <1>3, <1>4, Numbers, WriteIs DEF IsWritten
<1>6. TypeOK'
  BY <1>1, <1>4, <1>5 DEF TypeOK, Memory
<1>7. FlowInv'
  BY <1>1, <1>2, <1>4 DEF FlowInv
<1>8. Stored'
  BY <1>2, <1>3, <1>4 DEF Stored
<1>9. EffectInv'
  BY <1>1, <1>2, <1>4, <1>8 DEF EffectInv
<1> QED
  BY <1>6, <1>7, <1>9 DEF MemInv

LEMMA IdleMem ==
  ASSUME MemInv, UNCHANGED vars
  PROVE  MemInv'
BY DEF vars, MemInv, TypeOK, FlowInv, EffectInv, Stored

(* The memory commands keep their invariant: a command writes once at most, *)
(* what it has parsed, after it has printed what was there before.         *)
THEOREM MemInvariance ==
  Spec => []MemInv
<1>1. Init => MemInv
  BY InitMem
<1>2. MemInv /\ [Next]_vars => MemInv'
  <2> SUFFICES ASSUME MemInv, [Next]_vars PROVE MemInv'
    OBVIOUS
  <2> QED
    BY CommandMem, AddressMem, ReadMem, ValueMem, WriteMem, IdleMem DEF Next
<1> QED
  BY <1>1, <1>2, PTL DEF Spec

(* Every variable has its type; memory holds bytes and a number printed    *)
(* has the bytes of the command.                                           *)
THEOREM MemTypes ==
  Spec => []TypeOK
<1>1. MemInv => TypeOK
  BY DEF MemInv
<1> QED
  BY <1>1, MemInvariance, PTL

-----------------------------------------------------------------------------
(* What the user is told. *)
LEMMA SamePlace ==
  ASSUME NEW m \in Memory, NEW n \in Memory, NEW reg \in Nat, NEW k \in Nat,
         MemselSet(m) = MemselSet(n)
  PROVE  Place(m, reg, k) = Place(n, reg, k) /\ Written(m, reg, k) = Written(n, reg, k)
<1>1. Place(m, reg, k) = Place(n, reg, k)
  <2>1. CASE Region(reg) = "SFR"
    BY <2>1 DEF Place
  <2>2. CASE Region(reg) = "XDATA"
    <3>1. /\ Place(m, reg, k) = <<IF MemselSet(m) THEN "CODE" ELSE "XDATA",
                                  Bank(reg), (reg + k) % BankSize>>
          /\ Place(n, reg, k) = <<IF MemselSet(n) THEN "CODE" ELSE "XDATA",
                                  Bank(reg), (reg + k) % BankSize>>
      BY <2>2, PlaceIs, Zenon
    <3>2. CASE MemselSet(m)
      <4>1. MemselSet(n)
        BY <3>2
      <4> QED
        BY <3>1, <3>2, <4>1
    <3>3. CASE ~MemselSet(m)
      <4>1. ~MemselSet(n)
        BY <3>3
      <4> QED
        BY <3>1, <3>3, <4>1
    <3> QED
      BY <3>2, <3>3
  <2>3. CASE Region(reg) = "CODE"
    <3>1. /\ Place(m, reg, k) = <<"CODE", Bank(reg), (reg + k) % BankSize>>
          /\ Place(n, reg, k) = <<"CODE", Bank(reg), (reg + k) % BankSize>>
      BY <2>3, PlaceIs, Zenon
    <3> QED
      BY <3>1, Zenon
  <2>4. CASE Region(reg) \in {"IDATA", "PDATA"}
    <3>1. /\ Place(m, reg, k) = <<Region(reg), 0, (reg + k) % PageSize>>
          /\ Place(n, reg, k) = <<Region(reg), 0, (reg + k) % PageSize>>
      BY <2>4, PlaceIs, Zenon
    <3> QED
      BY <3>1, Zenon
  <2> QED
    BY <2>1, <2>2, <2>3, <2>4, RegionIs
<1> QED
  BY <1>1, WrittenIs

(* A write of CODE does not count on MEMSEL, and one of the other memories  *)
(* leaves it alone; only that of SFRs may change it.                       *)
LEMMA PlaceAfter ==
  ASSUME NEW m \in Memory, NEW reg \in Nat, NEW size \in {1, 2, 4}, NEW v \in Nat,
         NEW k \in 0 .. size - 1
  PROVE  /\ Place(Write(m, reg, size, v), reg, k) = Place(m, reg, k)
         /\ Written(Write(m, reg, size, v), reg, k) = Written(m, reg, k)
<1> DEFINE w == Write(m, reg, size, v)
<1>0. IsWritten(w, m, reg, size, v)
  BY WriteIs
<1> HIDE DEF w
<1>1. w \in Memory /\ k \in Nat /\ \A j \in 0 .. size - 1 : j \in Nat
  BY <1>0 DEF IsWritten
<1>2. CASE Region(reg) = "SFR"
  BY <1>1, <1>2, WrittenIs DEF Place, w
<1>3. CASE Region(reg) = "CODE"
  <2>1. Place(w, reg, k) = Place(m, reg, k)
    <3>1. /\ Place(m, reg, k) = <<"CODE", Bank(reg), (reg + k) % BankSize>>
          /\ Place(w, reg, k) = <<"CODE", Bank(reg), (reg + k) % BankSize>>
      BY <1>1, <1>3, PlaceIs
    <3> QED
      BY <3>1
  <2>2. Written(w, reg, k) = Place(w, reg, k) /\ Written(m, reg, k) = Place(m, reg, k)
    BY <1>1, <1>3, WrittenIs
  <2> QED
    BY <2>1, <2>2 DEF w
<1>4. CASE Region(reg) \notin {"SFR", "CODE"}
  <2>1. \A j \in 0 .. size - 1 : Written(m, reg, j) # PconAt
    BY <1>1, <1>4, WrittenIs
  <2>2. w[PconAt] = m[PconAt]
    BY <1>0, <1>4, <2>1, Locations DEF IsWritten
  <2>3. MemselSet(w) = MemselSet(m)
    BY <2>2 DEF MemselSet
  <2> QED
    BY <1>1, <2>3, SamePlace DEF w
<1> QED
  BY <1>2, <1>3, <1>4

LEMMA WriteThenRead ==
  ASSUME NEW m \in Memory, NEW reg \in Nat, NEW size \in {1, 2, 4}, NEW v \in Nat,
         NEW k \in 0 .. size - 1, Written(m, reg, k) # Nowhere
  PROVE  ReadAt(Write(m, reg, size, v), reg, k) = ByteOf(v, k)
<1> DEFINE w == Write(m, reg, size, v)
<1>1. k \in Nat
  OBVIOUS
<1>2. w \in Memory /\ w[Written(m, reg, k)] = ByteOf(v, k)
  <2>1. IsWritten(w, m, reg, size, v)
    BY WriteIs
  <2> QED
    BY <2>1 DEF IsWritten
<1>3. Place(w, reg, k) = Place(m, reg, k)
  BY PlaceAfter
<1>4. Written(m, reg, k) = Place(m, reg, k)
  BY <1>1, WrittenIs
<1> HIDE DEF w
<1>5. ReadAt(w, reg, k) = w[Place(w, reg, k)]
  BY <1>1, <1>2, <1>3, <1>4, ReadAtIs
<1> QED
  BY <1>2, <1>3, <1>4, <1>5 DEF w

(* With MEMSEL clear, writing back what was read restores all memories.    *)
LEMMA WriteBack ==
  ASSUME NEW m \in Memory, NEW reg \in Nat, NEW size \in {1, 2, 4}, NEW v \in Nat,
         ~MemselSet(m)
  PROVE  Write(Write(m, reg, size, v), reg, size, Read(m, reg, size)) = m
<1> DEFINE w == Write(m, reg, size, v)
           r == Read(m, reg, size)
           u == Write(w, reg, size, r)
<1>0. IsWritten(w, m, reg, size, v)
  BY WriteIs
<1>1. w \in Memory /\ \A k \in 0 .. size - 1 : k \in Nat
  <2> HIDE DEF w
  <2> QED
    BY <1>0 DEF IsWritten
<1>2. r \in Nat /\ \A k \in 0 .. size - 1 : ByteOf(r, k) = ReadAt(m, reg, k)
  BY ReadIs
<1>3. \A k \in 0 .. size - 1 : Written(w, reg, k) = Written(m, reg, k)
  BY PlaceAfter
<1>4. \A l \in Location : (\A k \in 0 .. size - 1 : Written(m, reg, k) # l) => w[l] = m[l]
  <2> HIDE DEF w
  <2>1. ClearMemsel(m) = m
    BY DEF ClearMemsel
  <2> QED
    BY <1>0, <2>1 DEF IsWritten
<1>5. Region(reg) = "CODE" => ~MemselSet(w)
  <2> SUFFICES ASSUME Region(reg) = "CODE" PROVE ~MemselSet(w)
    OBVIOUS
  <2>1. \A k \in 0 .. size - 1 : Written(m, reg, k) # PconAt
    BY <1>1, WrittenIs
  <2>2. w[PconAt] = m[PconAt]
    BY <1>4, <2>1, Locations
  <2> HIDE DEF w
  <2> QED
    BY <2>2 DEF MemselSet
<1> HIDE DEF w, r
<1>a. IsWritten(u, w, reg, size, r)
  BY <1>1, <1>2, WriteIs
<1> HIDE DEF u
<1>6. /\ u \in Memory
      /\ \A k \in 0 .. size - 1 : Written(w, reg, k) # Nowhere => u[Written(w, reg, k)] = ByteOf(r, k)
      /\ \A l \in Location : (\A k \in 0 .. size - 1 : Written(w, reg, k) # l)
           => u[l] = IF Region(reg) = "CODE" THEN ClearMemsel(w)[l] ELSE w[l]
  BY <1>a DEF IsWritten
<1>7. ASSUME NEW l \in Location
      PROVE  u[l] = m[l]
  <2>1. CASE \E k \in 0 .. size - 1 : Written(m, reg, k) = l
    <3>1. PICK k \in 0 .. size - 1 : Written(m, reg, k) = l
      BY <2>1
    <3>2. l # Nowhere
      BY Locations
    <3>3. u[l] = ReadAt(m, reg, k)
      BY <1>2, <1>3, <1>6, <3>1, <3>2
    <3>4. Place(m, reg, k) = l
      BY <1>1, <3>1, <3>2, WrittenIs
    <3>5. ReadAt(m, reg, k) = m[l]
      BY <1>1, <3>2, <3>4, ReadAtIs
    <3> QED
      BY <3>3, <3>5
  <2>2. CASE \A k \in 0 .. size - 1 : Written(m, reg, k) # l
    <3>1. u[l] = IF Region(reg) = "CODE" THEN ClearMemsel(w)[l] ELSE w[l]
      BY <1>3, <1>6, <2>2
    <3>2. Region(reg) = "CODE" => ClearMemsel(w) = w
      BY <1>5 DEF ClearMemsel
    <3> QED
      BY <1>4, <2>2, <3>1, <3>2
  <2> QED
    BY <2>1, <2>2
<1> QED
  BY <1>6, <1>7 DEF Memory, u, w, r

LEMMA InSpace ==
  ASSUME NEW a \in Nat, NEW k \in Nat
  PROVE  \A b \in {BankSize, PageSize, SfrSpace} : ((a % Space) + k) % b = (a + k) % b
<1>1. Banks \in Nat \ {0} /\ BankSize \in Nat \ {0} /\ Space = Banks * BankSize
      /\ Space \in Nat \ {0} /\ PageSize \in Nat \ {0} /\ SfrSpace \in Nat \ {0}
  BY Scale DEF Space
<1>2. Space % PageSize = 0 /\ Space % SfrSpace = 0
  BY ScaleAssumption DEF Space
<1>3. Space % BankSize = 0
  <2>1. Space = BankSize * Banks + 0 /\ 0 \in 0 .. BankSize - 1
    BY <1>1
  <2>2. (BankSize * Banks + 0) % BankSize = 0
    BY <1>1, <2>1, DivUnique
  <2> QED
    BY <2>1, <2>2
<1>4. ASSUME NEW b, b \in Nat \ {0}, Space % b = 0
      PROVE  ((a % Space) + k) % b = (a + k) % b
  <2>1. b \in Nat \ {0} /\ Space \in Nat \ {0} /\ Multiple(Space, b)
    BY <1>1, <1>4 DEF Multiple
  <2>2. SameWithin(Space, b, a, k)
    BY <2>1, ReducedSum
  <2> QED
    BY <2>2 DEF SameWithin
<1> QED
  BY <1>1, <1>2, <1>3, <1>4

(* What is printed of an address names the place that it reaches.          *)
LEMMA NamedIs ==
  ASSUME TypeOK, NEW m \in Memory, ~MemselSet(m), NEW k \in Nat, Place(m, ptr, k) # Nowhere
  PROVE  Named(k) = Place(m, ptr, k)
<1> DEFINE at == PrintedAddress + k
<1>1. ptr \in Nat /\ Space = Banks * BankSize /\ Space \in Nat \ {0}
      /\ BankSize \in Nat \ {0} /\ PageSize \in Nat \ {0} /\ SfrSpace \in Nat \ {0}
      /\ Banks \in Nat \ {0}
  BY Numbers, Scale DEF Space
<1>2. PrintedAddress = ptr % Space
  BY Scale DEF PrintedAddress
<1>4. at % BankSize = (ptr + k) % BankSize /\ at % PageSize = (ptr + k) % PageSize
      /\ at % SfrSpace = (ptr + k) % SfrSpace
  BY <1>1, <1>2, InSpace
<1>5. PrintedAddress \div BankSize = Bank(ptr)
  <2>1. (ptr % (Banks * BankSize)) \div BankSize = (ptr \div BankSize) % Banks
    <3>1. ptr \in Nat /\ Banks \in Nat \ {0} /\ BankSize \in Nat \ {0}
      BY <1>1
    <3>2. \A a \in Nat : \A b \in Nat \ {0} : \A p \in Nat \ {0} :
            (a % (b * p)) \div p = (a \div p) % b
      BY NextDigit
    <3> QED
      BY ONLY <3>1, <3>2, ZenonT(60)
  <2> QED
    BY <1>1, <1>2, <2>1 DEF Bank
<1> HIDE DEF at
<1>6. CASE Region(ptr) = "XDATA"
  BY <1>1, <1>4, <1>5, <1>6, PlaceIs DEF Named, at
<1>7. CASE Region(ptr) = "CODE"
  BY <1>1, <1>4, <1>5, <1>7, PlaceIs DEF Named, at
<1>8. CASE Region(ptr) = "SFR"
  <2>1. Place(m, ptr, k) = SfrAt((ptr + k) % SfrSpace)
    <3>1. Place(m, ptr, k) = Sfr(ptr + k) /\ ptr + k \in Nat
      BY <1>1, <1>8 DEF Place
    <3> QED
      BY <3>1, SfrIs
  <2> QED
    BY <1>4, <1>8, <2>1 DEF Named, at, SfrAt
<1>9. CASE Region(ptr) \in {"IDATA", "PDATA"}
  BY <1>1, <1>4, <1>9, PlaceIs DEF Named, at
<1> QED
  BY <1>6, <1>7, <1>8, <1>9, RegionIs

(* Of a command that has returned ok or failed, MemInv says: *)
LEMMA Returned ==
  ASSUME MemInv, result # "none"
  PROVE  /\ ~ (line.write /\ result = "ok") => mem = before
         /\ line.write /\ result = "ok" =>
              /\ mem = Write(before, ptr, line.size, value)
              /\ shown[1] = Read(before, ptr, line.size)
              /\ shown[2] = Read(mem, ptr, line.size)
              /\ value = ParseHex(line.args[2]).value /\ value < ByteTop ^ line.size
<1>1. FlowInv /\ EffectInv /\ pc = "prompt"
  BY DEF MemInv, FlowInv
<1>2. Stored <=> line.write /\ result = "ok"
  BY <1>1 DEF Stored
<1>3. line.write /\ result = "ok" => Len(shown) = 2 /\ shown # <<>>
  <2>1. shown = <<>> => Len(shown) = 0
    OBVIOUS
  <2>2. line.write /\ result = "ok" => Len(shown) = 2
    BY <1>1 DEF FlowInv
  <2> QED
    BY <2>1, <2>2
<1> QED
  BY <1>1, <1>2, <1>3 DEF EffectInv

(* A command changes nothing but the locations it has printed: every DPX   *)
(* and PCON that it has changed on the way is restored.                    *)
THEOREM OnlyNamedChanges ==
  Spec => []ChangesOnlyNamed
<1>1. MemInv => ChangesOnlyNamed
  <2> SUFFICES ASSUME MemInv, result # "none", ~MemselSet(before),
                      NEW l \in Location, mem[l] # before[l]
               PROVE  l \in NamedLocations /\ result = "ok" /\ line.write
    BY DEF ChangesOnlyNamed
  <2>1. result = "ok" /\ line.write /\ mem = Write(before, ptr, line.size, value)
    BY Returned
  <2>2. TypeOK /\ before \in Memory /\ ptr \in Nat /\ value \in Nat /\ line.size \in {1, 2, 4}
    BY Numbers, LineIs DEF MemInv
  <2>3. PICK k \in 0 .. line.size - 1 : Written(before, ptr, k) = l
    <3>1. (\A k \in 0 .. line.size - 1 : Written(before, ptr, k) # l) => mem[l] = before[l]
      <4>1. IsWritten(mem, before, ptr, line.size, value)
        BY <2>1, <2>2, WriteIs
      <4>2. ClearMemsel(before) = before
        BY DEF ClearMemsel
      <4> QED
        BY <4>1, <4>2 DEF IsWritten
    <3> QED
      BY <3>1
  <2>4. k \in Nat /\ l # Nowhere
    BY <2>2, Locations
  <2>5. Place(before, ptr, k) = l
    BY <2>2, <2>3, <2>4, WrittenIs
  <2>6. Named(k) = l
    BY <2>2, <2>4, <2>5, NamedIs
  <2> QED
    BY <2>1, <2>6 DEF NamedLocations
<1> QED
  BY <1>1, MemInvariance, PTL

(* The number printed after a write is the one typed, unless bytes of it   *)
(* are SFRs that cannot be written.                                        *)
THEOREM WritesShown ==
  Spec => []ShowsWhatItWrote
<1>1. MemInv => ShowsWhatItWrote
  <2> SUFFICES ASSUME MemInv, result = "ok", line.write,
                      ~ (Region(ptr) = "SFR"
                           /\ \E k \in 0 .. line.size - 1 :
                                Sfr(ptr + k) = Nowhere \/ (ptr + k) % SfrSpace \in Protected)
               PROVE  shown[2] = ParseHex(line.args[2]).value
    BY DEF ShowsWhatItWrote
  <2>1. /\ mem = Write(before, ptr, line.size, value)
        /\ shown[2] = Read(mem, ptr, line.size)
        /\ value = ParseHex(line.args[2]).value /\ value < ByteTop ^ line.size
    BY Returned
  <2>2. /\ before \in Memory /\ mem \in Memory /\ ptr \in Nat /\ value \in Nat
        /\ line.size \in {1, 2, 4} /\ ByteTop ^ line.size \in Nat
    BY Numbers, LineIs DEF MemInv
  <2>3. \A k \in 0 .. line.size - 1 : Written(before, ptr, k) # Nowhere
    <3> TAKE k \in 0 .. line.size - 1
    <3>1. k \in Nat
      BY <2>2
    <3>2. Written(before, ptr, k) = Place(before, ptr, k)
      BY <2>2, <3>1, WrittenIs
    <3>3. CASE Region(ptr) = "SFR"
      BY <2>2, <3>1, <3>2, <3>3, PlaceIs
    <3>4. CASE Region(ptr) # "SFR"
      BY <2>2, <3>1, <3>2, <3>4, PlaceIs, Locations
    <3> QED
      BY <3>3, <3>4
  <2>4. \A k \in 0 .. line.size - 1 : ReadAt(mem, ptr, k) = ByteOf(value, k)
    BY <2>1, <2>2, <2>3, WriteThenRead
  <2>5. value \in 0 .. ByteTop ^ line.size - 1
    BY <2>1, <2>2
  <2> QED
    BY <2>1, <2>2, <2>4, <2>5, ReadsBack
<1> QED
  BY <1>1, MemInvariance, PTL

(* Typing back the number a write has printed first undoes it.             *)
THEOREM WritesUndone ==
  Spec => []Undoable
<1>1. MemInv => Undoable
  <2> SUFFICES ASSUME MemInv, result = "ok", line.write, ~MemselSet(before)
               PROVE  Write(mem, ptr, line.size, shown[1]) = before
    BY DEF Undoable
  <2>1. /\ mem = Write(before, ptr, line.size, value)
        /\ shown[1] = Read(before, ptr, line.size)
    BY Returned
  <2>2. before \in Memory /\ ptr \in Nat /\ value \in Nat /\ line.size \in {1, 2, 4}
    BY Numbers, LineIs DEF MemInv
  <2> QED
    BY <2>1, <2>2, WriteBack
<1> QED
  BY <1>1, MemInvariance, PTL

(* Every number that is printed can be typed, and is taken for what it is. *)
THEOREM PrintedIsTyped ==
  Spec => []TypedBack
<1>1. MemInv => TypedBack
  <2> SUFFICES ASSUME MemInv, NEW k \in DOMAIN shown
               PROVE  LET p == ParseHex(PrintHex(shown[k], line.size * ByteDigits))
                      IN  p.ok /\ p.value = shown[k]
    BY DEF TypedBack
  <2> DEFINE v == shown[k]
             min == line.size * ByteDigits
             top == ByteTop ^ line.size
  <2>1. TypeOK /\ line.size \in {1, 2, 4} /\ v \in 0 .. top - 1
    BY LineIs DEF MemInv, TypeOK
  <2>2. top \in Nat /\ top = Base ^ min /\ min \in 1 .. MaxDigits
    BY <2>1, Numbers, PowersAre
  <2> HIDE DEF v, min, top
  <2>3. min \in 0 .. MaxDigits /\ MaxDigits \in min .. MaxDigits /\ MaxDigits \in 0 .. MaxDigits
    BY <2>2, Scale
  <2>4. Base ^ min = BasePower[min] /\ Base ^ MaxDigits = BasePower[MaxDigits]
        /\ BasePower[min] \in Nat /\ BasePower[MaxDigits] \in Nat
    BY <2>3, PowersAre
  <2>5. BasePower[min] <= BasePower[MaxDigits]
    BY <2>3, Powers, PowersGrow
  <2>6. v \in Nat /\ v < Base ^ MaxDigits
    BY <2>1, <2>2, <2>4, <2>5
  <2>7. ParseHex(PrintHex(v, min)) = [ok |-> TRUE, value |-> v]
    BY <2>2, <2>6, PrintHexIs
  <2> QED
    BY <2>7 DEF v, min
<1> QED
  BY <1>1, MemInvariance, PTL

=============================================================================
