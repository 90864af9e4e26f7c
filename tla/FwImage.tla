------------------------------- MODULE FwImage -------------------------------
(***************************************************************************)
(* The firmware image formats, as the tools that write and read them see   *)
(* them: make_image.py builds an image from a binary, validate_fw.py reads *)
(* one back with the parsers generated from asm_fw.ksy and prom_fw.ksy.    *)
(*                                                                         *)
(* A file is a sequence of cells.  A cell is a byte, of Base values, except*)
(* that a magic string is one cell: the header magics and the body magics  *)
(* are the numbers of the chips, and "_PT_" is the cell PT, which no byte  *)
(* equals.  Offsets are those of the files, from zero, in cells; a 16 bit  *)
(* field has two cells and a 32 bit one four, so that a length that        *)
(* overflows its field does so here as well.  Register addresses are given *)
(* relative to 0x5040.                                                     *)
(***************************************************************************)
EXTENDS Integers, Sequences, SequencesExt

CONSTANTS Base,        \* values of a byte
          VersionEnd,  \* 0x86, the end of the version in a binary
          MagicAt,     \* 0x87, where a binary carries its magic
          DataLen,     \* 0x8000, what the bypass header makes the ROM load
          DelayTo,     \* 0x400, the header length the delay writes fill up to
          SigSize,     \* 0x20, bytes of a signature
          Page         \* 0x100, the unit of a Promontory firmware

ASSUME ImageAssumption ==
    /\ {Base, VersionEnd, MagicAt, DataLen, DelayTo, SigSize, Page} \subseteq Nat \ {0}
    /\ VersionEnd < MagicAt

(* Powers up to that of a 32 bit field: what the definition of ^ says.     *)
ASSUME PowerAssumption ==
    /\ Base^0 = 1
    /\ \A n \in 0..3 : Base^n \in Nat \ {0} /\ Base^(n + 1) = Base * Base^n

PT       == Base      \* "_PT_"
CC       == Base - 4  \* the type of a config word that writes a register
HeadSize == 7         \* two words, the length and the magic
Slice(f, a, b) == SubSeq(f, a + 1, b)          \* f[a:b]
Zeros(n)       == [k \in 1..n |-> 0]

(* struct.pack and its inverse, little-endian, for 1, 2 and 4 bytes.       *)
LE(n, v) == [k \in 1..n |-> (v \div Base^(k - 1)) % Base]
Val(f, a, n) ==
    CASE n = 1 -> f[a + 1]
      [] n = 2 -> f[a + 1] + Base * f[a + 2]
      [] n = 4 -> f[a + 1] + Base * (f[a + 2] + Base * (f[a + 3] + Base * f[a + 4]))

(* The sum of a sequence, by halves.                                       *)
Total(d) ==
    LET t[part \in (0..Len(d)) \X (0..Len(d))] ==
            LET a == part[1]
                b == part[2]
                m == (a + b) \div 2
            IN  CASE a = b     -> 0
                  [] a + 1 = b -> d[b]
                  [] OTHER     -> t[<<a, m>>] + t[<<m, b>>]
    IN  t[<<0, Len(d)>>]
checksum(d) == Total(d) % Base

(* zlib.crc32: every change of a single byte changes it, as the odd weights*)
(* do here, and other inputs of an instance do not collide.                *)
crc32(d) == (7 + Total([k \in DOMAIN d |-> (2 * k + 1) * (d[k] + 1)])) % Base^4
Sealed(d) == <<checksum(d)>> \o LE(4, crc32(d))

(***************************************************************************)
(* make_image.py                                                           *)
(***************************************************************************)
CHIP_INFO == [ASM1042 |-> 1, ASM1042A |-> 2, ASM1142 |-> 3, ASM2142 |-> 4,
              ASM3242 |-> 5]
LenSize(magic) == IF magic \in {1, 2, 3} THEN 2 ELSE 4

(* The writes that make the ROM of an ASM3242 load the code itself, with   *)
(* those that pass the time while it does: <<address, size, value>>.       *)
BypassWrites(flash, delay) ==
    << <<28, 2, DataLen % Base^2>>, <<30, 1, DataLen \div Base^2>>,
       <<32, 1, 1>>, <<33, 1, 3>>, <<34, 1, 3>>, <<35, 1, 0>>, <<36, 1, 1>>,
       <<38, 2, 0>>, <<40, 1, 0>>,
       <<43, 2, flash % Base^2>>, <<45, 1, flash \div Base^2>>, <<46, 1, 13>> >>
    \o [k \in 1..delay |-> <<192, 4, Base>>]
    \o << <<0, 1, 3>>, <<2, 1, 1>> >>

ConfigWord(w) == <<CC, w[2]>> \o LE(2, w[1]) \o LE(4, w[3])

(* A cell holds the values that are written and, squared, the addresses;   *)
(* the length that is filled up to has room for all writes and fits its    *)
(* field; what the ROM loads has a length of 24 bits.                      *)
ASSUME BypassAssumption ==
    /\ Base >= 16
    /\ HeadSize + 16 + 8 * 14 <= DelayTo /\ DelayTo < Base^2
    /\ DataLen < Base^3

(* Where the code will be in the flash: behind the header, its checksums   *)
(* and the length of the body.  (Mutant: the length is forgotten.)         *)
FlashAddr_NoLen(fixed, delay) == fixed + 8 * (14 + delay) + 5
FlashAddr(fixed, delay)       == fixed + 8 * (14 + delay) + 9

gen_header(chip, bypass) ==
    LET magic   == CHIP_INFO[chip]
        pad     == IF LenSize(magic) = 4 THEN Zeros(16) ELSE <<>>
        fixed   == HeadSize + Len(pad)
        delay   == (DelayTo - (fixed + 8 * 14)) \div 8
        writes  == IF chip = "ASM3242" /\ bypass
                     THEN BypassWrites(FlashAddr(fixed, delay), delay) ELSE <<>>
        data    == pad \o FlattenSeq([k \in DOMAIN writes |-> ConfigWord(writes[k])])
        header  == LE(2, 0) \o LE(2, 1) \o LE(2, HeadSize + Len(data)) \o <<magic>> \o data
    IN  header \o Sealed(header)

(* struct.pack raises when the length of the binary does not fit.          *)
Fits(chip, code) == Len(code) < Base^LenSize(CHIP_INFO[chip])

(* Mutant: no null signature.                                              *)
gen_body_Unsigned(chip, code) ==
    LET magic == CHIP_INFO[chip]
    IN  LE(LenSize(magic), Len(code)) \o code \o <<magic>> \o Sealed(code)

gen_body(chip, code) ==
    LET magic == CHIP_INFO[chip]
        null  == <<0, 3 * 2, 0>> \o Zeros(SigSize)
    IN  LE(LenSize(magic), Len(code)) \o code \o <<magic>> \o Sealed(code)
          \o (IF magic = 5 THEN null ELSE <<>>)

(* pack_into raises when the binary ends before the magic it should carry. *)
Stampable(code) == Len(code) > MagicAt
add_fw_meta(chip, code) == [code EXCEPT ![MagicAt + 1] = CHIP_INFO[chip]]

(***************************************************************************)
(* asm_fw.ksy and validate_fw.xhc: where the parser finds the parts, then  *)
(* the conditions under which it can read them and the checks of the       *)
(* script, in the order in which they are met.                             *)
(***************************************************************************)
HeaderLen(f) == Val(f, 4, 2)
BodyAt(f)    == HeaderLen(f) + 5
CodeAt(f)    == BodyAt(f) + LenSize(f[7])
CodeEnd(f)   == CodeAt(f) + Val(f, BodyAt(f), LenSize(f[7]))
XhcCode(f)   == Slice(f, CodeAt(f), CodeEnd(f))

(* Where the config words are that write a register, and what they write.  *)
ConfigWords(f) ==
    LET Write(a) == IF f[a + 1] = CC THEN <<a>> ELSE <<>>
    IN  FlattenSeq([k \in 1..(HeaderLen(f) - HeadSize) \div 8 |-> Write(HeadSize + 8 * (k - 1))])
Writes(f) ==
    LET Written(a) == <<Val(f, a + 2, 2), f[a + 2], Val(f, a + 4, f[a + 2])>>
        at == ConfigWords(f)
    IN  [k \in DOMAIN at |-> Written(at[k])]

SigRead(f, sig) ==
    /\ Len(f) >= sig + 2
    /\ Len(f) >= sig + (f[sig + 2] \div 2) + SigSize

(* Mutant: the checksums of the header are not checked.                    *)
XhcAccepts_CodeOnly(f) ==
    /\ Len(f) >= HeadSize
    /\ HeaderLen(f) >= HeadSize /\ (HeaderLen(f) - HeadSize) % 8 = 0
    /\ Len(f) >= BodyAt(f)
    /\ f[7] \in {1, 2, 3, 4, 5}
    /\ Len(f) >= CodeAt(f)
    /\ Len(f) >= CodeEnd(f) + 1 + 5
    /\ CodeEnd(f) - CodeAt(f) >= VersionEnd
    /\ Slice(f, CodeEnd(f) + 1, CodeEnd(f) + 6) = Sealed(XhcCode(f))
    /\ f[7] = 5 => SigRead(f, CodeEnd(f) + 1 + 5)
    /\ \A k \in DOMAIN ConfigWords(f) : f[ConfigWords(f)[k] + 2] \in {1, 2, 4}

XhcAccepts(f) ==
    /\ Len(f) >= HeadSize
    /\ HeaderLen(f) >= HeadSize /\ (HeaderLen(f) - HeadSize) % 8 = 0
    /\ Len(f) >= BodyAt(f)
    /\ f[7] \in {1, 2, 3, 4, 5}
    /\ Len(f) >= CodeAt(f)
    /\ Len(f) >= CodeEnd(f) + 1 + 5
    /\ CodeEnd(f) - CodeAt(f) >= VersionEnd
    /\ Slice(f, HeaderLen(f), BodyAt(f)) = Sealed(Slice(f, 0, HeaderLen(f)))
    /\ Slice(f, CodeEnd(f) + 1, CodeEnd(f) + 6) = Sealed(XhcCode(f))
    /\ f[7] = 5 => SigRead(f, CodeEnd(f) + 1 + 5)
    /\ \A k \in DOMAIN ConfigWords(f) : f[ConfigWords(f)[k] + 2] \in {1, 2, 4}

(***************************************************************************)
(* prom_fw.ksy and validate_fw.promontory.  The length and the checksum    *)
(* have two cells.                                                         *)
(***************************************************************************)
PromHead == 5
PromCode(f) ==
    LET n == Val(f, 1, 2) - PromHead
    IN  Slice(f, PromHead, PromHead + n - (n % Page))

PromAccepts(f) ==
    LET n    == Val(f, 1, 2) - PromHead
        body == Slice(f, PromHead, PromHead + n)
        size == n - (n % Page)
    IN  /\ Len(f) >= PromHead
        /\ n >= 0 /\ Len(f) >= PromHead + n
        /\ size > MagicAt
        /\ Total(PromCode(f)) % Base^2 = Val(f, 3, 2)
        /\ n % Page # 0 => SigRead(body, size)

(* validate_fw.main: the verdict, and what -e writes.                      *)
IsProm(f) == f # <<>> /\ f[1] = PT
Good(code, writes) == [ok |-> TRUE, code |-> code, writes |-> writes]
Refused == [ok |-> FALSE, code |-> <<>>, writes |-> <<>>]
Validated(f) ==
    IF IsProm(f)
      THEN IF PromAccepts(f) THEN Good(PromCode(f), <<>>) ELSE Refused
      ELSE IF XhcAccepts(f) THEN Good(XhcCode(f), Writes(f)) ELSE Refused

(***************************************************************************)
(* The boot ROM, known from the writes the bypass header makes: the write  *)
(* of CSR loads DATA_LEN bytes of the flash, at FLASH_ADDR, into the code  *)
(* RAM, and the write of CPU_EXEC_CTRL runs what was loaded.               *)
(***************************************************************************)
IndexOf(ws, reg) == CHOOSE k \in DOMAIN ws : ws[k][1] = reg
Setting(ws, reg) == ws[IndexOf(ws, reg)][3]
RomRuns(f) ==
    LET ws   == Writes(f)
        csr  == IndexOf(ws, 46)
        from == Setting(ws, 43) + Setting(ws, 45) * Base^2
        to   == from + Setting(ws, 28) + Setting(ws, 30) * Base^2
    IN  IF {28, 30, 43, 45} \subseteq {ws[k][1] : k \in 1..csr - 1} /\ IndexOf(ws, 2) > csr
          THEN Slice(f, from, IF to < Len(f) THEN to ELSE Len(f)) ELSE <<>>
=============================================================================
