----------------------------- MODULE MonitorMem -----------------------------
(***************************************************************************)
(* The memory commands of the monitor (monitor/main.c): mrb, mrh, mrw,     *)
(* mwb, mwh and mww, on the accessors readb .. writel.  An address selects *)
(* one of the 8051's memories by its top bits and a bank of it by DPX; the *)
(* CODE memory is written through MOVX with PCON.MEMSEL set.  DPX and PCON *)
(* are SFRs, and so within the reach of the commands themselves.           *)
(*                                                                         *)
(* Sizes are scaled: the chips have Base 16, ByteDigits 2, AddrDigits 6,   *)
(* MaxDigits 8, BankSize 0x10000, PageSize and SfrSpace 0x100.             *)
(***************************************************************************)
EXTENDS Integers, Sequences

CONSTANTS
  Base, ByteDigits,   \* a hexadecimal digit, and digits in a byte
  AddrDigits,         \* digits of ADDR_MAX
  MaxDigits,          \* digits that parse_hex takes
  BankSize, PageSize, SfrSpace,
  DPX, PCON, Memsel,  \* two SFRs, and the weight of MEMSEL in PCON
  Protected,          \* the SFRs that set_sfr does not write
  Lines,              \* the commands: [write, size, args], as parse_cmdline gives them
  Contents,           \* what the memories may hold at first
  MaxRuns             \* bound: the number of commands

ByteTop  == Base ^ ByteDigits
Byte     == 0 .. ByteTop - 1
AddrTop  == Base ^ AddrDigits          \* ADDR_MAX + 1
Banks    == AddrTop \div (8 * BankSize)
X        == -1                         \* the character 'x' or 'X'

ASSUME ScaleAssumption ==
  /\ Base \in Nat \ {0} /\ ByteDigits \in Nat \ {0} /\ MaxDigits = 4 * ByteDigits
  /\ AddrTop = 8 * Banks * BankSize /\ Banks \in Byte \ {0}
  /\ {BankSize, PageSize, SfrSpace} \subseteq Nat \ (0 .. 3)
  /\ (Banks * BankSize) % PageSize = 0 /\ (Banks * BankSize) % SfrSpace = 0
  /\ MaxRuns \in Nat
ASSUME SfrAssumption ==
  /\ {DPX, PCON} \cup Protected \subseteq SfrSpace \div 2 .. SfrSpace - 1
  /\ {DPX, PCON} \cap Protected = {} /\ DPX # PCON
  /\ Memsel \in Byte \ {0} /\ ByteTop % (2 * Memsel) = 0
(* What ^ means for these numbers: the provers do not know it. *)
ASSUME PowerAssumption ==
  /\ \A b \in {Base, ByteTop} :
       /\ b ^ 0 = 1
       /\ \A n \in 0 .. MaxDigits - 1 : b ^ n \in Nat \ {0} /\ b ^ (n + 1) = b * b ^ n
  /\ \A n \in {1, 2, 4} : ByteTop ^ n = Base ^ (n * ByteDigits)
ASSUME LineAssumption ==
  \A l \in Lines :
    /\ l.write \in BOOLEAN /\ l.size \in {1, 2, 4}
    /\ l.args \in Seq(Seq(Int)) /\ Len(l.args) <= 2

VARIABLES
  mem,      \* all memories: a function from locations to bytes
  pc,       \* where the handler is; "prompt" when no command runs
  line,     \* its command
  ptr, value,
  shown,    \* the numbers it has printed
  result,   \* what it has returned: "none", "ok" or "error"
  before,   \* history: mem when the command was entered
  runs

vars == <<mem, pc, line, ptr, value, shown, result, before, runs>>

-----------------------------------------------------------------------------
(* Numbers as they are typed and printed; a character is a digit, X or     *)
(* anything else.                                                          *)
Digit == 0 .. Base - 1
Prefixed(str) == Len(str) >= 2 /\ str[1] = 0 /\ str[2] = X

Number(digits) ==
  LET upTo[n \in 0 .. Len(digits)] ==
        IF n = 0 THEN 0 ELSE upTo[n - 1] * Base + digits[n]
  IN  upTo[Len(digits)]

Error == [ok |-> FALSE, value |-> 0]

(* Mutant: the prefix counts as two digits. *)
ParseHex_PrefixCounts(str) ==
  LET digits == IF Prefixed(str) THEN SubSeq(str, 3, Len(str)) ELSE str
  IN  IF Len(str) > MaxDigits \/ \E n \in DOMAIN digits : digits[n] \notin Digit
        THEN Error
        ELSE [ok |-> TRUE, value |-> Number(digits)]

ParseHex(str) ==
  LET digits == IF Prefixed(str) THEN SubSeq(str, 3, Len(str)) ELSE str
  IN  IF Len(digits) > MaxDigits \/ \E n \in DOMAIN digits : digits[n] \notin Digit
        THEN Error
        ELSE [ok |-> TRUE, value |-> Number(digits)]

PrintHex(v, min) ==
  LET fits == {n \in 1 .. MaxDigits : n >= min /\ v < Base ^ n}
      n == CHOOSE n \in fits : \A k \in fits : n <= k
  IN  <<0, X>> \o [k \in 1 .. n |-> (v \div Base ^ (n - k)) % Base]

-----------------------------------------------------------------------------
(* Locations, and the one that byte k of an access at reg reaches.  A      *)
(* pointer of the compiler has the kind of memory in its top bits and is   *)
(* incremented within 16 bits.                                             *)
Location ==
  ({"XDATA", "CODE"} \X (0 .. Banks - 1) \X (0 .. BankSize - 1))
    \cup ({"IDATA", "PDATA"} \X {0} \X (0 .. PageSize - 1))
    \cup ({"SFR"} \X {0} \X (SfrSpace \div 2 .. SfrSpace - 1))

ASSUME ContentsAssumption == Contents \subseteq [Location -> Byte]

Nowhere == <<"none", 0, 0>>

SfrAt(n) == <<"SFR", 0, n>>
DpxAt == SfrAt(DPX)
PconAt == SfrAt(PCON)

Region(reg) ==
  IF reg < AddrTop \div 4 THEN "XDATA"
  ELSE IF reg < 3 * (AddrTop \div 8) THEN "IDATA"
  ELSE IF reg < AddrTop \div 2 THEN "PDATA"
  ELSE IF reg < 3 * (AddrTop \div 4) THEN "CODE"
  ELSE "SFR"

(* (reg >> 16) & 0x1f *)
Bank(reg) == (reg \div BankSize) % Banks

MemselSet(m) == (m[PconAt] \div Memsel) % 2 = 1

(* What a MOVX, MOVC or indirect access reaches, by the context in m. *)
Pointed(m, kind, n) ==
  CASE kind = "XDATA" -> <<IF MemselSet(m) THEN "CODE" ELSE "XDATA", m[DpxAt], n % BankSize>>
    [] kind = "CODE"  -> <<"CODE", m[DpxAt], n % BankSize>>
    [] OTHER          -> <<kind, 0, n % PageSize>>

(* get_sfr and set_sfr: the address is truncated to a byte, and the lower  *)
(* half of the range has no SFRs.                                          *)
Sfr(n) == IF n % SfrSpace >= SfrSpace \div 2 THEN SfrAt(n % SfrSpace) ELSE Nowhere

WithBank(m, reg) == [m EXCEPT ![DpxAt] = Bank(reg)]

(* readb, readw, readl: the lowest byte first. *)
ReadAt(m, reg, k) ==
  LET at == IF Region(reg) = "SFR" THEN Sfr(reg + k)
                                   ELSE Pointed(WithBank(m, reg), Region(reg), reg + k)
  IN  IF at = Nowhere THEN 0 ELSE m[at]

Read(m, reg, size) ==
  LET upTo[k \in 0 .. size] ==
        IF k = 0 THEN 0 ELSE upTo[k - 1] + ReadAt(m, reg, k - 1) * ByteTop ^ (k - 1)
  IN  upTo[size]

(* Mutant: the shift of the fourth byte is that of the third. *)
ByteOf_Shift(v, k) == (v \div ByteTop ^ (IF k = 3 THEN 2 ELSE k)) % ByteTop

ByteOf(v, k) == (v \div ByteTop ^ k) % ByteTop

(* Mutant: MEMSEL stays set. *)
ClearMemsel_Left(m) == m

SetMemsel(m)   == IF MemselSet(m) THEN m ELSE [m EXCEPT ![PconAt] = @ + Memsel]
ClearMemsel(m) == IF MemselSet(m) THEN [m EXCEPT ![PconAt] = @ - Memsel] ELSE m

(* Memory with the bytes of v stored at the locations at[0], at[1] ...     *)
Store(m, at, v) ==
  [l \in Location |->
     IF \E k \in DOMAIN at : at[k] = l
       THEN ByteOf(v, CHOOSE k \in DOMAIN at : at[k] = l)
       ELSE m[l]]

(* writeb, writew, writel: DPX is saved, changed and restored around the   *)
(* access, and for CODE MEMSEL is set and cleared.                         *)
SfrWritten(n) == IF n % SfrSpace \in Protected THEN Nowhere ELSE Sfr(n)

(* Mutant: MEMSEL is not set. *)
Context_NoMemsel(m, reg) == WithBank(m, reg)

Context(m, reg) ==
  IF Region(reg) = "CODE" THEN SetMemsel(WithBank(m, reg)) ELSE WithBank(m, reg)

Written(m, reg, k) ==
  IF Region(reg) = "SFR" THEN SfrWritten(reg + k)
  ELSE Pointed(Context(m, reg), IF Region(reg) = "CODE" THEN "XDATA" ELSE Region(reg), reg + k)

Write(m, reg, size, v) ==
  LET at   == [k \in 0 .. size - 1 |-> Written(m, reg, k)]
      done == [Store(Context(m, reg), at, v) EXCEPT ![DpxAt] = m[DpxAt]]
  IN  CASE Region(reg) = "SFR"  -> Store(m, at, v)
        [] Region(reg) = "CODE" -> ClearMemsel(done)
        [] OTHER                -> done

-----------------------------------------------------------------------------
NoLine == [write |-> FALSE, size |-> 1, args |-> <<>>]

Init ==
  /\ mem \in Contents /\ before = mem
  /\ pc = "prompt" /\ line = NoLine /\ result = "none"
  /\ ptr = 0 /\ value = 0 /\ shown = <<>> /\ runs = 0

Return(r) == pc' = "prompt" /\ result' = r

(* mrb_handler .. mww_handler: the number of words is checked first.       *)
Command(l) ==
  /\ pc = "prompt" /\ runs < MaxRuns
  /\ line' = l /\ before' = mem /\ shown' = <<>> /\ runs' = runs + 1
  /\ IF Len(l.args) < (IF l.write THEN 2 ELSE 1)
       THEN Return("error")
       ELSE pc' = "address" /\ result' = "none"
  /\ UNCHANGED <<mem, ptr, value>>

(* Mutant: no comparison with ADDR_MAX. *)
ParseAddress_NoLimit ==
  /\ pc = "address"
  /\ LET p == ParseHex(line.args[1])
     IN  IF p.ok THEN ptr' = p.value /\ pc' = "read" /\ UNCHANGED result
                 ELSE Return("error") /\ UNCHANGED ptr
  /\ UNCHANGED <<mem, line, value, shown, before, runs>>

ParseAddress ==
  /\ pc = "address"
  /\ LET p == ParseHex(line.args[1])
     IN  IF p.ok /\ p.value < AddrTop
           THEN ptr' = p.value /\ pc' = "read" /\ UNCHANGED result
           ELSE Return("error") /\ UNCHANGED ptr
  /\ UNCHANGED <<mem, line, value, shown, before, runs>>

(* Region and address are printed, then what is there.                     *)
ReadAndPrint ==
  /\ pc = "read"
  /\ shown' = Append(shown, Read(mem, ptr, line.size))
  /\ IF line.write /\ shown = <<>> THEN pc' = "value" /\ UNCHANGED result
                                   ELSE Return("ok")
  /\ UNCHANGED <<mem, line, ptr, value, before, runs>>

(* max_value; a word has none.                                             *)
TooLarge(v) == line.size \in {1, 2} /\ v >= ByteTop ^ line.size

ParseValue ==
  /\ pc = "value"
  /\ LET p == ParseHex(line.args[2])
     IN  IF p.ok /\ ~TooLarge(p.value)
           THEN value' = p.value /\ pc' = "write" /\ UNCHANGED result
           ELSE Return("error") /\ UNCHANGED value
  /\ UNCHANGED <<mem, line, ptr, shown, before, runs>>

WriteMemory ==
  /\ pc = "write"
  /\ mem' = Write(mem, ptr, line.size, value)
  /\ pc' = "read"
  /\ UNCHANGED <<line, ptr, value, shown, result, before, runs>>

Next ==
  \/ \E l \in Lines : Command(l)
  \/ ParseAddress \/ ReadAndPrint \/ ParseValue \/ WriteMemory

Spec == Init /\ [][Next]_vars

-----------------------------------------------------------------------------
(* Every variable has its type: the memories always hold bytes, an address *)
(* that is used is at most ADDR_MAX, and a number printed has size bytes.  *)
TypeOK ==
  /\ mem \in [Location -> Byte] /\ before \in [Location -> Byte]
  /\ pc \in {"prompt", "address", "read", "value", "write"}
  /\ line \in Lines \cup {NoLine} /\ result \in {"none", "ok", "error"}
  /\ ptr \in 0 .. AddrTop - 1 /\ value \in 0 .. Base ^ MaxDigits - 1
  /\ Len(shown) <= 2 /\ \A k \in DOMAIN shown : shown[k] \in 0 .. ByteTop ^ line.size - 1
  /\ runs \in 0 .. MaxRuns

(* The inductive invariant of all that follows.  How far a command is shows *)
(* in what it has printed, and what is in memory and what is printed follow *)
(* from what was there before it: a command writes at most once, and after  *)
(* it has read.                                                             *)
Stored == line.write /\ (result = "ok" \/ (pc = "read" /\ shown # <<>>))

FlowInv ==
  /\ shown \in Seq(Nat)
  /\ pc # "prompt" =>
       /\ result = "none" /\ line \in Lines
       /\ Len(line.args) >= (IF line.write THEN 2 ELSE 1)
  /\ pc = "address" => shown = <<>>
  /\ pc = "read" => shown = <<>> \/ (line.write /\ Len(shown) = 1)
  /\ pc \in {"value", "write"} => line.write /\ Len(shown) = 1
  /\ result = "ok" => Len(shown) = (IF line.write THEN 2 ELSE 1)
  /\ result = "error" => Len(shown) <= 1

EffectInv ==
  /\ mem = IF Stored THEN Write(before, ptr, line.size, value) ELSE before
  /\ shown # <<>> => shown[1] = Read(before, ptr, line.size)
  /\ Len(shown) = 2 => shown[2] = Read(mem, ptr, line.size)
  /\ pc = "write" \/ Stored =>
       value = ParseHex(line.args[2]).value /\ value < ByteTop ^ line.size

MemInv == TypeOK /\ FlowInv /\ EffectInv

(* What the user is told: the name of the region and the address within    *)
(* it, and so the location that byte k of the command's number has.        *)
PrintedAddress == ptr % (AddrTop \div 8)

Named(k) ==
  LET n == PrintedAddress + k
  IN  CASE Region(ptr) \in {"XDATA", "CODE"} ->
             <<Region(ptr), PrintedAddress \div BankSize, n % BankSize>>
        [] Region(ptr) = "SFR" -> <<"SFR", 0, n % SfrSpace>>
        [] OTHER -> <<Region(ptr), 0, n % PageSize>>

NamedLocations == {Named(k) : k \in 0 .. line.size - 1}

(* A command changes no location but the ones it has printed, and a number *)
(* that is wrong or too large nothing at all: DPX and PCON are as before   *)
(* when CODE or a bank has been written, unless the command names them.    *)
(* With MEMSEL set by the user nothing of this is promised.                *)
ChangesOnlyNamed ==
  result # "none" /\ ~MemselSet(before)
    => \A l \in Location :
         mem[l] # before[l] => l \in NamedLocations /\ result = "ok" /\ line.write

(* The number that a write prints last is the one that was typed, wherever *)
(* all bytes of it can be written: CODE is written as data and read as     *)
(* code, and SFRs are written and read one by one.                         *)
ShowsWhatItWrote ==
  result = "ok" /\ line.write
    => \/ shown[2] = ParseHex(line.args[2]).value
       \/ Region(ptr) = "SFR"
            /\ \E k \in 0 .. line.size - 1 :
                 Sfr(ptr + k) = Nowhere \/ (ptr + k) % SfrSpace \in Protected

(* Typing back the number that a write has printed first undoes it: all    *)
(* memories are again what they were.                                      *)
Undoable ==
  result = "ok" /\ line.write /\ ~MemselSet(before)
    => Write(mem, ptr, line.size, shown[1]) = before

(* What has been printed can be typed: print_hex never prints a number     *)
(* that parse_hex refuses or takes for another one.                        *)
TypedBack ==
  \A k \in DOMAIN shown :
    LET p == ParseHex(PrintHex(shown[k], line.size * ByteDigits))
    IN  p.ok /\ p.value = shown[k]
=============================================================================
