----------------------------- MODULE HwCodeWrite -----------------------------
(***************************************************************************)
(* AsmDev.hw_code_write (tools/asm_tool.py): the host writes a program     *)
(* into the CODE RAM of an ASMedia xHC through the address/data window in  *)
(* PCI configuration space (and BAR0), one word at a time, and on the      *)
(* second-generation chips reads it back and asserts that it arrived.      *)
(*                                                                         *)
(* Addresses and lengths are counted in 16-bit words.  Q is the number of  *)
(* words in a 16 KiB quarter bank (0x2000 in the chips), so that           *)
(*    2Q = 0x8000 bytes   4Q = 0x10000 bytes   6Q = 0x18000 bytes.         *)
(*                                                                         *)
(* A step is one transaction of the host or one of the device.  The        *)
(* window is posted: the device takes the data word, stores it and moves   *)
(* the address register in a step of its own, which is why the code polls  *)
(* CODE_RAM_ADDR after every word.                                         *)
(***************************************************************************)
EXTENDS Integers

CONSTANTS
  Gen,     \* hw_code_and_mmio of the chip: 1 (ASM1142 kind), 2 (ASM2142 kind)
  Q,       \* words in a quarter bank
  Word,    \* the values of a 16-bit word that the properties tell apart
  Zero,    \* the word 0x0000
  None,    \* no data word on this lane
  Images   \* the programs: [len |-> n, word |-> a function on 0..n-1]

ASSUME GenAssumption == Gen \in {1, 2}
ASSUME QAssumption == Q \in Nat \ {0}
ASSUME WordAssumption == Zero \in Word /\ None \notin Word
ASSUME ImagesAssumption ==
  \A c \in Images : c.len \in Nat /\ c.word \in [0 .. c.len - 1 -> Word]

(* code_size_limit, and the CODE RAM of the chip, which has that size. *)
CodeSizeLimit == IF Gen = 1 THEN 4 * Q ELSE 6 * Q
RamAddr == 0 .. CodeSizeLimit - 1

(* CODE_RAM_ADDR: bit 15 is stuck at 0 in generation 1 and stands for bit  *)
(* 16 of the real address in generation 2.                                 *)
AddrRegSize == IF Gen = 1 THEN 2 * Q ELSE 4 * Q

VARIABLES
  ram,       \* CODE RAM
  addrReg,   \* CODE_RAM_ADDR
  pend,      \* data words the window has accepted and not stored yet
  rdData,    \* CODE_RAM_READ_DATA (generation 2)
  wen,       \* CODE_RAM_WRITE_ENABLE, in CPU_MISC or 0x1500E
  access,    \* CODE_ACCESS (0xEF): "off", "write" or "read" (generation 2)
  wpc,       \* where hw_code_write is
  code,      \* its argument code
  base,      \* its argument addr
  i,         \* its loop counter
  readback   \* its readback buffer

deviceVars == <<ram, addrReg, pend, rdData, wen, access>>
frameVars  == <<wpc, code, base, i, readback>>
hwVars     == <<deviceVars, frameVars>>

NoStore  == [lo |-> None, hi |-> None]
NoCode   == [len |-> 0, word |-> [k \in {} |-> Zero]]
NoData   == [bank0 |-> Zero, bank1 |-> Zero, bank2 |-> Zero, bank3 |-> Zero]
NoBuffer == [k \in {} |-> Zero]

WritePhases  == {"addr", "data", "wait"}
VerifyPhases == {"rdAddr", "rdTrig", "rdWait"}
PcValues == {"idle", "enable", "access", "rdEnable", "assert", "disAccess",
             "disable", "failed", "done"} \cup WritePhases \cup VerifyPhases

-----------------------------------------------------------------------------
(* Address arithmetic: the bits of a byte offset, on word offsets.         *)

(* n & (1 << 15) *)
Bit15(n) == n \in 2*Q .. 4*Q - 1 \/ n \in 6*Q .. 8*Q - 1
(* n & (1 << 16) *)
Bit16(n) == n \in 4*Q .. 8*Q - 1
(* n & 0x7ffe *)
Low15(n) == IF n < 2*Q THEN n
            ELSE IF n < 4*Q THEN n - 2*Q
            ELSE IF n < 6*Q THEN n - 4*Q
            ELSE IF n < 8*Q THEN n - 6*Q
            ELSE n - 8*Q

(* Mutant: the counter goes into CODE_RAM_ADDR unmasked. *)
Masked_Unmasked(n) == n

(* masked_addr *)
Masked(n) == IF Gen = 2 /\ Bit16(n) THEN 2*Q + Low15(n) ELSE Low15(n)

(* The CODE RAM word that lane lo of the window reaches at register a; lane *)
(* hi reaches the word 2Q above it.                                         *)
Real(a) == IF a < 2*Q THEN a ELSE a + 2*Q

AutoIncrement(a) == IF a + 1 = AddrRegSize THEN 0 ELSE a + 1

RamAt(a) == IF a \in RamAddr THEN ram[a] ELSE Zero

(* i += 2 in the write loop; generation 2 writes two 32 KiB banks at once. *)
NextWrite(n) == IF Gen = 2 /\ Bit15(n + 1) THEN (n + 1) + 2*Q ELSE n + 1

(* n & (1 << 14), and i += 2 in the read loop, which reads four 16 KiB     *)
(* banks at once: i -= 0x4000; i += 0x10000.                               *)
Bit14(n) == n \in Q .. 2*Q - 1 \/ n \in 3*Q .. 4*Q - 1
            \/ n \in 5*Q .. 6*Q - 1 \/ n \in 7*Q .. 8*Q - 1
(* Mutant: the read loop does not skip the banks it has read. *)
NextRead_NoSkip(n) == n + 1

NextRead(n) == IF Bit14(n + 1) THEN (n + 1) + 3*Q ELSE n + 1

-----------------------------------------------------------------------------
(* The device: it stores the words the window has accepted, if the window  *)
(* is open for writing, or latches the four read lanes, if it is open for  *)
(* reading; either way CODE_RAM_ADDR moves on.                             *)
(* Mutant: the word that triggers a read is stored like any other. *)
WriteOpen_AnyDirection == wen /\ (Gen = 2 => access # "off")

WriteOpen == wen /\ (Gen = 2 => access = "write")
ReadOpen  == wen /\ Gen = 2 /\ access = "read"

Stored == [a \in RamAddr |->
             IF pend.lo # None /\ a = Real(addrReg) THEN pend.lo
             ELSE IF pend.hi # None /\ a = Real(addrReg) + 2*Q THEN pend.hi
             ELSE ram[a]]

Latched == [bank0 |-> RamAt(Real(addrReg)),
            bank1 |-> RamAt(Real(addrReg) + Q),
            bank2 |-> RamAt(Real(addrReg) + 2*Q),
            bank3 |-> RamAt(Real(addrReg) + 3*Q)]

DeviceStore ==
  /\ pend # NoStore
  /\ pend' = NoStore
  /\ ram' = IF WriteOpen THEN Stored ELSE ram
  /\ rdData' = IF ReadOpen THEN Latched ELSE rdData
  /\ addrReg' = IF WriteOpen \/ ReadOpen THEN AutoIncrement(addrReg) ELSE addrReg
  /\ UNCHANGED <<wen, access>>
  /\ UNCHANGED frameVars

-----------------------------------------------------------------------------
(* hw_code_write(addr, code), from the call to the return or the assertion. *)

Call(a, c) ==
  /\ wpc = "idle"
  /\ wpc' = "enable"
  /\ base' = a
  /\ code' = c
  /\ i' = 0
  /\ UNCHANGED <<deviceVars, readback>>

(* Mutants: the window is never opened, or only half. *)
EnableWrite_Forgotten ==
  /\ wpc = "enable"
  /\ wpc' = IF Gen = 1 THEN "addr" ELSE "access"
  /\ UNCHANGED <<deviceVars, code, base, i, readback>>

OpenAccess_Forgotten ==
  /\ wpc = "access"
  /\ wpc' = "addr"
  /\ UNCHANGED <<deviceVars, code, base, i, readback>>

(* Enable hardware CODE write access. *)
EnableWrite ==
  /\ wpc = "enable"
  /\ wen' = TRUE
  /\ wpc' = IF Gen = 1 THEN "addr" ELSE "access"
  /\ UNCHANGED <<ram, addrReg, pend, rdData, access, code, base, i, readback>>

OpenAccess ==
  /\ wpc = "access"
  /\ access' = "write"
  /\ wpc' = "addr"
  /\ UNCHANGED <<ram, addrReg, pend, rdData, wen, code, base, i, readback>>

(* The write loop: set CODE_RAM_ADDR and confirm it, write the data        *)
(* register, poll CODE_RAM_ADDR until it has moved.                        *)
WriteAddr ==
  /\ wpc = "addr"
  /\ i < code.len
  /\ addrReg' = Masked(base + i)
  /\ wpc' = "data"
  /\ UNCHANGED <<ram, pend, rdData, wen, access, code, base, i, readback>>

DataLanes ==
  IF Gen = 1
    THEN IF Bit15(base + i) THEN [lo |-> None, hi |-> code.word[i]]
                            ELSE [lo |-> code.word[i], hi |-> None]
    ELSE [lo |-> code.word[i],
          hi |-> IF i + 2*Q < code.len THEN code.word[i + 2*Q] ELSE Zero]

WriteData ==
  /\ wpc = "data"
  /\ pend' = DataLanes
  /\ wpc' = "wait"
  /\ UNCHANGED <<ram, addrReg, rdData, wen, access, code, base, i, readback>>

(* Mutant: the next word is sent without polling CODE_RAM_ADDR. *)
WriteWait_NoPoll ==
  /\ wpc = "wait"
  /\ i' = NextWrite(i)
  /\ wpc' = "addr"
  /\ UNCHANGED <<deviceVars, code, base, readback>>

WriteWait ==
  /\ wpc = "wait"
  /\ addrReg # Masked(base + i)
  /\ i' = NextWrite(i)
  /\ wpc' = "addr"
  /\ UNCHANGED <<deviceVars, code, base, readback>>

WriteLoopEnd ==
  /\ wpc = "addr"
  /\ ~(i < code.len)
  /\ wpc' = IF Gen = 1 THEN "disable" ELSE "rdEnable"
  /\ UNCHANGED <<deviceVars, code, base, i, readback>>

(* Mutant: CODE_ACCESS stays in the write direction for the readback. *)
EnableRead_StillWriting ==
  /\ wpc = "rdEnable"
  /\ readback' = [k \in 0 .. code.len - 1 |-> Zero]
  /\ i' = 0
  /\ wpc' = "rdAddr"
  /\ UNCHANGED <<deviceVars, code, base>>

(* Enable hardware CODE read access, and readback = bytearray(len(code)). *)
EnableRead ==
  /\ wpc = "rdEnable"
  /\ access' = "read"
  /\ readback' = [k \in 0 .. code.len - 1 |-> Zero]
  /\ i' = 0
  /\ wpc' = "rdAddr"
  /\ UNCHANGED <<ram, addrReg, pend, rdData, wen, code, base>>

ReadAddr ==
  /\ wpc = "rdAddr"
  /\ i < code.len
  /\ addrReg' = Masked(base + i)
  /\ wpc' = "rdTrig"
  /\ UNCHANGED <<ram, pend, rdData, wen, access, code, base, i, readback>>

(* Writing 0 to the write data register is what makes the device read. *)
ReadTrigger ==
  /\ wpc = "rdTrig"
  /\ pend' = [lo |-> Zero, hi |-> Zero]
  /\ wpc' = "rdWait"
  /\ UNCHANGED <<ram, addrReg, rdData, wen, access, code, base, i, readback>>

Unpacked == [k \in 0 .. code.len - 1 |->
               IF k = i THEN rdData.bank0
               ELSE IF k = i + Q THEN rdData.bank1
               ELSE IF k = i + 2*Q THEN rdData.bank2
               ELSE IF k = i + 3*Q THEN rdData.bank3
               ELSE readback[k]]

ReadData ==
  /\ wpc = "rdWait"
  /\ addrReg # Masked(base + i)
  /\ readback' = Unpacked
  /\ i' = NextRead(i)
  /\ wpc' = "rdAddr"
  /\ UNCHANGED <<deviceVars, code, base>>

ReadLoopEnd ==
  /\ wpc = "rdAddr"
  /\ ~(i < code.len)
  /\ wpc' = "assert"
  /\ UNCHANGED <<deviceVars, code, base, i, readback>>

(* assert readback == code; the exception leaves everything as it is. *)
AssertReadback ==
  /\ wpc = "assert"
  /\ wpc' = IF readback = code.word THEN "disAccess" ELSE "failed"
  /\ UNCHANGED <<deviceVars, code, base, i, readback>>

(* Disable hardware CODE write access. *)
CloseAccess ==
  /\ wpc = "disAccess"
  /\ access' = "off"
  /\ wpc' = "disable"
  /\ UNCHANGED <<ram, addrReg, pend, rdData, wen, code, base, i, readback>>

(* Mutant: the write enable is left on. *)
DisableWrite_LeftOn ==
  /\ wpc = "disable"
  /\ wpc' = "done"
  /\ UNCHANGED <<deviceVars, code, base, i, readback>>

DisableWrite ==
  /\ wpc = "disable"
  /\ wen' = FALSE
  /\ wpc' = "done"
  /\ UNCHANGED <<ram, addrReg, pend, rdData, access, code, base, i, readback>>

HostStep ==
  \/ EnableWrite \/ OpenAccess
  \/ WriteAddr \/ WriteData \/ WriteWait \/ WriteLoopEnd
  \/ EnableRead \/ ReadAddr \/ ReadTrigger \/ ReadData \/ ReadLoopEnd
  \/ AssertReadback \/ CloseAccess \/ DisableWrite

-----------------------------------------------------------------------------
(* One call of hw_code_write by itself, at any address its guards let in:  *)
(* a script that uses AsmDev as a library.  The tools only pass 0.         *)
CONSTANT Bases
ASSUME BasesAssumption == Bases \subseteq 0 .. 4*Q - 1

CallInit ==
  /\ \E w \in Word : ram = [a \in RamAddr |-> w]
  /\ addrReg = 0 /\ pend = NoStore /\ rdData = NoData
  /\ wen = FALSE /\ access = "off"
  /\ wpc = "idle" /\ code = NoCode /\ base = 0 /\ i = 0 /\ readback = NoBuffer

CallNext ==
  \/ \E a \in Bases, c \in Images : c.len <= CodeSizeLimit /\ Call(a, c)
  \/ HostStep
  \/ DeviceStore

CallSpec == CallInit /\ [][CallNext]_hwVars

(* asm_tool.py:247: an addr from 0x0000 to 0xFFFE is valid, so after the    *)
(* return the words of code that fit the CODE RAM are at addr and up.       *)
WrittenAtAddr ==
  wpc = "done" =>
    \A k \in 0 .. code.len - 1 :
      base + k \in RamAddr => ram[base + k] = code.word[k]

=============================================================================
