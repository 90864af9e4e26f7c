----------------------------- MODULE MmioWindow -----------------------------
(***************************************************************************)
(* AsmDev.hw_mmio_reg_read and hw_mmio_reg_write (tools/asm_tool.py): the  *)
(* host reaches the 8051's MMIO registers one byte at a time through an    *)
(* address register, a write-data register and a latched read-data         *)
(* register, in PCI configuration space (generation 1) or in BAR0          *)
(* (generation 2).  The device works on its own: writing the address makes *)
(* it latch the read data, writing the data makes it store a byte.  The    *)
(* host waits for it, by polling the busy bit of generation 2 or by the    *)
(* 0.1 ms sleeps of generation 1.  The 8051, unless it is parked, changes  *)
(* registers meanwhile.                                                    *)
(***************************************************************************)
EXTENDS Integers

CONSTANTS
  Gen,       \* hw_code_and_mmio of the chip, 1 or 2
  Size,      \* bytes of MMIO space; 0x10000 in the chips
  Byte,      \* the values of a byte that the properties tell apart
  Requests   \* the calls made: [kind, addr, width, value, confirm]

ASSUME GenAssumption == Gen \in {1, 2}
ASSUME SizeAssumption == Size \in Nat \ {0}
ASSUME ByteAssumption == 0 \in Byte
ASSUME RequestAssumption ==
  \A o \in Requests :
    /\ o.kind \in {"read", "write"}
    /\ o.addr \in 0 .. Size - 1
    /\ o.width \in 1 .. Size
    /\ o.value \in [0 .. o.width - 1 -> Byte]
    /\ o.confirm \in BOOLEAN /\ (o.kind = "read" => ~o.confirm)

RegAddr == 0 .. Size - 1

(* byte_addr = (addr + i) & 0xffff *)
ByteAt(o, j) == IF o.addr + j < Size THEN o.addr + j ELSE o.addr + j - Size

VARIABLES
  regs,      \* the MMIO registers
  adr,       \* MMIO_ACCESS_ADDRESS
  wdata,     \* MMIO_ACCESS_WRITE_DATA
  rdata,     \* MMIO_ACCESS_READ_DATA
  job,       \* what the device is busy with: "none", "latch" or "store"
  op,        \* the call in progress
  pc,        \* where it is
  k,         \* its loop counter, the byte it is at
  got,       \* the bytes of its value so far
  checking,  \* it is in the loop that confirms a write
  parked,    \* the 8051 is held, or in a loop that touches no register
  seen       \* history: the values each byte of the call's register has had

deviceVars == <<regs, adr, wdata, rdata, job>>
callVars   == <<op, pc, k, got, checking>>
vars       == <<deviceVars, callVars, parked, seen>>

NoOp    == [kind |-> "none", addr |-> 0, width |-> 0, value |-> [j \in {} |-> 0],
            confirm |-> FALSE]
NoBytes == [j \in {} |-> 0]

Init ==
  /\ regs \in [RegAddr -> Byte]
  /\ adr = 0 /\ wdata = 0 /\ rdata = 0 /\ job = "none"
  /\ op = NoOp /\ pc = "idle" /\ k = 0 /\ got = NoBytes /\ checking = FALSE
  /\ parked \in BOOLEAN
  /\ seen = [j \in {} |-> {}]

(* The history follows every change of the registers. *)
Observe ==
  seen' = [j \in 0 .. op'.width - 1 |->
             {regs'[ByteAt(op', j)]} \cup (IF op' = op /\ pc # "idle" THEN seen[j] ELSE {})]

-----------------------------------------------------------------------------
(* The host. *)

Call(o) ==
  /\ pc = "idle"
  /\ op' = o
  /\ pc' = "addr" /\ k' = 0 /\ got' = NoBytes /\ checking' = FALSE
  /\ UNCHANGED <<deviceVars, parked>>
  /\ Observe

Reading == op.kind = "read" \/ checking

(* Mutants: the address of the first byte every time, and the busy bit     *)
(* tested the wrong way round.                                             *)
SetAddr_FirstByte ==
  /\ pc = "addr"
  /\ Gen = 2 /\ Reading => job = "none"
  /\ adr' = op.addr
  /\ job' = "latch"
  /\ pc' = IF Reading THEN "get" ELSE "put"
  /\ UNCHANGED <<regs, wdata, rdata, op, k, got, checking, parked>>
  /\ Observe

SetAddr_Inverted ==
  /\ pc = "addr"
  /\ Gen = 2 /\ Reading => job # "none"
  /\ adr' = ByteAt(op, k)
  /\ job' = "latch"
  /\ pc' = IF Reading THEN "get" ELSE "put"
  /\ UNCHANGED <<regs, wdata, rdata, op, k, got, checking, parked>>
  /\ Observe

(* The address of the byte; reads on generation 2 first poll the busy bit, *)
(* writes do not.                                                          *)
SetAddr ==
  /\ pc = "addr"
  /\ Gen = 2 /\ Reading => job = "none"
  /\ adr' = ByteAt(op, k)
  /\ job' = "latch"
  /\ pc' = IF Reading THEN "get" ELSE "put"
  /\ UNCHANGED <<regs, wdata, rdata, op, k, got, checking, parked>>
  /\ Observe

(* Mutants: one byte too many, and the read data taken without waiting. *)
GetByte_TooFar ==
  /\ pc = "get"
  /\ job = "none"
  /\ got' = [j \in 0 .. k |-> IF j = k THEN rdata ELSE got[j]]
  /\ k' = k + 1
  /\ pc' = IF k + 1 <= op.width THEN "addr" ELSE "end"
  /\ UNCHANGED <<deviceVars, op, checking, parked>>
  /\ Observe

GetByte_NoWait ==
  /\ pc = "get"
  /\ got' = [j \in 0 .. k |-> IF j = k THEN rdata ELSE got[j]]
  /\ k' = k + 1
  /\ pc' = IF k + 1 < op.width THEN "addr" ELSE "end"
  /\ UNCHANGED <<deviceVars, op, checking, parked>>
  /\ Observe

GetByte ==
  /\ pc = "get"
  /\ job = "none"
  /\ got' = [j \in 0 .. k |-> IF j = k THEN rdata ELSE got[j]]
  /\ k' = k + 1
  /\ pc' = IF k + 1 < op.width THEN "addr" ELSE "end"
  /\ UNCHANGED <<deviceVars, op, checking, parked>>
  /\ Observe

PutByte ==
  /\ pc = "put"
  /\ job = "none"
  /\ wdata' = op.value[k]
  /\ job' = "store"
  /\ pc' = "putWait"
  /\ UNCHANGED <<regs, adr, rdata, op, k, got, checking, parked>>
  /\ Observe

(* Mutant: the write is taken for done at once. *)
PutDone_NoWait ==
  /\ pc = "putWait"
  /\ k' = k + 1
  /\ pc' = IF k + 1 < op.width THEN "addr" ELSE "end"
  /\ UNCHANGED <<deviceVars, op, got, checking, parked>>
  /\ Observe

PutDone ==
  /\ pc = "putWait"
  /\ job = "none"
  /\ k' = k + 1
  /\ pc' = IF k + 1 < op.width THEN "addr" ELSE "end"
  /\ UNCHANGED <<deviceVars, op, got, checking, parked>>
  /\ Observe

(* while hw_mmio_reg_read(addr, width) != value: continue *)
Confirm ==
  /\ pc = "end"
  /\ op.confirm
  /\ checking => got # op.value
  /\ checking' = TRUE /\ k' = 0 /\ got' = NoBytes /\ pc' = "addr"
  /\ UNCHANGED <<deviceVars, op, parked>>
  /\ Observe

(* Mutant: a confirmed write reads back once and returns. *)
Return_Unconfirmed ==
  /\ pc = "end"
  /\ op.confirm => checking
  /\ op' = NoOp /\ pc' = "idle" /\ k' = 0 /\ got' = NoBytes /\ checking' = FALSE
  /\ UNCHANGED <<deviceVars, parked>>
  /\ Observe

Return ==
  /\ pc = "end"
  /\ op.confirm => checking /\ got = op.value
  /\ op' = NoOp /\ pc' = "idle" /\ k' = 0 /\ got' = NoBytes /\ checking' = FALSE
  /\ UNCHANGED <<deviceVars, parked>>
  /\ Observe

HostStep == SetAddr \/ GetByte \/ PutByte \/ PutDone \/ Confirm \/ Return

-----------------------------------------------------------------------------
(* The device and the 8051. *)

Latch ==
  /\ job = "latch"
  /\ rdata' = regs[adr]
  /\ job' = "none"
  /\ UNCHANGED <<regs, adr, wdata, callVars, parked>>
  /\ Observe

Store ==
  /\ job = "store"
  /\ regs' = [regs EXCEPT ![adr] = wdata]
  /\ job' = "none"
  /\ UNCHANGED <<adr, wdata, rdata, callVars, parked>>
  /\ Observe

CpuWrites ==
  /\ ~parked
  /\ \E a \in RegAddr, b \in Byte : regs' = [regs EXCEPT ![a] = b]
  /\ UNCHANGED <<adr, wdata, rdata, job, callVars, parked>>
  /\ Observe

Next ==
  \/ \E o \in Requests : Call(o)
  \/ HostStep
  \/ Latch \/ Store
  \/ CpuWrites

Spec == Init /\ [][Next]_vars

(* The host polls and the device works; the 8051 owes nothing. *)
Fairness == WF_vars(HostStep) /\ WF_vars(Latch \/ Store)
FairSpec == Spec /\ Fairness

-----------------------------------------------------------------------------
TypeOK ==
  /\ regs \in [RegAddr -> Byte]
  /\ adr \in RegAddr /\ wdata \in Byte /\ rdata \in Byte
  /\ job \in {"none", "latch", "store"}
  /\ op \in Requests \cup {NoOp}
  /\ pc \in {"idle", "addr", "get", "put", "putWait", "end"}
  /\ k \in 0 .. op.width
  /\ got \in UNION {[0 .. n - 1 -> Byte] : n \in 0 .. op.width}
  /\ checking \in BOOLEAN /\ parked \in BOOLEAN
  /\ DOMAIN seen = 0 .. op.width - 1

(* asm_tool.py:443 writes the address without polling the busy bit first,  *)
(* which :410 does: the device is idle there all the same, so no store is  *)
(* ever redirected to another register.                                    *)
IdleAtAddress == pc = "addr" => job = "none"

(* Every byte read is a value its register has had during the call: the    *)
(* latch is never one of an earlier access.                                *)
ReadIsRecent ==
  pc = "end" /\ Reading => \A j \in 0 .. op.width - 1 : got[j] \in seen[j]

(* With the 8051 parked, as bug_demo does before it reads its registers    *)
(* byte by byte, a read returns the value of the whole register and a      *)
(* write leaves it there: it is not torn.                                  *)
WholeValue ==
  pc = "end" /\ parked =>
    LET result == IF Reading THEN got ELSE op.value
    IN \A j \in 0 .. op.width - 1 : regs[ByteAt(op, j)] = result[j]

(* The inductive invariant of the three: what each point of the call knows  *)
(* of its loop, of the device, of the history and, while the 8051 is       *)
(* parked, of the registers that the bytes before k have been read from or *)
(* written to.                                                             *)
CallInv ==
  /\ pc = "idle" <=> op = NoOp
  /\ pc = "idle" => k = 0 /\ ~checking
  /\ pc \notin {"idle", "end"} => k < op.width
  /\ pc = "end" => k = op.width
  /\ pc = "get" => Reading
  /\ pc \in {"put", "putWait"} => ~Reading
  /\ checking => op.confirm
  /\ got \in [0 .. (IF Reading THEN k - 1 ELSE -1) -> Byte]

DeviceInv ==
  /\ pc \in {"get", "put"} => job # "store"
  /\ pc = "putWait" => job # "latch" /\ wdata = op.value[k]
  /\ pc \in {"get", "put", "putWait"} => adr = ByteAt(op, k)
  /\ pc \in {"idle", "addr", "end"} => job = "none"

SeenInv ==
  /\ \A j \in 0 .. op.width - 1 : regs[ByteAt(op, j)] \in seen[j]
  /\ Reading => \A j \in 0 .. k - 1 : got[j] \in seen[j]
  /\ pc = "get" /\ job = "none" => rdata \in seen[k]

ParkedInv ==
  parked /\ pc # "idle" =>
    /\ \A j \in 0 .. k - 1 :
         regs[ByteAt(op, j)] = IF Reading THEN got[j] ELSE op.value[j]
    /\ pc = "get" /\ job = "none" => rdata = regs[ByteAt(op, k)]
    /\ pc = "putWait" /\ job = "none" => regs[ByteAt(op, k)] = op.value[k]

MmioInv == TypeOK /\ CallInv /\ DeviceInv /\ SeenInv /\ ParkedInv

(* An access ends, unless it confirms a write against an 8051 that goes on *)
(* changing the register.                                                  *)
AccessEnds == (pc # "idle" /\ (parked \/ ~op.confirm)) ~> (pc = "idle")

(* Byte k of a read is read when the device latches it, byte k of a write  *)
(* is written when the device stores it: between those instants nothing of *)
(* the window is visible.                                                  *)
Latched == pc = "get" /\ job = "none"
Stored  == pc = "putWait" /\ job = "none"
Abstract == INSTANCE MmioSpec WITH
  Ops <- Requests,
  k   <- IF Latched \/ Stored THEN k + 1 ELSE k,
  got <- IF Latched THEN [j \in 0 .. k |-> IF j = k THEN rdata ELSE got[j]] ELSE got
ImplementsMmioSpec == Abstract!Spec
=============================================================================
