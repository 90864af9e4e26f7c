------------------------------ MODULE MmioSpec ------------------------------
(***************************************************************************)
(* What hw_mmio_reg_read and hw_mmio_reg_write promise: a multi-byte access *)
(* is a sequence of byte accesses, lowest byte first, each of which happens *)
(* at one instant; a confirmed write reads the register back until it sees *)
(* the value it wrote.  Between two byte accesses the 8051 may act.        *)
(***************************************************************************)
EXTENDS Integers

CONSTANTS
  RegAddr,    \* the byte addresses 0 .. n-1 of the MMIO space
  Byte,
  Ops,        \* [kind, addr, width, value, confirm]
  NoOp,
  ByteAt(_, _)   \* ByteAt(o, k): the address of byte k of access o

VARIABLES
  regs,      \* the registers
  op,        \* the access in progress
  got,       \* the bytes it has read since it last started reading
  k,         \* the byte that is next
  checking,  \* it is a write that now reads back
  parked     \* the 8051 is held, or in a loop that touches no register

vars == <<regs, op, got, k, checking, parked>>

NoBytes == [j \in {} |-> 0]

Init ==
  /\ regs \in [RegAddr -> Byte]
  /\ op = NoOp /\ got = NoBytes /\ k = 0 /\ checking = FALSE
  /\ parked \in BOOLEAN

Begin(o) ==
  /\ op = NoOp
  /\ op' = o /\ got' = NoBytes /\ k' = 0 /\ checking' = FALSE
  /\ UNCHANGED <<regs, parked>>

Reading == op # NoOp /\ (op.kind = "read" \/ checking)

ReadByte ==
  /\ Reading /\ k < op.width
  /\ got' = [j \in 0 .. k |-> IF j = k THEN regs[ByteAt(op, k)] ELSE got[j]]
  /\ k' = k + 1
  /\ UNCHANGED <<regs, op, checking, parked>>

WriteByte ==
  /\ op # NoOp /\ ~Reading /\ k < op.width
  /\ regs' = [regs EXCEPT ![ByteAt(op, k)] = op.value[k]]
  /\ k' = k + 1
  /\ UNCHANGED <<op, got, checking, parked>>

(* The bytes are written, or the bytes read back are not the ones written. *)
ReadBack ==
  /\ op # NoOp /\ op.kind = "write" /\ op.confirm /\ k = op.width
  /\ checking => got # op.value
  /\ checking' = TRUE /\ k' = 0 /\ got' = NoBytes
  /\ UNCHANGED <<regs, op, parked>>

Return ==
  /\ op # NoOp /\ k = op.width
  /\ op.confirm => checking /\ got = op.value
  /\ op' = NoOp /\ got' = NoBytes /\ k' = 0 /\ checking' = FALSE
  /\ UNCHANGED <<regs, parked>>

CpuWrites ==
  /\ ~parked
  /\ \E a \in RegAddr, b \in Byte : regs' = [regs EXCEPT ![a] = b]
  /\ UNCHANGED <<op, got, k, checking, parked>>

Next ==
  \/ \E o \in Ops : Begin(o)
  \/ ReadByte \/ WriteByte \/ ReadBack \/ Return
  \/ CpuWrites

Spec == Init /\ [][Next]_vars
=============================================================================
