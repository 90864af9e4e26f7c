------------------------------ MODULE MemServer ------------------------------
(***************************************************************************)
(* What the monitor's binary mode promises the program that drives it:     *)
(* requests take effect in the order they were made and byte by byte, each *)
(* byte at one instant; the bytes read come back in that order.  A request *)
(* to leave is the last one.                                               *)
(***************************************************************************)
EXTENDS Naturals, Sequences

CONSTANTS
  Requests,     \* [kind, addr, len, data]
  Cells,        \* the bytes of memory
  ReadOnly,     \* the ones that a write does not change
  Volatile,     \* the ones that the hardware changes by itself
  Byte,
  CellAt(_, _)  \* CellAt(r, k): the cell of byte k of request r

VARIABLES
  mem,
  inbox,   \* requests made and not completed
  at,      \* bytes done of the first of them
  outbox,  \* bytes read and not delivered
  closed   \* binary mode is over

vars == <<mem, inbox, at, outbox, closed>>

Init == mem \in [Cells -> Byte] /\ inbox = <<>> /\ at = 0 /\ outbox = <<>> /\ closed = FALSE

Request(r) == inbox' = Append(inbox, r) /\ UNCHANGED <<mem, at, outbox, closed>>

Busy(kind) == inbox # <<>> /\ ~closed /\ Head(inbox).kind = kind

ReadByte ==
  /\ Busy("read") /\ at < Head(inbox).len
  /\ outbox' = Append(outbox, mem[CellAt(Head(inbox), at)])
  /\ at' = at + 1
  /\ UNCHANGED <<mem, inbox, closed>>

WriteByte ==
  /\ Busy("write") /\ at < Head(inbox).len
  /\ mem' = [c \in Cells |->
               IF c = CellAt(Head(inbox), at) /\ c \notin ReadOnly
                 THEN Head(inbox).data[at + 1] ELSE mem[c]]
  /\ at' = at + 1
  /\ UNCHANGED <<inbox, outbox, closed>>

Complete ==
  /\ inbox # <<>> /\ ~closed /\ at = Head(inbox).len
  /\ closed' = (Head(inbox).kind = "exit")
  /\ inbox' = Tail(inbox)
  /\ at' = 0
  /\ UNCHANGED <<mem, outbox>>

Deliver == outbox # <<>> /\ outbox' = Tail(outbox) /\ UNCHANGED <<mem, inbox, at, closed>>

Hardware ==
  /\ \E c \in Volatile, b \in Byte : mem' = [mem EXCEPT ![c] = b]
  /\ UNCHANGED <<inbox, at, outbox, closed>>

Next ==
  \/ \E r \in Requests : Request(r)
  \/ ReadByte \/ WriteByte \/ Complete \/ Deliver \/ Hardware

Spec == Init /\ [][Next]_vars
=============================================================================
