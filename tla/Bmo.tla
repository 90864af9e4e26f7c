--------------------------------- MODULE Bmo ---------------------------------
(***************************************************************************)
(* Binary mode of the monitor (monitor/main.c, bmo_handler): requests to   *)
(* read and write memory, as bytes on the serial line, without framing.    *)
(* The other end is a program that makes well-formed requests, as many     *)
(* ahead as it likes, and reads the replies (bmo.py, not in the            *)
(* repository), or a user who is there by accident, types anything and in  *)
(* the end nothing but Enter.                                              *)
(*                                                                         *)
(* A byte is a digit of base Base; an address or a length has AddrBytes of *)
(* them, lowest first, and the short requests move WordBytes bytes.  The   *)
(* chips have 256, 4 and 4.  An access to memory is one step: the handler  *)
(* is alone on the 8051.                                                   *)
(*                                                                         *)
(* The handler runs on the memory that it gives access to.  With MEMSEL    *)
(* set in PCON, an SFR that set_sfr writes, its own reads of the UART reach*)
(* CODE RAM, and it never sees another key; nor does it with its stack or  *)
(* variables overwritten.  Fatal are the writes that do this, and "lost" is*)
(* where they leave it.                                                    *)
(***************************************************************************)
EXTENDS Integers, Sequences, SequencesExt

CONSTANTS
  Base, AddrBytes, WordBytes,
  EXIT, READ, WRITE, MEM_READ, MEM_WRITE,   \* the bytes '\r' 'R' 'W' 'r' 'w'
  Cells,      \* the bytes of memory
  Cell,       \* which of them an address selects, through readb and writeb
  ReadOnly,   \* the ones writeb does not change: ROM, protected SFRs
  Volatile,   \* the ones that change by themselves: MMIO
  Fatal,      \* the writes that the handler does not survive: [cell, byte]
  RxDepth, TxDepth, TxReady,   \* as in Console
  Requests,   \* what the program asks: [kind, short, addr, len, data]
  Ahead,      \* the number of requests it makes before the first is served
  Stray       \* the bytes that the user may type

Byte == 0 .. Base - 1
Top == Base ^ AddrBytes
Commands == {EXIT, READ, WRITE, MEM_READ, MEM_WRITE}

ASSUME WidthAssumption ==
  /\ Base \in Nat \ {0} /\ AddrBytes \in Nat \ {0} /\ WordBytes \in Nat
(* What ^ means for these numbers: the provers do not know it. *)
ASSUME PowerAssumption ==
  /\ Base ^ 0 = 1
  /\ \A n \in 0 .. AddrBytes - 1 : Base ^ n \in Nat \ {0} /\ Base ^ (n + 1) = Base * Base ^ n
ASSUME CommandAssumption ==
  /\ Commands \subseteq Byte
  /\ EXIT \notin {READ, WRITE, MEM_READ, MEM_WRITE}
  /\ READ \notin {WRITE, MEM_READ, MEM_WRITE}
  /\ WRITE \notin {MEM_READ, MEM_WRITE} /\ MEM_READ # MEM_WRITE
ASSUME CellAssumption ==
  /\ Cell \in [0 .. Top - 1 -> Cells] /\ ReadOnly \subseteq Cells /\ Volatile \subseteq Cells
  /\ Fatal \subseteq (Cells \ ReadOnly) \X Byte
ASSUME FifoAssumption ==
  RxDepth \in Nat \ {0} /\ TxDepth \in Nat /\ TxReady \in 1 .. TxDepth
ASSUME RequestAssumption ==
  \A r \in Requests :
    /\ r.kind \in {"read", "write", "exit"} /\ r.short \in BOOLEAN
    /\ r.addr \in 0 .. Top - 1 /\ r.len \in 0 .. Top - 1
    /\ r.data \in Seq(Byte)
    /\ r.short => r.len = WordBytes
    /\ r.kind = "write" => Len(r.data) = r.len
    /\ r.kind = "exit" => r.len = 0
    /\ r.kind = "write" => \A k \in 1 .. r.len :
         <<Cell[(r.addr + (k - 1)) % Top], r.data[k]>> \notin Fatal
ASSUME AheadAssumption == Ahead \in Nat
ASSUME StrayAssumption == Stray \subseteq Byte

VARIABLES
  rx, tx,         \* the UART's FIFOs
  pc,             \* where bmo_handler is
  command, addr, len, off,   \* its locals
  i,              \* the index of the loop that reads addr or len
  value,          \* what readb has returned, until putbyte has space for it
  mem,
  outgoing,       \* bytes of a request still to be sent
  outstanding,    \* history: the requests made and not completed
  enter           \* the user presses nothing but Enter

lineVars   == <<rx, tx>>
localVars  == <<pc, command, addr, len, off, i, value>>
clientVars == <<outgoing, outstanding, enter>>
vars       == <<lineVars, localVars, mem, clientVars>>

-----------------------------------------------------------------------------
(* The other end of the line. *)
Digits(v) == [b \in 1 .. AddrBytes |-> (v \div Base ^ (b - 1)) % Base]

Encode(r) ==
  CASE r.kind = "exit" -> <<EXIT>>
    [] r.kind = "read"  /\ r.short  -> <<READ>> \o Digits(r.addr)
    [] r.kind = "write" /\ r.short  -> <<WRITE>> \o Digits(r.addr) \o r.data
    [] r.kind = "read"  /\ ~r.short -> <<MEM_READ>> \o Digits(r.addr) \o Digits(r.len)
    [] r.kind = "write" /\ ~r.short ->
         <<MEM_WRITE>> \o Digits(r.addr) \o Digits(r.len) \o r.data

Leaving == \E n \in DOMAIN outstanding : outstanding[n].kind = "exit"

MakeRequest(r) ==
  /\ outgoing = <<>> /\ Len(outstanding) < Ahead
  /\ ~Leaving /\ pc # "exited"
  /\ outgoing' = Encode(r)
  /\ outstanding' = Append(outstanding, r)
  /\ UNCHANGED <<lineVars, localVars, mem, enter>>

SendByte ==
  /\ outgoing # <<>> /\ Len(rx) < RxDepth
  /\ rx' = Append(rx, Head(outgoing))
  /\ outgoing' = Tail(outgoing)
  /\ UNCHANGED <<tx, localVars, mem, outstanding, enter>>

UserTypes(c) ==
  /\ ~enter /\ Len(rx) < RxDepth
  /\ rx' = Append(rx, c)
  /\ UNCHANGED <<tx, localVars, mem, clientVars>>

OnlyEnter ==
  /\ Stray # {} /\ ~enter
  /\ enter' = TRUE
  /\ UNCHANGED <<lineVars, localVars, mem, outgoing, outstanding>>

PressEnter ==
  /\ enter /\ Len(rx) < RxDepth
  /\ rx' = Append(rx, EXIT)
  /\ UNCHANGED <<tx, localVars, mem, clientVars>>

Transmit ==
  /\ tx # <<>>
  /\ tx' = Tail(tx)
  /\ UNCHANGED <<rx, localVars, mem, clientVars>>

-----------------------------------------------------------------------------
(* bmo_handler. *)
Getchar(c) == rx # <<>> /\ c = Head(rx) /\ rx' = Tail(rx) /\ UNCHANGED tx

(* Mutant: EXIT does not set done. *)
Command_NotDone(c) ==
  /\ pc = "command" /\ Getchar(c)
  /\ c \in Commands
  /\ pc' = IF c = EXIT THEN "command" ELSE "addr"
  /\ command' = c /\ addr' = 0 /\ len' = 0 /\ off' = 0 /\ i' = 0
  /\ outstanding' = IF c = EXIT /\ outstanding # <<>> THEN Tail(outstanding) ELSE outstanding
  /\ UNCHANGED <<value, mem, outgoing, enter>>

Command(c) ==
  /\ pc = "command" /\ Getchar(c)
  /\ c \in Commands
  /\ pc' = IF c = EXIT THEN "exited" ELSE "addr"
  /\ command' = c /\ addr' = 0 /\ len' = 0 /\ off' = 0 /\ i' = 0
  /\ outstanding' = IF c = EXIT /\ outstanding # <<>> THEN Tail(outstanding) ELSE outstanding
  /\ UNCHANGED <<value, mem, outgoing, enter>>

(* Anything else, SETBAUD included, is ignored. *)
Ignored(c) ==
  /\ pc = "command" /\ Getchar(c)
  /\ c \notin Commands
  /\ UNCHANGED <<localVars, mem, clientVars>>

(* Mutant: a byte of the address too few. *)
AddrByte_OneShort(c) ==
  /\ pc = "addr" /\ Getchar(c)
  /\ addr' = addr + c * Base ^ i
  /\ IF i + 2 < AddrBytes
       THEN i' = i + 1 /\ UNCHANGED pc
       ELSE i' = 0 /\ pc' = CASE command = READ -> "read"
                              [] command = WRITE -> "write"
                              [] OTHER -> "len"
  /\ UNCHANGED <<command, len, off, value, mem, clientVars>>

AddrByte(c) ==
  /\ pc = "addr" /\ Getchar(c)
  /\ addr' = addr + c * Base ^ i
  /\ IF i + 1 < AddrBytes
       THEN i' = i + 1 /\ UNCHANGED pc
       ELSE i' = 0 /\ pc' = CASE command = READ -> "read"
                              [] command = WRITE -> "write"
                              [] OTHER -> "len"
  /\ UNCHANGED <<command, len, off, value, mem, clientVars>>

(* Mutant: the length is read highest byte first. *)
LenByte_BigEndian(c) ==
  /\ pc = "len" /\ Getchar(c)
  /\ len' = len + c * Base ^ (AddrBytes - 1 - i)
  /\ IF i + 1 < AddrBytes
       THEN i' = i + 1 /\ UNCHANGED pc
       ELSE i' = 0 /\ pc' = IF command = MEM_READ THEN "read" ELSE "write"
  /\ UNCHANGED <<command, addr, off, value, mem, clientVars>>

LenByte(c) ==
  /\ pc = "len" /\ Getchar(c)
  /\ len' = len + c * Base ^ i
  /\ IF i + 1 < AddrBytes
       THEN i' = i + 1 /\ UNCHANGED pc
       ELSE i' = 0 /\ pc' = IF command = MEM_READ THEN "read" ELSE "write"
  /\ UNCHANGED <<command, addr, off, value, mem, clientVars>>

Limit == IF command \in {READ, WRITE} THEN WordBytes ELSE len
Target == Cell[(addr + off) % Top]

(* putbyte(readb(addr + off)): the byte is read, and then waits for space. *)
ReadByte ==
  /\ pc = "read" /\ off < Limit
  /\ value' = mem[Target]
  /\ pc' = "put"
  /\ UNCHANGED <<lineVars, command, addr, len, off, i, mem, clientVars>>

(* Mutant: putbyte does not wait. *)
PutByte_NoWait ==
  /\ pc = "put"
  /\ tx' = Append(tx, value)
  /\ off' = off + 1
  /\ pc' = "read"
  /\ UNCHANGED <<rx, command, addr, len, i, value, mem, clientVars>>

PutByte ==
  /\ pc = "put"
  /\ TxDepth - Len(tx) >= TxReady
  /\ tx' = Append(tx, value)
  /\ off' = off + 1
  /\ pc' = "read"
  /\ UNCHANGED <<rx, command, addr, len, i, value, mem, clientVars>>

WriteByte(c) ==
  /\ pc = "write" /\ off < Limit /\ Getchar(c)
  /\ mem' = IF Target \in ReadOnly THEN mem ELSE [mem EXCEPT ![Target] = c]
  /\ off' = off + 1
  /\ pc' = IF <<Target, c>> \in Fatal THEN "lost" ELSE "write"
  /\ UNCHANGED <<command, addr, len, i, value, clientVars>>

(* Mutant: the request ends after one byte more than the loop moves. *)
RequestDone_Late ==
  /\ pc \in {"read", "write"} /\ off > Limit
  /\ pc' = "command"
  /\ outstanding' = IF outstanding = <<>> THEN <<>> ELSE Tail(outstanding)
  /\ UNCHANGED <<lineVars, command, addr, len, off, i, value, mem, outgoing, enter>>

RequestDone ==
  /\ pc \in {"read", "write"} /\ off = Limit
  /\ pc' = "command"
  /\ outstanding' = IF outstanding = <<>> THEN <<>> ELSE Tail(outstanding)
  /\ UNCHANGED <<lineVars, command, addr, len, off, i, value, mem, outgoing, enter>>

Monitor ==
  \/ \E c \in Byte : Command(c) \/ Ignored(c) \/ AddrByte(c) \/ LenByte(c) \/ WriteByte(c)
  \/ ReadByte \/ PutByte \/ RequestDone

Hardware ==
  /\ \E c \in Volatile, b \in Byte : mem' = [mem EXCEPT ![c] = b]
  /\ UNCHANGED <<lineVars, localVars, clientVars>>

-----------------------------------------------------------------------------
Init ==
  /\ rx = <<>> /\ tx = <<>>
  /\ pc = "command" /\ command = EXIT /\ addr = 0 /\ len = 0 /\ off = 0 /\ i = 0 /\ value = 0
  /\ mem \in [Cells -> Byte]
  /\ outgoing = <<>> /\ outstanding = <<>> /\ enter = FALSE

Next ==
  \/ \E r \in Requests : MakeRequest(r)
  \/ SendByte
  \/ \E c \in Stray : UserTypes(c)
  \/ OnlyEnter \/ PressEnter
  \/ Transmit
  \/ Monitor
  \/ Hardware

Spec == Init /\ [][Next]_vars

(* The 8051 and the UART run; a program sends what it has begun to send,   *)
(* and a user who presses nothing but Enter goes on pressing it.           *)
Fairness == WF_vars(Monitor) /\ WF_vars(Transmit) /\ WF_vars(SendByte) /\ WF_vars(PressEnter)
FairSpec == Spec /\ Fairness

-----------------------------------------------------------------------------
(* Every variable has its type, and the transmit FIFO its size. *)
TypeOK ==
  /\ rx \in Seq(Byte) /\ Len(rx) <= RxDepth
  /\ tx \in Seq(Byte) /\ Len(tx) <= TxDepth
  /\ pc \in {"command", "addr", "len", "read", "put", "write", "exited", "lost"}
  /\ command \in Commands
  /\ addr \in 0 .. Top - 1 /\ len \in 0 .. Top - 1
  /\ i \in 0 .. AddrBytes - 1
  /\ off \in 0 .. Limit
  /\ value \in Byte
  /\ mem \in [Cells -> Byte]
  /\ outgoing \in Seq(Byte)
  /\ outstanding \in Seq(Requests) /\ Len(outstanding) <= Ahead
  /\ enter \in BOOLEAN

(* The handler and the program agree on where every request begins and      *)
(* ends, however many are under way: the bytes still to be read are the     *)
(* rest of the requests still to be served.                                 *)
Consumed ==
  CASE pc \in {"command", "exited", "lost"} -> 0
    [] pc = "addr" -> 1 + i
    [] pc = "len" -> 1 + AddrBytes + i
    [] pc \in {"read", "put", "write"} ->
         1 + (IF command \in {READ, WRITE} THEN AddrBytes ELSE 2 * AddrBytes)
           + (IF pc = "write" THEN off ELSE 0)

Wire(requests) == FlattenSeq([n \in DOMAIN requests |-> Encode(requests[n])])

InStep ==
  LET sent == Wire(outstanding)
  IN  Stray = {} => rx \o outgoing = SubSeq(sent, Consumed + 1, Len(sent))

(* The inductive invariants.  Of TypeOK: what has been read of a number is  *)
(* below the weight of its next byte, and a byte is put within the limit.   *)
WidthInv ==
  /\ TypeOK
  /\ pc = "addr" => addr < Base ^ i /\ len = 0 /\ off = 0
  /\ pc = "len" => len < Base ^ i /\ off = 0
  /\ pc = "put" => off < Limit

(* Of InStep, and of the server below: while a request is served the locals *)
(* of the handler are what it has read of the first one, and what is on the *)
(* line is the rest of that and the others.  Nothing follows a request to   *)
(* leave.                                                                   *)
Serving == pc \in {"addr", "len", "read", "put", "write"}
First == Head(outstanding)

ServingInv ==
  /\ Serving => outstanding # <<>>
  /\ Serving => command = Encode(First)[1] /\ First.kind # "exit"
  /\ pc = "addr" => addr = First.addr % Base ^ i
  /\ pc = "len" => addr = First.addr /\ len = First.len % Base ^ i /\ ~First.short
  /\ pc \in {"read", "put", "write"} => addr = First.addr /\ Limit = First.len
  /\ pc \in {"read", "put"} => First.kind = "read"
  /\ pc = "write" => First.kind = "write"

LineInv ==
  /\ rx \o outgoing =
       IF outstanding = <<>> THEN <<>>
       ELSE SubSeq(Encode(First), Consumed + 1, Len(Encode(First))) \o Wire(Tail(outstanding))
  /\ \A n \in 1 .. Len(outstanding) - 1 : outstanding[n].kind # "exit"
  /\ pc = "exited" => outstanding = <<>>
  /\ pc # "lost" /\ ~enter

BmoInv == WidthInv /\ (Stray = {} => ServingInv /\ LineInv)

(* Binary mode implements a memory that serves requests in order: a reply   *)
(* counts as given when the byte is read, not when there is space for it.   *)
Server == INSTANCE MemServer WITH
  CellAt <- LAMBDA r, k : Cell[(r.addr + k) % Top],
  inbox  <- outstanding,
  at     <- IF pc \in {"read", "write"} THEN off ELSE IF pc = "put" THEN off + 1 ELSE 0,
  outbox <- IF pc = "put" THEN Append(tx, value) ELSE tx,
  closed <- pc = "exited"
ImplementsMemServer == Server!Spec

(* Every request is served, however many are made ahead. *)
Served == (Len(outstanding) = Ahead) ~> (Len(outstanding) < Ahead)

(* monitor/README.md:116: who is in binary mode by accident presses Enter   *)
(* to leave it.  Whatever was typed before, a half-typed request and one to *)
(* read or write a huge block of memory included, Enter often enough does   *)
(* it, unless what was typed, or Enter itself, has been written over what   *)
(* the monitor runs on.                                                     *)
EnterLeaves == enter ~> pc \in {"exited", "lost"}

=============================================================================
