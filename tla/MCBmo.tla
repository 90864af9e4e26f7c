------------------------------- MODULE MCBmo -------------------------------
(***************************************************************************)
(* Small instances of Bmo for TLC.  With two cells of memory the addresses *)
(* select them in turn, and the second is a register that the hardware     *)
(* changes and a write does not; one byte in the first ends the handler,   *)
(* and no request writes it.  The data of the requests look like commands. *)
(***************************************************************************)
EXTENDS Bmo

MCCell == [a \in 0 .. Top - 1 |-> a % 2]
MCFatal == {<<0, MEM_READ>>}

(* Half of the addresses are plain memory, the others are SFRs by their low *)
(* digit.  PCON is cell 1, and has MEMSEL in the bytes 2 and 3; all else is *)
(* cell 0, that nothing depends on.                                         *)
SfrCell == [a \in 0 .. Top - 1 |-> IF a >= Top \div 2 /\ a % 3 = 2 THEN 1 ELSE 0]
SfrFatal == {<<1, b>> : b \in {c \in Byte : (c \div 2) % 2 = 1}}

Read(a)      == [kind |-> "read", short |-> TRUE, addr |-> a, len |-> WordBytes, data |-> <<>>]
Write(a, d)  == [kind |-> "write", short |-> TRUE, addr |-> a, len |-> WordBytes, data |-> d]
ReadMem(a, n)  == [kind |-> "read", short |-> FALSE, addr |-> a, len |-> n, data |-> <<>>]
WriteMem(a, d) == [kind |-> "write", short |-> FALSE, addr |-> a, len |-> Len(d), data |-> d]
Exit == [kind |-> "exit", short |-> FALSE, addr |-> 0, len |-> 0, data |-> <<>>]

MCRequests ==
  {Read(1), Write(0, <<EXIT, MEM_WRITE>>), ReadMem(Top - 1, 3), ReadMem(0, 0),
   WriteMem(Top - 1, <<READ, EXIT, WRITE>>), Exit}
=============================================================================
