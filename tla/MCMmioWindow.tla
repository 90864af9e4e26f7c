---------------------------- MODULE MCMmioWindow ----------------------------
(***************************************************************************)
(* A small instance of MmioWindow: three registers, two values of a byte,  *)
(* accesses of one and two bytes at every address, the one that wraps at   *)
(* the end of the MMIO space included.                                     *)
(***************************************************************************)
EXTENDS MmioWindow

CONSTANT Widths

MCRequests ==
  {[kind |-> "read", addr |-> a, width |-> w, value |-> [j \in 0 .. w - 1 |-> 0],
    confirm |-> FALSE] : a \in RegAddr, w \in Widths}
  \cup
  {[kind |-> "write", addr |-> a, width |-> w, value |-> [j \in 0 .. w - 1 |-> (j + b) % 2],
    confirm |-> c] : a \in RegAddr, w \in Widths, b \in {0, 1}, c \in BOOLEAN}
=============================================================================
