---------------------------- MODULE MCHwCodeWrite ----------------------------
(***************************************************************************)
(* A small instance of one call of hw_code_write at several addresses.     *)
(***************************************************************************)
EXTENDS HwCodeWrite

CONSTANTS
  OldLengths,   \* the lengths, in words, of the images of version 1
  NewLengths    \* and of version 2

ImageWord(v, k) == 100 * v + k
ZeroWord == 0
JunkWord == -1
NoneWord == -2

MCImage(v, n) == [len |-> n, word |-> [k \in 0 .. n - 1 |-> ImageWord(v, k)]]
MCImages == {MCImage(1, n) : n \in OldLengths} \cup {MCImage(2, n) : n \in NewLengths}
MCWord == {ImageWord(v, k) : v \in {1, 2}, k \in 0 .. 6 * Q} \cup {JunkWord, ZeroWord}
=============================================================================
