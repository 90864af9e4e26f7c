----------------------------- MODULE MCFwLoader -----------------------------
(***************************************************************************)
(* Small instances of FwLoader for TLC: a quarter bank of one or two words *)
(* (6Q = 6 or 12 words of CODE RAM in generation 2), images of the lengths *)
(* around each bank boundary whose words are all different, and one word   *)
(* that no image contains for what the 8051 stores.                        *)
(***************************************************************************)
EXTENDS FwLoaderInv

CONSTANTS
  OldLengths,   \* the lengths, in words, of the images of version 1
  NewLengths,   \* and of version 2
  ParkLength    \* the length of the program of bug_demo

ImageWord(v, k) == 100 * v + k
ZeroWord == 0
JunkWord == -1
NoneWord == -2

MCImage(v, n) == [len |-> n, word |-> [k \in 0 .. n - 1 |-> ImageWord(v, k)]]
MCPark == MCImage(3, ParkLength)
MCImages == {MCImage(1, n) : n \in OldLengths} \cup {MCImage(2, n) : n \in NewLengths}
            \cup {MCPark}
MCWord == {ImageWord(v, k) : v \in {1, 2, 3}, k \in 0 .. 6 * Q} \cup {JunkWord, ZeroWord}
MCCpuWord == {JunkWord}
MCCpuAddr == {0, CodeSizeLimit - 1}
MCRom     == [len |-> -1, word |-> NoBuffer]
MCSelf    == [len |-> -2, word |-> NoBuffer]
MCCorrupt == [len |-> -3, word |-> NoBuffer]
=============================================================================
