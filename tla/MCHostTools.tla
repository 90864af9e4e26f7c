----------------------------- MODULE MCHostTools -----------------------------
(***************************************************************************)
(* The instance of HostTools for TLC.  A byte has 16 values, so that a 16  *)
(* bit length overflows at 256; a Promontory page is 16 bytes and a header *)
(* 5, and a register block is 4 bits.                                      *)
(***************************************************************************)
EXTENDS HostTools

Count(n) == [k \in 1..n |-> k % Base]

(* Too short for a version, too short to be stamped, whole, ending in      *)
(* zeros, longer than DATA_LEN, and of a length that overflows 16 bits.    *)
MCBinaries == {<<5>>, Count(3), Count(5), <<0, 9, 4, 7, 0, 0>>, Count(10), Count(256)}

(* Promontory images: firmware, and a signature or none.                   *)
Sum(d) == LE(2, Total(d) % Base^2)
Prom(code, sig) ==
    <<PT>> \o LE(2, PromHead + Len(code) + Len(sig)) \o Sum(code) \o code \o sig
Sig == <<0, 6, 0>> \o Count(SigSize)
Plain   == Count(16)
Padded  == Count(11) \o Zeros(5)
TwoPage == Count(16) \o Zeros(16)
MCPromImages == {Prom(Plain, <<>>), Prom(Plain, Sig), Prom(TwoPage, <<>>), Prom(TwoPage, Sig)}

(* What surrounds images in a dump: a magic with nothing behind it, one    *)
(* with a length below that of the header or beyond the end of the file,   *)
(* a candidate whose sum is wrong, alone and around an image.              *)
Bare  == Prom(Padded, <<>>)
Junk  == {<<>>, <<3>>, <<PT>>, <<PT, 0, 0, 0, 0, 0>>, <<PT, 4, 0, 0, 0>>,
          <<PT, 15, 15, 1, 1>>, <<PT, 7, 0, 1, 0, 2, 3>>}
Around == <<PT, 12, 2, 9, 9>> \o Bare \o Zeros(7)
MCContainers ==
    {a \o Bare \o b : a \in Junk, b \in Junk}
        \union {a \o Bare \o b \o Bare : a \in Junk, b \in {<<>>, <<PT>>, <<PT, 7, 0, 1, 0, 2, 3>>}}
        \union {Around \o Bare, Prom(Plain, Sig), <<1>> \o Prom(Padded, Sig) \o Bare}

MCBromSizes == <<8, 16>>
MCRoms == {Count(4), Count(12), Zeros(4), Zeros(12)}

(* Registers without a description of their bits, and with one or two      *)
(* fields, of one block or across several.                                 *)
Ranges(max) == {[start |-> s, end |-> e] : s \in 0..max - 1, e \in 0..max - 1}
Sized(bytes) ==
    LET all == {r \in Ranges(2 * bytes) : r.start <= r.end}
    IN  {<<>>} \union {<<r>> : r \in all}
               \union {<<p[1], p[2]>> : p \in {p \in all \X all : p[1].end < p[2].start}}
MCRegisters ==
    UNION {{[bytes |-> n, bits |-> b] : b \in Sized(n)} : n \in {1, 2, 4, 8}}
        \union {[bytes |-> 9, bits |-> <<>>]}
=============================================================================
