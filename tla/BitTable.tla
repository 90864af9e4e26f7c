------------------------------ MODULE BitTable ------------------------------
(***************************************************************************)
(* The table of the bits of a register in the reference generate_docs.py   *)
(* writes.  A block is Block bits (16 in the code), and every block has a  *)
(* header row with one column per bit, then rows with the permissions and  *)
(* the names of the fields.  The code keeps the cells of a row in bit_spans*)
(* under the highest bit they cover; both rows are written alike, so that  *)
(* one is modelled.                                                        *)
(*                                                                         *)
(* A register is [bytes, bits]: bits is the sequence of its fields, each   *)
(* [start, end], or <<>> where the description has none.                   *)
(***************************************************************************)
EXTENDS Integers, Sequences, SequencesExt

CONSTANT Block
ASSUME BlockAssumption == Block \in Nat /\ Block > 0 /\ Block % 2 = 0

MaxBits(reg)   == reg.bytes * (Block \div 2)
BitRanges(reg) ==
    IF reg.bits = <<>> THEN <<[start |-> 0, end |-> MaxBits(reg) - 1]>> ELSE reg.bits

(* What the descriptions in data/ are like: a register has 1, 2, 4 or 8    *)
(* bytes, or more than 8 and then no table, and no bit is of two fields.   *)
IsRegister(reg) ==
    /\ reg.bytes \in {1, 2, 4, 8} \/ (reg.bytes \in Nat /\ reg.bytes > 8)
    /\ reg.bits \in Seq([start : Nat, end : Nat])
    /\ \A k \in DOMAIN reg.bits :
          reg.bits[k].start <= reg.bits[k].end /\ reg.bits[k].end < MaxBits(reg)
    /\ \A j, k \in DOMAIN reg.bits :
          j # k => reg.bits[j].end < reg.bits[k].start \/ reg.bits[k].end < reg.bits[j].start

unused_bits(reg) ==
    {b \in 0..MaxBits(reg) - 1 :
        \A k \in DOMAIN BitRanges(reg) : b \notin BitRanges(reg)[k].start..BitRanges(reg)[k].end}

(* The part of a field in one block, as <<the bit it is kept under, the    *)
(* field, its span>>.  (Mutant: the upper part is a column short.)         *)
Part_UpperShort(reg, k, block) ==
    LET r   == BitRanges(reg)[k]
        top == block * Block + Block - 1
    IN  IF r.start \div Block = r.end \div Block THEN <<r.end, k, r.end + 1 - r.start>>
        ELSE CASE block = r.end \div Block   -> <<r.end, k, r.end - block * Block>>
               [] block = r.start \div Block -> <<top, k, block * Block + Block - r.start>>
               [] OTHER                      -> <<top, k, Block>>

Part(reg, k, block) ==
    LET r   == BitRanges(reg)[k]
        top == block * Block + Block - 1
    IN  IF r.start \div Block = r.end \div Block THEN <<r.end, k, r.end + 1 - r.start>>
        ELSE CASE block = r.end \div Block   -> <<r.end, k, r.end + 1 - block * Block>>
               [] block = r.start \div Block -> <<top, k, block * Block + Block - r.start>>
               [] OTHER                      -> <<top, k, Block>>

bit_spans(reg) ==
    UNION {{Part(reg, k, b) :
              b \in BitRanges(reg)[k].start \div Block..BitRanges(reg)[k].end \div Block} :
           k \in DOMAIN BitRanges(reg)}

(* A row, from the highest bit: a cell is <<the field, the columns it has>>,*)
(* with field 0 for a bit of no field.  A bit that is neither the highest  *)
(* of a part nor unused gets no cell.                                      *)
CellsOf(reg, bit) ==
    CASE \E s \in bit_spans(reg) : s[1] = bit ->
            LET s == CHOOSE s \in bit_spans(reg) : s[1] = bit IN <<<<s[2], s[3]>>>>
      [] bit \in unused_bits(reg) -> <<<<0, 1>>>>
      [] OTHER -> <<>>
Row(reg, from, to) ==
    FlattenSeq([k \in 1..to - from |-> CellsOf(reg, to - k)])

(* The rows of a table, each [from, to, cells] under the header of the bits*)
(* to - 1 down to from.                                                    *)
Table(reg) ==
    LET max  == MaxBits(reg)
        low  == IF max < Block THEN max ELSE Block
        ends == (IF max > 2 * Block THEN << <<3 * Block, 4 * Block>>, <<2 * Block, 3 * Block>> >> ELSE <<>>)
                \o (IF max > Block THEN << <<Block, 2 * Block>> >> ELSE <<>>)
                \o << <<0, low>> >>
    IN  IF max > 4 * Block THEN <<>>
        ELSE [k \in DOMAIN ends |-> [from |-> ends[k][1], to |-> ends[k][2],
                                     cells |-> Row(reg, ends[k][1], ends[k][2])]]
=============================================================================
