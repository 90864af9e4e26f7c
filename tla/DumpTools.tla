------------------------------ MODULE DumpTools ------------------------------
(***************************************************************************)
(* The tools that look for something in a dump: extract_promontory_fw.py   *)
(* scans a file, such as the image of a mainboard's flash, for Promontory  *)
(* firmware, and validate_brom.py tells how much of a file is a boot ROM.  *)
(***************************************************************************)
EXTENDS FwImage

CONSTANT BromSizes     \* <<0x8000, 0x10000>>
ASSUME BromAssumption ==
    BromSizes \in Seq(Nat) /\ \A k \in DOMAIN BromSizes : BromSizes[k] > 4

(***************************************************************************)
(* find_and_extract_embedded_files, one turn of its loop at an offset: no  *)
(* magic is left, or a candidate at pos is passed over, because its header *)
(* or its length cannot be right, or it is judged by its checksum.         *)
(***************************************************************************)
Magics(data, offset) == {p \in offset..Len(data) - 1 : data[p + 1] = PT}
LengthAt(data, pos)  == Val(data, pos + 1, 2)

(* Mutant: no minimum for the length.                                      *)
Candidate_AnyLength(data, pos) ==
    /\ pos + PromHead <= Len(data)
    /\ pos + LengthAt(data, pos) <= Len(data)

Candidate(data, pos) ==
    /\ pos + PromHead <= Len(data)
    /\ LengthAt(data, pos) >= PromHead
    /\ pos + LengthAt(data, pos) <= Len(data)

Image(data, pos) == Slice(data, pos, pos + LengthAt(data, pos))
ScanSum(image)   ==
    LET end == Len(image) - (Len(image) % Page)
    IN  Total(Slice(image, PromHead, end)) % Base^2

Wanted(data, pos, ignore) ==
    ignore \/ ScanSum(Image(data, pos)) = Val(data, pos + 3, 2)

(* Mutant: a whole header is passed over when a candidate is rejected.     *)
NextOffset_Header(data, pos) ==
    IF Candidate(data, pos) THEN pos + LengthAt(data, pos) ELSE pos + PromHead

NextOffset(data, pos) ==
    IF Candidate(data, pos) THEN pos + LengthAt(data, pos) ELSE pos + 1

(***************************************************************************)
(* validate_brom.main: the first size whose last four bytes are the CRC of *)
(* what is before them.  A file shorter than a size that is tried ends the *)
(* program, with the exception of struct.unpack_from.                      *)
(***************************************************************************)
BromCrcAt(f, size) == Slice(f, size - 4, size) = LE(4, crc32(Slice(f, 0, size - 4)))
BromTried(f) ==
    {k \in DOMAIN BromSizes :
        \A j \in 1..k : Len(f) >= BromSizes[j] /\ (j < k => ~BromCrcAt(f, BromSizes[j]))}

BromValidated(f) ==
    LET found == {k \in BromTried(f) : BromCrcAt(f, BromSizes[k])}
    IN  IF found = {} THEN Refused
        ELSE Good(Slice(f, 0, BromSizes[CHOOSE k \in found : TRUE]), <<>>)
=============================================================================
