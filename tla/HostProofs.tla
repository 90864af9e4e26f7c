------------------------------ MODULE HostProofs ------------------------------
(***************************************************************************)
(* What holds in every session with the tools beside the loader: the scan  *)
(* for Promontory firmware misses nothing, the trace lets go of the reset, *)
(* the images that are written are read as what they were made of, damage  *)
(* to them is seen, and a field in a table lies under its bits.            *)
(*                                                                         *)
(* NothingMissed speaks of the end of the scan.  The invariant says what is*)
(* true before: everything wanted in front of the offset is written, unless*)
(* a candidate before it claims its bytes, and what is written ends before *)
(* the offset.  A turn of the loop passes over no magic between the offset *)
(* and the one it finds, and those between that one and the next offset are*)
(* in the bytes that it claims.                                            *)
(*                                                                         *)
(* MadeValidates and BypassLoadsCode rest on ImageProofs: the invariant    *)
(* about the session only says that the file is still such an image.  Once *)
(* harm has come to it, the invariant says what of a whole image is left.  *)
(*                                                                         *)
(* A row of a table is written from its highest bit down, and a field's    *)
(* cell is written with its full span when its highest bit in the block is *)
(* reached.  So the columns after k bits are not always k: they reach down *)
(* to the lowest bit of the field that the last of them is in.             *)
(***************************************************************************)
EXTENDS HostTools, ImageProofs, Lemmas, FiniteSetTheorems

Found(pos) == Candidate(file, pos) /\ Wanted(file, pos, ignore) /\ ~Claimed(pos)
End(pos)   == pos + LengthAt(file, pos)

ScanInv ==
    desk = "scan" =>
        /\ file \in Seq(Nat) /\ offset \in Int /\ offset >= 0
        /\ \A pos \in Magics(file, 0) : pos < offset /\ Found(pos) => pos \in written
        /\ written \subseteq {pos \in Magics(file, 0) : Candidate(file, pos)}
        /\ \A p \in written : End(p) <= offset
        /\ \A p, q \in written : p < q => End(p) <= q
        /\ ~scanning => Magics(file, offset) = {}

(* A length that can be read is a number.                                  *)
LEMMA LengthIsInt ==
    ASSUME NEW data \in Seq(Nat), NEW pos \in Int, pos >= 0, pos + PromHead <= Len(data)
    PROVE  LengthAt(data, pos) \in Int
<1>1. Base \in Nat
  BY ImageAssumption
<1>2. /\ Len(data) \in Nat
      /\ pos + 1 + 1 \in 1..Len(data) /\ pos + 1 + 2 \in 1..Len(data)
  BY DEF PromHead
<1>3. data[pos + 1 + 1] \in Nat /\ data[pos + 1 + 2] \in Nat
  BY <1>2
<1>4. LengthAt(data, pos) = data[pos + 1 + 1] + Base * data[pos + 1 + 2]
  BY DEF LengthAt, Val
<1> QED
  BY <1>1, <1>3, <1>4, SMTT(30)

(* What NextOffset does with a magic: it ends behind a candidate, and one  *)
(* position further otherwise.                                             *)
LEMMA NextIsFurther ==
    ASSUME NEW data \in Seq(Nat), NEW pos \in Int, pos >= 0
    PROVE  /\ NextOffset(data, pos) \in Int
           /\ NextOffset(data, pos) > pos
           /\ Candidate(data, pos) => NextOffset(data, pos) = pos + LengthAt(data, pos)
           /\ ~Candidate(data, pos) => NextOffset(data, pos) = pos + 1
<1>1. CASE Candidate(data, pos)
  <2>1. LengthAt(data, pos) \in Int /\ LengthAt(data, pos) >= PromHead
    BY <1>1, LengthIsInt DEF Candidate
  <2> QED
    BY <1>1, <2>1 DEF NextOffset, PromHead
<1>2. CASE ~Candidate(data, pos)
  BY <1>2 DEF NextOffset
<1> QED
  BY <1>1, <1>2

LEMMA ScanInit == Init => ScanInv
<1> SUFFICES ASSUME Init, desk = "scan" PROVE ScanInv
  BY DEF ScanInv
<1>1. file \in Containers /\ scanning
  BY DEF Init, AtDesk
<1>2. file \in Seq(Nat)
  BY <1>1, FilesAssumption
<1>3. offset = 0 /\ written = {}
  BY DEF Init
<1> QED
  BY <1>1, <1>2, <1>3 DEF ScanInv, Magics

(* A turn of the loop.                                                     *)
LEMMA ScanStepKeeps == ScanInv /\ desk = "scan" /\ ScanStep => ScanInv'
<1> SUFFICES ASSUME ScanInv, desk = "scan", ScanStep PROVE ScanInv'
  OBVIOUS
<1>1. desk' = desk /\ file' = file /\ ignore' = ignore
  BY DEF ScanStep, OnlyScan, fileVars
<1>2. /\ file \in Seq(Nat) /\ offset \in Int /\ offset >= 0
      /\ \A pos \in Magics(file, 0) : pos < offset /\ Found(pos) => pos \in written
      /\ written \subseteq {pos \in Magics(file, 0) : Candidate(file, pos)}
      /\ \A p \in written : End(p) <= offset
      /\ \A p, q \in written : p < q => End(p) <= q
  BY DEF ScanInv
<1>3. Len(file) \in Nat
  BY <1>2
<1>4. \A pos : Found(pos)' = Found(pos) /\ End(pos)' = End(pos)
  BY <1>1 DEF Found, End, Claimed
<1>5. CASE /\ Magics(file, offset) = {} /\ scanning' = FALSE
           /\ UNCHANGED <<offset, written>>
  BY <1>1, <1>2, <1>4, <1>5 DEF ScanInv
<1>6. ASSUME NEW pos \in Magics(file, offset),
             \A q \in Magics(file, offset) : pos <= q,
             offset' = NextOffset(file, pos),
             written' = IF Candidate(file, pos) /\ Wanted(file, pos, ignore)
                          THEN written \union {pos} ELSE written,
             scanning' = scanning, scanning
      PROVE  ScanInv'
  <2>1. pos \in Int /\ pos >= offset /\ pos \in Magics(file, 0)
    BY <1>2, <1>3 DEF Magics
  <2>2. /\ offset' \in Int /\ offset' > pos
        /\ Candidate(file, pos) => offset' = End(pos)
        /\ ~Candidate(file, pos) => offset' = pos + 1
    BY <1>2, <1>6, <2>1, NextIsFurther, SMTT(60) DEF End
  <2>3. ASSUME NEW p \in Magics(file, 0), p < offset', Found(p) PROVE p \in written'
    <3>1. p \in Int /\ p >= 0
      BY <1>3 DEF Magics
    <3>2. CASE p < offset
      BY <1>2, <1>6, <2>3, <3>2
    <3>3. CASE p >= offset /\ p # pos
      <4>1. p \in Magics(file, offset)
        BY <1>2, <1>3, <3>1, <3>3 DEF Magics
      <4>2. pos < p
        BY <1>6, <2>1, <3>1, <3>3, <4>1
      <4>3. Candidate(file, pos) /\ End(pos) > p
        BY <2>1, <2>2, <2>3, <3>1, <4>2
      <4>4. Claimed(p)
        BY <2>1, <4>2, <4>3 DEF Claimed, End
      <4> QED
        BY <2>3, <4>4 DEF Found
    <3>4. CASE p = pos
      BY <1>6, <2>3, <3>4 DEF Found
    <3> QED
      BY <1>2, <3>1, <3>2, <3>3, <3>4
  <2>4. \A p \in written : p \in Int /\ p >= 0 /\ End(p) \in Int
    <3> TAKE p \in written
    <3>1. p \in Magics(file, 0) /\ Candidate(file, p)
      BY <1>2
    <3>2. p \in Int /\ p >= 0
      BY <1>3, <3>1 DEF Magics
    <3>3. LengthAt(file, p) \in Int
      BY <1>2, <3>1, <3>2, LengthIsInt DEF Candidate
    <3> QED
      BY <3>2, <3>3 DEF End
  <2>5. written' \subseteq {p \in Magics(file, 0) : Candidate(file, p)}
    BY <1>2, <1>6, <2>1
  <2>6. \A p \in written' : End(p) <= offset'
    <3> TAKE p \in written'
    <3>1. CASE p \in written
      BY <1>2, <2>1, <2>2, <2>4, <3>1
    <3>2. CASE p = pos /\ Candidate(file, pos)
      BY <2>2, <3>2
    <3> QED
      BY <1>6, <3>1, <3>2
  <2>7. \A p, q \in written' : p < q => End(p) <= q
    <3> SUFFICES ASSUME NEW p \in written', NEW q \in written', p < q PROVE End(p) <= q
      OBVIOUS
    <3>1. CASE p \in written /\ q \in written
      BY <1>2, <3>1
    <3>2. CASE p \in written /\ q = pos
      BY <1>2, <2>1, <2>4, <3>2
    <3>3. CASE p = pos /\ Candidate(file, pos) /\ q \in written
      (* What is written begins before the place where it ends.            *)
      <4>1. LengthAt(file, q) \in Int /\ LengthAt(file, q) >= PromHead
        BY <1>2, <2>4, <3>3, LengthIsInt DEF Candidate
      <4>2. q < End(q)
        BY <2>4, <3>3, <4>1 DEF End, PromHead
      <4> QED
        BY <1>2, <2>1, <2>4, <3>3, <4>2
    <3>4. CASE p = pos /\ q = pos
      BY <2>1, <3>4
    <3> QED
      BY <1>6, <3>1, <3>2, <3>3, <3>4
  <2> QED
    BY <1>1, <1>2, <1>4, <1>6, <2>1, <2>2, <2>3, <2>5, <2>6, <2>7 DEF ScanInv
<1> QED
  BY <1>5, <1>6 DEF ScanStep

(* The other tools are not at this desk.                                   *)
LEMMA ScanNext == ScanInv /\ [Next]_vars => ScanInv'
<1> SUFFICES ASSUME ScanInv, [Next]_vars PROVE ScanInv'
  OBVIOUS
<1>1. CASE ScanStep
  <2>1. CASE desk = "scan"
    BY <1>1, <2>1, ScanStepKeeps
  <2>2. CASE desk # "scan"
    BY <1>1, <2>2 DEF ScanStep, OnlyScan, ScanInv
  <2> QED
    BY <2>1, <2>2
<1>2. CASE desk # "scan" /\ desk' = desk
  BY <1>2 DEF ScanInv
<1>3. CASE UNCHANGED <<desk, file, scanVars>>
  BY <1>3 DEF ScanInv, Found, End, Claimed, scanVars
<1>4. ASSUME NEW chip \in DOMAIN CHIP_INFO,
             MakeBinary(chip) \/ \E bypass \in BOOLEAN : MakeImage(chip, bypass)
      PROVE  ScanInv'
  BY <1>2, <1>4 DEF MakeBinary, MakeImage, OnlyFile
<1>5. CASE Harm \/ Validate
  BY <1>2, <1>5 DEF Harm, Validate, OnlyFile
<1>6. CASE Document
  BY <1>2, <1>6 DEF Document, OnlyDoc
<1>7. CASE TraceBegins \/ TraceRuns
  BY <1>2, <1>7 DEF TraceBegins, TraceRuns, OnlyTrace
<1>8. CASE UNCHANGED vars
  BY <1>3, <1>8 DEF vars, fileVars, scanVars
<1> QED
  BY <1>1, <1>4, <1>5, <1>6, <1>7, <1>8 DEF Next

(* The scan of extract_promontory_fw.py misses nothing, whatever is in the *)
(* file: when it ends, every image that passes its own test and is not in  *)
(* the bytes claimed by a candidate before it has been written, and no two *)
(* files share a byte.                                                     *)
THEOREM ScanComplete == Spec => []NothingMissed
<1>1. ScanInv => NothingMissed
  <2> SUFFICES ASSUME ScanInv, desk = "scan", ~scanning PROVE NothingMissed
    BY DEF NothingMissed
  <2>1. \A pos \in Magics(file, 0) : pos < offset
    <3> TAKE pos \in Magics(file, 0)
    <3>1. file \in Seq(Nat) /\ offset \in Int /\ pos \notin Magics(file, offset)
      BY DEF ScanInv
    <3>2. Len(file) \in Nat
      BY <3>1
    <3> QED
      BY <3>1, <3>2 DEF Magics
  <2> QED
    BY <2>1 DEF ScanInv, NothingMissed, Found, End
<1> QED
  BY <1>1, ScanInit, ScanNext, PTL DEF Spec

(* That a trace releases the device, for any number of samples and of runs.*)
(* ResetReleased is inductive as it stands: the flag and where the tool is *)
(* change together, and a run that resets the device gets to its samples   *)
(* only through the write that clears the flag.                            *)
LEMMA ResetStep == ResetReleased /\ [TraceNext]_traceVars => ResetReleased'
<1> SUFFICES ASSUME ResetReleased, [TraceNext]_traceVars
             PROVE  ResetReleased'
  OBVIOUS
<1> USE DEF ResetReleased
<1>1. CASE StartTrace
  BY <1>1 DEF StartTrace, devVars
<1>2. CASE CheckDriver
  BY <1>2 DEF CheckDriver, Proceed
<1>3. CASE OpenDevice
  (* It goes straight to the samples only when there is nothing to reset.  *)
  BY <1>3 DEF OpenDevice, devVars
<1>4. CASE SetReset
  BY <1>4 DEF SetReset
<1>5. CASE ClearReset
  BY <1>5 DEF ClearReset
<1>6. CASE Sample
  BY <1>6 DEF Sample, devVars
<1>7. CASE Fail
  (* A tool that ends before the clearing write leaves the flag, and left  *)
  (* says so.                                                              *)
  BY <1>7 DEF Fail
<1>8. CASE Bind
  BY <1>8 DEF Bind, toolVars
<1>9. CASE UNCHANGED traceVars
  BY <1>9 DEF traceVars, toolVars, devVars
<1> QED
  BY <1>1, <1>2, <1>3, <1>4, <1>5, <1>6, <1>7, <1>8, <1>9 DEF TraceNext, TraceStep

(* The reset flag stays set only after a run that ended before the write   *)
(* that clears it, and a run with --reset through the configuration space  *)
(* samples the device out of reset (main.rs, 216 to 243).                  *)
THEOREM ResetSafe == TraceSpec => []ResetReleased
<1>1. TraceInit => ResetReleased
  BY DEF TraceInit, ResetReleased
<1> QED
  BY <1>1, ResetStep, PTL DEF TraceSpec

(* A trace at its desk is a trace: what is proved of the tool alone holds  *)
(* beside the others.                                                      *)
THEOREM TraceWithin == Spec => TraceSpec
<1>1. Init => TraceInit
  BY DEF Init
<1>2. [Next]_vars => [TraceNext]_traceVars
  <2> SUFFICES ASSUME [Next]_vars PROVE [TraceNext]_traceVars
    OBVIOUS
  <2>1. ASSUME NEW chip \in DOMAIN CHIP_INFO,
               MakeBinary(chip) \/ \E bypass \in BOOLEAN : MakeImage(chip, bypass)
        PROVE  UNCHANGED traceVars
    BY <2>1 DEF MakeBinary, MakeImage, OnlyFile
  <2>2. CASE Harm \/ Validate
    BY <2>2 DEF Harm, Validate, OnlyFile
  <2>3. CASE ScanStep
    BY <2>3 DEF ScanStep, OnlyScan
  <2>4. CASE Document
    BY <2>4 DEF Document, OnlyDoc
  <2>5. CASE TraceBegins \/ TraceRuns
    BY <2>5 DEF TraceBegins, TraceRuns, TraceNext
  <2>6. CASE UNCHANGED vars
    BY <2>6 DEF vars
  <2> QED
    BY <2>1, <2>2, <2>3, <2>4, <2>5, <2>6 DEF Next
<1> QED
  BY <1>1, <1>2, PTL DEF Spec, TraceSpec
-----------------------------------------------------------------------------
(* validate_brom.py tells a ROM from what is behind it.                    *)
LEMMA RomIs ==
  ASSUME NEW r \in Roms, NEW tail, IsSeq(tail)
  PROVE  /\ IsSeq(Rom(r) \o tail) /\ IsSeq(Rom(r))
         /\ BromValidated(Rom(r) \o tail) = Good(Rom(r), <<>>)
<1> DEFINE n == Len(r)
           c == LE(4, crc32(r))
           d == Rom(r)
           f == Rom(r) \o tail
<1>1. r \in Seq(Nat)
  BY FilesAssumption
<1>2. IsSeq(r) /\ n \in Nat
  BY <1>1, SeqIs
<1>3. IsSeq(c) /\ Len(c) = 4
  BY LEIs
<1>4. /\ IsSeq(d) /\ Len(d) = n + 4
      /\ \A i \in 1..n : d[i] = r[i]
      /\ \A i \in 1..4 : d[n + i] = c[i]
  <2>1. d = r \o c
    BY DEF Rom
  <2> HIDE DEF c, d
  <2>2. /\ IsSeq(r \o c) /\ Len(r \o c) = Len(r) + Len(c)
        /\ \A i \in 1..Len(r) : (r \o c)[i] = r[i]
        /\ \A i \in 1..Len(c) : (r \o c)[Len(r) + i] = c[i]
    <3>1. IsSeq(r) /\ IsSeq(c)
      BY <1>2, <1>3
    <3> QED
      BY ONLY <3>1, JoinAt
  <2> QED
    BY <1>3, <2>1, <2>2
<1>5. IsSeq(f) /\ Len(f) >= n + 4 /\ Len(f) \in Nat /\ \A i \in 1..n + 4 : f[i] = d[i]
  <2>1. f = d \o tail
    OBVIOUS
  <2> HIDE DEF d, f
  <2>2. /\ IsSeq(f) /\ Len(f) = Len(d) + Len(tail) /\ Len(tail) \in Nat
        /\ \A i \in 1..Len(d) : f[i] = d[i]
    <3>1. /\ IsSeq(d \o tail) /\ Len(d \o tail) = Len(d) + Len(tail)
          /\ \A i \in 1..Len(d) : (d \o tail)[i] = d[i]
      <4>1. IsSeq(d) /\ IsSeq(tail)
        BY <1>4
      <4> QED
        BY ONLY <4>1, JoinAt, SMTT(30)
    <3>2. Len(tail) \in Nat
      BY DEF IsSeq
    <3> QED
      BY <2>1, <3>1, <3>2
  <2> QED
    BY <1>2, <1>4, <2>2
<1>6. PICK k \in DOMAIN BromSizes :
        /\ n = BromSizes[k] - 4
        /\ \A j \in 1..k - 1 : BromSizes[j] <= n /\ ~BromCrcAt(r, BromSizes[j])
  BY FilesAssumption
<1>7. /\ DOMAIN BromSizes \subseteq Nat
      /\ \A j \in DOMAIN BromSizes : /\ BromSizes[j] \in Nat /\ BromSizes[j] > 4
                                     /\ 1..j \subseteq DOMAIN BromSizes
  <2>1. BromSizes \in Seq(Nat) /\ \A j \in DOMAIN BromSizes : BromSizes[j] > 4
    BY BromAssumption
  <2>2. DOMAIN BromSizes = 1..Len(BromSizes) /\ Len(BromSizes) \in Nat
    BY <2>1
  <2>3. \A j \in DOMAIN BromSizes : BromSizes[j] \in Nat
    BY <2>1
  <2>4. \A j \in DOMAIN BromSizes : 1..j \subseteq DOMAIN BromSizes
    BY <2>2
  <2> QED
    BY <2>1, <2>2, <2>3, <2>4
<1>8. BromSizes[k] = n + 4
  BY <1>2, <1>6, <1>7
<1> HIDE DEF n, c, d, f
<1>9. Slice(f, 0, n + 4) = d
  <2>1. 0 \in Nat /\ n + 4 \in Nat /\ 0 <= n + 4 /\ n + 4 <= Len(f) /\ n + 4 - 0 = n + 4
    BY <1>2, <1>5
  <2>2. \A i \in 1..n + 4 : f[0 + i] = d[i]
    <3> TAKE i \in 1..n + 4
    <3>1. 0 + i = i
      BY <1>2
    <3> QED
      BY <1>5, <3>1
  <2> DEFINE b == n + 4
  <2>3. /\ IsSeq(f) /\ IsSeq(d) /\ 0 \in Nat /\ b \in Nat /\ 0 <= b /\ b <= Len(f)
        /\ Len(d) = b - 0 /\ \A i \in 1..b - 0 : f[0 + i] = d[i]
    BY <1>4, <1>5, <2>1, <2>2
  <2> HIDE DEF b
  <2>4. Slice(f, 0, b) = d
    BY ONLY <2>3, SliceIs, SMTT(30)
  <2> QED
    BY <2>4 DEF b
<1>10. \A i \in 1..n : f[i] = r[i]
  <2> TAKE i \in 1..n
  <2>1. i \in 1..n + 4
    BY <1>2
  <2> QED
    BY <1>4, <1>5, <2>1
<1>11. BromCrcAt(f, n + 4)
  <2>1. Slice(f, n, n + 4) = c
    <3>1. n \in Nat /\ n + 4 \in Nat /\ n <= n + 4 /\ n + 4 <= Len(f) /\ n + 4 - n = 4
      BY <1>2, <1>5
    <3>2. \A i \in 1..4 : f[n + i] = c[i]
      <4> TAKE i \in 1..4
      <4>1. n + i \in 1..n + 4
        BY <1>2
      <4> QED
        BY <1>4, <1>5, <4>1
    <3> DEFINE b == n + 4
    <3>3. b \in Nat /\ n <= b /\ b <= Len(f) /\ Len(c) = b - n
          /\ \A i \in 1..b - n : f[n + i] = c[i]
      BY <1>3, <3>1, <3>2
    <3> HIDE DEF b
    <3>4. Slice(f, n, b) = c
      <4>1. IsSeq(f) /\ IsSeq(c) /\ n \in Nat
        BY <1>2, <1>3, <1>5
      <4> QED
        BY ONLY <3>3, <4>1, SliceIs, SMTT(30)
    <3> QED
      BY <3>4 DEF b
  <2>2. Slice(f, 0, n) = r
    <3>1. 0 \in Nat /\ 0 <= n /\ n <= Len(f) /\ n - 0 = n
      BY <1>2, <1>5
    <3>2. \A i \in 1..n : f[0 + i] = r[i]
      <4> TAKE i \in 1..n
      <4>1. 0 + i = i
        BY <1>2
      <4> QED
        BY <1>10, <4>1
    <3>3. IsSeq(r) /\ Len(r) = n
      BY <1>2 DEF n
    <3> QED
      BY <1>2, <1>5, <3>1, <3>2, <3>3, SliceIs
  <2> DEFINE b == n + 4
             a == b - 4
  <2>3. Slice(f, a, b) = c /\ Slice(f, 0, a) = r
    <3>1. a = n
      BY <1>2
    <3> HIDE DEF a
    <3> QED
      BY <2>1, <2>2, <3>1
  <2> HIDE DEF a
  <2>4. Slice(f, a, b) = LE(4, crc32(Slice(f, 0, a)))
    BY <2>3 DEF c
  <2> QED
    BY <2>4 DEF BromCrcAt, a
<1>12. ASSUME NEW s \in Nat, s > 4, s <= n PROVE BromCrcAt(f, s) <=> BromCrcAt(r, s)
  <2>1. /\ IsSeq(r) /\ Len(r) = n /\ n <= Len(f)
        /\ 0 \in Nat /\ s - 4 \in Nat /\ 0 <= s - 4 /\ s - 4 <= s /\ s - 4 <= n
    BY <1>2, <1>5, <1>12 DEF n
  <2>2. Slice(f, s - 4, s) = Slice(r, s - 4, s)
    BY <1>5, <1>10, <1>12, <2>1, SliceOfLonger
  <2>3. Slice(f, 0, s - 4) = Slice(r, 0, s - 4)
    <3> DEFINE b == s - 4
    <3>1. /\ IsSeq(r) /\ IsSeq(f) /\ Len(r) <= Len(f) /\ \A i \in 1..Len(r) : f[i] = r[i]
          /\ 0 \in Nat /\ b \in Nat /\ 0 <= b /\ b <= Len(r)
      BY <1>5, <1>10, <2>1
    <3> HIDE DEF b
    <3>2. Slice(f, 0, b) = Slice(r, 0, b)
      BY ONLY <3>1, SliceOfLonger, SMTT(30)
    <3> QED
      BY <3>2 DEF b
  <2> QED
    BY <2>2, <2>3 DEF BromCrcAt
<1>13. \A j \in 1..k - 1 : j \in DOMAIN BromSizes /\ BromSizes[j] <= n /\ ~BromCrcAt(f, BromSizes[j])
  <2> TAKE j \in 1..k - 1
  <2>1. k \in Nat /\ j \in 1..k
    BY <1>7
  <2>2. j \in DOMAIN BromSizes
    BY <1>7, <2>1
  <2>3. BromSizes[j] \in Nat /\ BromSizes[j] > 4 /\ BromSizes[j] <= n /\ ~BromCrcAt(r, BromSizes[j])
    BY <1>6, <1>7, <2>2 DEF n
  <2> QED
    BY <1>12, <2>2, <2>3
<1> DEFINE found == {j \in BromTried(f) : BromCrcAt(f, BromSizes[j])}
<1>14. found = {k}
  <2>1. k \in found
    <3>1. \A j \in 1..k : Len(f) >= BromSizes[j] /\ (j < k => ~BromCrcAt(f, BromSizes[j]))
      <4> TAKE j \in 1..k
      <4>1. CASE j = k
        BY <1>5, <1>7, <1>8, <4>1
      <4>2. CASE j \in 1..k - 1
        BY <1>2, <1>5, <1>7, <1>13, <4>2
      <4> QED
        BY <1>7, <4>1, <4>2
    <3> QED
      BY <1>8, <1>11, <3>1 DEF BromTried
  <2>2. ASSUME NEW j \in found PROVE j = k
    <3>1. /\ j \in DOMAIN BromSizes /\ BromCrcAt(f, BromSizes[j])
          /\ \A i \in 1..j : i < j => ~BromCrcAt(f, BromSizes[i])
      BY DEF BromTried
    <3>2. j \in Nat /\ k \in Nat /\ j \in 1..j /\ k \in 1..k
      <4>1. j \in 1..Len(BromSizes) /\ k \in 1..Len(BromSizes)
        BY <3>1, BromAssumption
      <4> QED
        BY <4>1
    <3>3. ~ (j < k)
      <4>1. j < k => j \in 1..k - 1
        BY <3>2
      <4> QED
        BY <1>13, <3>1, <4>1
    <3>4. ~ (k < j)
      <4>1. k < j => k \in 1..j
        BY <3>2
      <4> QED
        BY <1>8, <1>11, <3>1, <4>1
    <3> QED
      BY <3>2, <3>3, <3>4
  <2> QED
    BY <2>1, <2>2
<1>15. BromValidated(f) = [ok |-> TRUE, writes |-> <<>>, code |-> d]
  <2>1. (CHOOSE j \in found : TRUE) = k
    BY <1>14
  <2>2. found # {}
    BY <1>14
  <2> QED
    BY <1>8, <1>9, <2>1, <2>2 DEF BromValidated, Good
<1> QED
  BY <1>4, <1>5, <1>15 DEF Good, d, f
-----------------------------------------------------------------------------
(* What a session knows about its file: as long as no harm has come to it, *)
(* an image is what make_image.py makes of the binary, the dumps are those *)
(* the session began with, and a verdict is the one on the file.           *)
Kept(f, o) == file = f /\ original = o /\ verdict \in {Unread, o}

ImageInv ==
    desk = "image" =>
        /\ binary \in Seq(Nat)
        /\ stamped => Len(binary) > MagicAt
        /\ original = Unread => file = <<>> /\ verdict = Unread
        /\ intact /\ original # Unread =>
             \E chip \in DOMAIN CHIP_INFO, bypass \in BOOLEAN :
                /\ Fits(chip, binary)
                /\ file = Made(chip, bypass, binary)
                /\ original = Good(binary, Writes(file))
                /\ verdict \in {Unread, Validated(file)}

DumpInv ==
    /\ desk = "file" /\ intact =>
         \E f \in PromImages : Kept(f, Good(PromCode(f), <<>>))
    /\ desk = "rom" /\ intact =>
         \E r \in Roms, tail \in {<<>>, <<0, 1>>} : Kept(Rom(r) \o tail, Good(Rom(r), <<>>))
    /\ desk \notin {"image", "file", "rom"} => verdict = Unread

(* The types, with what the other desks leave alone.                       *)
FileTypes ==
    /\ IsSeq(file)
    /\ verdict.ok \in BOOLEAN /\ (~verdict.ok => verdict \in {Unread, Refused})
    /\ IF desk = "scan" THEN offset \in 0..Len(file) /\ written \subseteq 0..Len(file) - 1
                        ELSE offset = 0 /\ written = {} /\ ~scanning

TraceTypes ==
    /\ step \in {"off", "driver", "open", "set", "clear", "sample"}
    /\ path \in {"config", "bar0"} /\ taken \in 0..Samples /\ runs \in 0..Runs
    /\ {bound, held, left} \subseteq BOOLEAN

FilesInv == ImageInv /\ DumpInv /\ FileTypes
LEMMA UnreadIsNotGood ==
  ASSUME NEW c, NEW ws
  PROVE  Good(c, ws) # Unread /\ Good(c, ws).ok = TRUE /\ Unread.ok = FALSE
         /\ Refused.ok = FALSE
<1>1. Good(c, ws).ok = TRUE /\ Unread.ok = FALSE /\ Refused.ok = FALSE
  BY DEF Good, Unread, Refused
<1> QED
  BY <1>1

LEMMA VerdictIs ==
  ASSUME NEW f
  PROVE  \A v \in {Unread, Validated(f), BromValidated(f)} :
           v.ok \in BOOLEAN /\ (~v.ok => v \in {Unread, Refused})
<1>1. Validated(f) = Refused \/ Validated(f).ok = TRUE
  BY DEF Validated, Good
<1>2. BromValidated(f) = Refused \/ BromValidated(f).ok = TRUE
  BY DEF BromValidated, Good
<1>3. Unread.ok = FALSE /\ Refused.ok = FALSE
  BY UnreadIsNotGood
<1> QED
  BY <1>1, <1>2, <1>3

LEMMA EmptyIs == IsSeq(<<>>) /\ Len(<<>>) = 0
<1>1. <<>> \in Seq(Nat)
  OBVIOUS
<1> QED
  BY <1>1, SeqIs

LEMMA TailIs == \A tail \in {<<>>, <<0, 1>>} : IsSeq(tail)
<1>1. <<0, 1>> \in Seq(Nat)
  OBVIOUS
<1>2. IsSeq(<<0, 1>>)
  BY <1>1, SeqIs
<1> QED
  BY <1>2, EmptyIs

(* The verdict on what make_image.py writes.                               *)
LEMMA MadeVerdict ==
  ASSUME NEW chip \in DOMAIN CHIP_INFO, NEW bypass \in BOOLEAN, NEW code \in Seq(Nat),
         Fits(chip, code), NEW f, f = Made(chip, bypass, code)
  PROVE  Validated(f) = IF Len(code) >= VersionEnd THEN Good(code, Writes(f)) ELSE Refused
<1>1. ~IsProm(f) /\ (XhcAccepts(f) <=> Len(code) >= VersionEnd)
  BY MadeIsAccepted
<1>2. XhcCode(f) = code
  BY BodyRead
<1> QED
  BY <1>1, <1>2 DEF Validated, Good

(* Types, and what the session knows, at the start.                        *)
LEMMA FilesInit == Init => FilesInv
<1> SUFFICES ASSUME Init PROVE FilesInv
  OBVIOUS
<1>1. /\ stamped = FALSE /\ intact = TRUE /\ verdict = Unread /\ offset = 0 /\ written = {}
  BY DEF Init
<1>2. CASE desk = "image"
  <2>1. file = <<>> /\ original = Unread /\ binary \in Binaries /\ ~scanning
    BY <1>2 DEF Init, AtDesk
  <2>2. binary \in Seq(Nat)
    BY <2>1, FilesAssumption
  <2> QED
    BY <1>1, <1>2, <2>1, <2>2, EmptyIs, VerdictIs DEF FilesInv, ImageInv, DumpInv, FileTypes
<1>3. CASE desk = "file"
  <2>1. PICK f \in PromImages : file = f /\ original = Good(PromCode(f), <<>>) /\ ~scanning
    BY <1>3 DEF Init, AtDesk
  <2>2. f \in Seq(Nat)
    BY FilesAssumption
  <2>3. IsSeq(file)
    BY <2>1, <2>2, SeqIs
  <2> QED
    BY <1>1, <1>3, <2>1, <2>3, VerdictIs DEF FilesInv, ImageInv, DumpInv, FileTypes, Kept
<1>4. CASE desk = "rom"
  <2>1. PICK r \in Roms, tail \in {<<>>, <<0, 1>>} :
          file = Rom(r) \o tail /\ original = Good(Rom(r), <<>>) /\ ~scanning
    BY <1>4 DEF Init, AtDesk
  <2>2. IsSeq(tail)
    BY TailIs
  <2>3. IsSeq(file)
    BY <2>1, <2>2, RomIs
  <2> QED
    BY <1>1, <1>4, <2>1, <2>3, VerdictIs DEF FilesInv, ImageInv, DumpInv, FileTypes, Kept
<1>5. CASE desk = "scan"
  <2>1. file \in Containers
    BY <1>5 DEF Init, AtDesk
  <2>2. file \in Seq(Nat)
    BY <2>1, FilesAssumption
  <2>3. IsSeq(file) /\ Len(file) \in Nat
    BY <2>2, SeqIs
  <2> QED
    BY <1>1, <1>5, <2>3, VerdictIs DEF FilesInv, ImageInv, DumpInv, FileTypes
<1>6. CASE desk \in {"register", "trace"}
  <2>1. file = <<>> /\ ~scanning
    BY <1>6 DEF Init, AtDesk
  <2> QED
    BY <1>1, <1>6, <2>1, EmptyIs, VerdictIs DEF FilesInv, ImageInv, DumpInv, FileTypes
<1> QED
  BY <1>2, <1>3, <1>4, <1>5, <1>6 DEF Init, AtDesk

(* make_image.py: what it has stamped is still a binary.                   *)
LEMMA BinaryKeeps ==
  ASSUME FilesInv, NEW chip \in DOMAIN CHIP_INFO, MakeBinary(chip)
  PROVE  FilesInv'
<1>1. /\ desk = "image" /\ Len(binary) > MagicAt /\ binary' = add_fw_meta(chip, binary)
      /\ UNCHANGED <<desk, file, original, intact, verdict, offset, written, scanning>>
      /\ file = <<>>
  BY DEF MakeBinary, Stampable, OnlyFile, scanVars
<1>2. binary \in Seq(Nat) /\ MagicAt \in Nat /\ CHIP_INFO[chip] \in Nat
  BY <1>1, ImageAssumption, ChipsAre, SMTT(30) DEF FilesInv, ImageInv
<1>3. binary' \in Seq(Nat) /\ Len(binary') = Len(binary)
  BY <1>1, <1>2 DEF add_fw_meta
<1>4. ~(intact /\ original # Unread)
  <2> SUFFICES ASSUME intact, original # Unread PROVE FALSE
    OBVIOUS
  <2>1. PICK c \in DOMAIN CHIP_INFO, b \in BOOLEAN :
          Fits(c, binary) /\ file = Made(c, b, binary)
    BY <1>1 DEF FilesInv, ImageInv
  <2>2. file # <<>>
    BY <1>2, <2>1, MadeIsAccepted
  <2> QED
    BY <1>1, <2>2
<1>5. ImageInv'
  BY <1>1, <1>3, <1>4 DEF FilesInv, ImageInv
<1>6. DumpInv'
  BY <1>1 DEF DumpInv
<1>7. FileTypes'
  BY <1>1 DEF FilesInv, FileTypes
<1> QED
  BY <1>5, <1>6, <1>7 DEF FilesInv

LEMMA ImageKeeps ==
  ASSUME FilesInv, NEW chip \in DOMAIN CHIP_INFO, NEW bypass \in BOOLEAN,
         MakeImage(chip, bypass)
  PROVE  FilesInv'
<1>1. /\ desk = "image" /\ file = <<>> /\ Fits(chip, binary)
      /\ file' = Made(chip, bypass, binary) /\ original' = Good(binary, Writes(file'))
      /\ UNCHANGED <<desk, binary, stamped, intact, verdict, offset, written, scanning>>
  BY DEF MakeImage, OnlyFile, scanVars, Made
<1>2. binary \in Seq(Nat)
  BY <1>1 DEF FilesInv, ImageInv
<1>3. IsSeq(file')
  BY <1>1, <1>2, MadeIsAccepted
<1>4. original' # Unread
  BY <1>1, UnreadIsNotGood
<1>5. intact => verdict = Unread
  <2> SUFFICES ASSUME intact PROVE verdict = Unread
    OBVIOUS
  <2>1. CASE original = Unread
    BY <1>1, <2>1 DEF FilesInv, ImageInv
  <2>2. CASE original # Unread
    <3>1. PICK c \in DOMAIN CHIP_INFO, b \in BOOLEAN :
            Fits(c, binary) /\ file = Made(c, b, binary)
      BY <1>1, <2>2 DEF FilesInv, ImageInv
    <3>2. file # <<>>
      BY <1>2, <3>1, MadeIsAccepted
    <3> QED
      BY <1>1, <3>2
  <2> QED
    BY <2>1, <2>2
<1>6. ImageInv'
  <2>1. intact' =>
          /\ Fits(chip, binary') /\ file' = Made(chip, bypass, binary')
          /\ original' = Good(binary', Writes(file'))
          /\ verdict' \in {Unread, Validated(file')}
    BY <1>1, <1>5
  <2> QED
    BY <1>1, <1>4, <2>1 DEF FilesInv, ImageInv
<1>7. DumpInv'
  BY <1>1 DEF DumpInv
<1>8. FileTypes'
  BY <1>1, <1>3 DEF FilesInv, FileTypes
<1> QED
  BY <1>6, <1>7, <1>8 DEF FilesInv

(* Harm leaves a sequence, and nothing else to know.                       *)
LEMMA HarmKeeps ==
  ASSUME FilesInv, Harm
  PROVE  FilesInv'
<1>1. /\ desk \in {"image", "file", "rom"} /\ intact' = FALSE /\ verdict' = Unread
      /\ UNCHANGED <<desk, binary, stamped, original, offset, written, scanning>>
      /\ file # <<>>
  BY DEF Harm, OnlyFile, scanVars
<1>2. IsSeq(file) /\ Len(file) \in Nat /\ DOMAIN file = 1..Len(file)
  <2>1. IsSeq(file)
    BY DEF FilesInv, FileTypes
  <2>2. file \in Seq(Range(file))
    BY <2>1 DEF IsSeq
  <2> QED
    BY <2>1, <2>2, SeqIs
<1>3. IsSeq(file')
  <2>1. ASSUME NEW k \in DOMAIN file, NEW x, file' = [file EXCEPT ![k] = x]
        PROVE  IsSeq(file')
    <3> DEFINE n == Len(file)
    <3>1. file' = [j \in 1..n |-> file'[j]]
      BY <1>2, <2>1
    <3>2. n \in Nat
      BY <1>2
    <3> HIDE DEF n
    <3> QED
      BY <3>1, <3>2, FunctionIs
  <2>2. ASSUME NEW n \in 0..Len(file) - 1, file' = SubSeq(file, 1, n)
        PROVE  IsSeq(file')
    <3> DEFINE z == 0
    <3>1. z \in Nat /\ n \in Nat /\ z <= n /\ n <= Len(file) /\ z + 1 = 1
      BY <1>2
    <3> HIDE DEF z
    <3>2. IsSeq(SubSeq(file, z + 1, n))
      BY <1>2, <3>1, PartIs
    <3> QED
      BY <2>2, <3>1, <3>2
  <2> QED
    BY <2>1, <2>2 DEF Harm
<1>4. ImageInv'
  <2>1. desk = "image" => original # Unread
    BY <1>1 DEF FilesInv, ImageInv
  <2> QED
    BY <1>1, <2>1 DEF FilesInv, ImageInv
<1>5. DumpInv'
  BY <1>1 DEF DumpInv
<1>6. FileTypes'
  BY <1>1, <1>3, VerdictIs DEF FilesInv, FileTypes
<1> QED
  BY <1>4, <1>5, <1>6 DEF FilesInv

(* A validation of a file that no harm has come to finds what it holds.    *)
LEMMA ValidateKeeps ==
  ASSUME FilesInv, Validate
  PROVE  FilesInv'
<1>1. /\ desk \in {"image", "file", "rom"}
      /\ verdict' = IF desk = "rom" THEN BromValidated(file) ELSE Validated(file)
      /\ desk = "image" => original # Unread
      /\ UNCHANGED <<desk, binary, stamped, file, original, intact, offset, written, scanning>>
  BY DEF Validate, OnlyFile, scanVars
<1>2. ImageInv'
  BY <1>1 DEF FilesInv, ImageInv
<1>3. DumpInv'
  <2>1. ASSUME desk = "file", intact
        PROVE  \E f \in PromImages : Kept(f, Good(PromCode(f), <<>>))'
    <3>1. PICK f \in PromImages : file = f /\ original = Good(PromCode(f), <<>>)
      BY <2>1 DEF FilesInv, DumpInv, Kept
    <3>2. IsProm(f) /\ PromAccepts(f)
      BY FilesAssumption
    <3>3. Validated(file) = original
      BY <3>1, <3>2 DEF Validated, Good
    <3> QED
      BY <1>1, <2>1, <3>1, <3>3 DEF Kept
  <2>2. ASSUME desk = "rom", intact
        PROVE  \E r \in Roms, tail \in {<<>>, <<0, 1>>} :
                 Kept(Rom(r) \o tail, Good(Rom(r), <<>>))'
    <3>1. PICK r \in Roms, tail \in {<<>>, <<0, 1>>} :
            file = Rom(r) \o tail /\ original = Good(Rom(r), <<>>)
      BY <2>2 DEF FilesInv, DumpInv, Kept
    <3>2. IsSeq(tail)
      BY TailIs
    <3>3. BromValidated(file) = original
      BY <3>1, <3>2, RomIs
    <3> QED
      BY <1>1, <2>2, <3>1, <3>3 DEF Kept
  <2> QED
    BY <1>1, <2>1, <2>2 DEF DumpInv
<1>4. FileTypes'
  BY <1>1, VerdictIs DEF FilesInv, FileTypes
<1> QED
  BY <1>2, <1>3, <1>4 DEF FilesInv

(* A turn of the scan stays in the file.                                   *)
LEMMA ScanKeepsTypes ==
  ASSUME FilesInv, ScanInv, ScanStep
  PROVE  FilesInv'
<1>1. UNCHANGED <<desk, binary, stamped, file, original, intact, verdict>>
  BY DEF ScanStep, OnlyScan, fileVars
<1>2. desk = "scan"
  BY DEF FilesInv, FileTypes, ScanStep
<1>3. file \in Seq(Nat) /\ Len(file) \in Nat /\ offset \in 0..Len(file)
      /\ written \subseteq 0..Len(file) - 1
  BY <1>2 DEF FilesInv, FileTypes, ScanInv
<1>4. offset' \in 0..Len(file) /\ written' \subseteq 0..Len(file) - 1
  <2>1. CASE UNCHANGED <<offset, written>>
    BY <1>3, <2>1
  <2>2. ASSUME NEW pos \in Magics(file, offset), offset' = NextOffset(file, pos),
               written' \in {written, written \union {pos}}
        PROVE  offset' \in 0..Len(file) /\ written' \subseteq 0..Len(file) - 1
    <3>1. pos \in 0..Len(file) - 1 /\ pos \in Int /\ pos >= 0
      BY <1>3 DEF Magics
    <3>2. /\ NextOffset(file, pos) \in Int /\ NextOffset(file, pos) > pos
          /\ Candidate(file, pos) => NextOffset(file, pos) = pos + LengthAt(file, pos)
          /\ ~Candidate(file, pos) => NextOffset(file, pos) = pos + 1
      BY <1>3, <3>1, NextIsFurther
    <3>3. NextOffset(file, pos) <= Len(file)
      BY <1>3, <3>1, <3>2 DEF Candidate
    <3> QED
      BY <1>3, <2>2, <3>1, <3>2, <3>3
  <2> QED
    BY <2>1, <2>2 DEF ScanStep
<1>5. ImageInv' /\ DumpInv'
  BY <1>1, <1>2 DEF FilesInv, ImageInv, DumpInv
<1>6. FileTypes'
  BY <1>1, <1>2, <1>4 DEF FilesInv, FileTypes
<1> QED
  BY <1>5, <1>6 DEF FilesInv

LEMMA FilesNext == FilesInv /\ ScanInv /\ [Next]_vars => FilesInv'
<1> SUFFICES ASSUME FilesInv, ScanInv, [Next]_vars PROVE FilesInv'
  OBVIOUS
<1>1. CASE UNCHANGED <<desk, fileVars, scanVars>>
  <2>1. UNCHANGED <<desk, binary, stamped, file, original, intact, verdict,
                    offset, scanning, written>>
    BY <1>1 DEF fileVars, scanVars
  <2>2. ImageInv'
    BY <2>1 DEF FilesInv, ImageInv
  <2>3. DumpInv'
    BY <2>1 DEF FilesInv, DumpInv, Kept
  <2>4. FileTypes'
    BY <2>1 DEF FilesInv, FileTypes
  <2> QED
    BY <2>2, <2>3, <2>4 DEF FilesInv
<1>2. CASE Document
  BY <1>1, <1>2 DEF Document, OnlyDoc
<1>3. CASE TraceBegins \/ TraceRuns
  BY <1>1, <1>3 DEF TraceBegins, TraceRuns, OnlyTrace
<1>4. CASE UNCHANGED vars
  BY <1>1, <1>4 DEF vars
<1> QED
  BY <1>2, <1>3, <1>4, BinaryKeeps, ImageKeeps, HarmKeeps, ValidateKeeps, ScanKeepsTypes DEF Next

(* The trace's own types.                                                  *)
LEMMA TraceTypesInit == TraceInit => TraceTypes
<1> SUFFICES ASSUME TraceInit PROVE TraceTypes
  OBVIOUS
<1>1. taken \in 0..Samples /\ runs \in 0..Runs
  BY TraceAssumption DEF TraceInit
<1>2. bound \in BOOLEAN /\ held \in BOOLEAN /\ left \in BOOLEAN
  BY DEF TraceInit
<1>3. step = "off" /\ path = "config"
  BY DEF TraceInit
<1> QED
  BY <1>1, <1>2, <1>3 DEF TraceTypes

LEMMA TraceTypesNext == TraceTypes /\ [TraceNext]_traceVars => TraceTypes'
<1> SUFFICES ASSUME TraceTypes, [TraceNext]_traceVars PROVE TraceTypes'
  OBVIOUS
<1> USE TraceAssumption DEF TraceTypes
<1>1. CASE StartTrace
  BY <1>1 DEF StartTrace, devVars
<1>2. CASE CheckDriver
  BY <1>2 DEF CheckDriver, Proceed
<1>3. CASE OpenDevice
  BY <1>3 DEF OpenDevice, devVars
<1>4. CASE SetReset
  BY <1>4 DEF SetReset
<1>5. CASE ClearReset
  BY <1>5 DEF ClearReset
<1>6. CASE Sample
  BY <1>6 DEF Sample, devVars
<1>7. CASE Fail
  BY <1>7 DEF Fail
<1>8. CASE Bind
  BY <1>8 DEF Bind, toolVars
<1>9. CASE UNCHANGED traceVars
  BY <1>9 DEF traceVars, toolVars, devVars
<1> QED
  BY <1>1, <1>2, <1>3, <1>4, <1>5, <1>6, <1>7, <1>8, <1>9 DEF TraceNext, TraceStep

LEMMA TraceTypesHold == Spec => []TraceTypes
  BY TraceTypesInit, TraceTypesNext, TraceWithin, PTL DEF TraceSpec

LEMMA FilesHold == Spec => []FilesInv
  BY FilesInit, FilesNext, ScanInit, ScanNext, PTL DEF Spec

(* The verdict of a validator is one it can give, the scan stays in its    *)
(* file, and the trace takes no more samples than it was asked for.        *)
THEOREM HostTypes == Spec => []TypeOK
<1>1. FilesInv /\ TraceTypes => TypeOK
  <2> SUFFICES ASSUME FilesInv, TraceTypes PROVE TypeOK
    OBVIOUS
  <2>1. offset \in 0..Len(file) + 1 /\ written \subseteq 0..Len(file) - 1
    <3>1. Len(file) \in Nat
      BY DEF FilesInv, FileTypes, IsSeq
    <3> QED
      BY <3>1 DEF FilesInv, FileTypes
  <2> QED
    BY <2>1 DEF FilesInv, FileTypes, TraceTypes, TypeOK
<1> QED
  BY <1>1, FilesHold, TraceTypesHold, PTL

(* validate_fw.py accepts every image that make_image.py writes, of every  *)
(* chip, with and without -s, and reads from it the binary and the register*)
(* writes it was made of, for any binary whose length fits its field; it   *)
(* refuses one that is too short to hold a version.  It accepts the        *)
(* Promontory images, and validate_brom.py tells a ROM from its dump.      *)
THEOREM MadeIsValid == Spec => []MadeValidates
<1>1. FilesInv => MadeValidates
  <2> SUFFICES ASSUME FilesInv, intact, verdict # Unread
               PROVE  \/ verdict = original
                      \/ /\ desk = "image" /\ ~stamped
                         /\ Len(binary) < VersionEnd /\ verdict = Refused
    BY DEF MadeValidates
  <2>1. CASE desk = "image"
    <3>1. binary \in Seq(Nat) /\ (stamped => Len(binary) > MagicAt) /\ original # Unread
      BY <2>1 DEF FilesInv, ImageInv
    <3>2. PICK chip \in DOMAIN CHIP_INFO, bypass \in BOOLEAN :
            /\ Fits(chip, binary) /\ file = Made(chip, bypass, binary)
            /\ original = Good(binary, Writes(file)) /\ verdict = Validated(file)
      BY <2>1, <3>1 DEF FilesInv, ImageInv
    <3>3. verdict = IF Len(binary) >= VersionEnd THEN original ELSE Refused
      BY <3>1, <3>2, MadeVerdict
    <3>4. stamped => Len(binary) >= VersionEnd
      BY <3>1, ImageAssumption
    <3>5. Len(binary) >= VersionEnd \/ Len(binary) < VersionEnd
      BY <3>1, ImageAssumption
    <3> QED
      BY <2>1, <3>3, <3>4, <3>5
  <2>2. CASE desk # "image"
    BY <2>2 DEF FilesInv, DumpInv, Kept
  <2> QED
    BY <2>1, <2>2
<1> QED
  BY <1>1, FilesHold, PTL

(* What the ROM of an ASM3242 runs of an image made with -s is the binary, *)
(* if no longer than DATA_LEN: the flash address in the header is that of  *)
(* the code behind the header, its seal and the length, however many writes*)
(* pass the time, and nothing starts before all of it has been set up.     *)
THEOREM BypassRuns == Spec => []BypassLoadsCode
<1>1. FilesInv => BypassLoadsCode
  <2> SUFFICES ASSUME FilesInv, intact, verdict.ok, desk = "image",
                      Len(verdict.writes) > 0, Len(binary) <= DataLen
               PROVE  IsPrefix(binary, RomRuns(file))
    BY DEF BypassLoadsCode
  <2>1. verdict # Unread /\ verdict # Refused
    BY UnreadIsNotGood
  <2>2. binary \in Seq(Nat) /\ original # Unread
    BY <2>1 DEF FilesInv, ImageInv
  <2>3. PICK chip \in DOMAIN CHIP_INFO, bypass \in BOOLEAN :
          /\ Fits(chip, binary) /\ file = Made(chip, bypass, binary)
          /\ verdict = Validated(file)
    BY <2>1, <2>2 DEF FilesInv, ImageInv
  <2>4. verdict = Good(binary, Writes(file))
    BY <2>1, <2>2, <2>3, MadeVerdict
  <2>5. Len(Writes(file)) > 0
    BY <2>4 DEF Good
  <2> QED
    BY <2>2, <2>3, <2>5, RomLoads
<1> QED
  BY <1>1, FilesHold, PTL
-----------------------------------------------------------------------------
(* The image at a desk comes of a whole one, which reads as the original,  *)
(* and a verdict that accepts is of the file as it is.                     *)
WholeInv ==
  desk \in {"image", "file"} =>
    /\ verdict.ok => verdict = Validated(file) /\ original # Unread
    /\ original # Unread =>
         \E f : /\ Whole(f) /\ original = Reading(f) /\ LeftOf(f, file)
                /\ intact => file = f
    /\ original = Unread => desk = "image" /\ file = <<>>

(* The one harm that none of the checks is made for: a cell has changed    *)
(* that says where the parts of the image are.                             *)
LengthHarmed ==
  \E f : /\ Whole(f) /\ original = Reading(f)
         /\ \E k \in Steers(f) : ChangedAt(f, file, k)

LEMMA HarmIsSeen ==
  ASSUME WholeInv, desk \in {"image", "file"}, verdict.ok
  PROVE  verdict = original \/ LengthHarmed
<1>1. verdict = Validated(file) /\ original # Unread
  BY DEF WholeInv
<1>2. PICK f : Whole(f) /\ original = Reading(f) /\ LeftOf(f, file)
  BY <1>1 DEF WholeInv
<1>3. f \in Seq(Nat)
  BY <1>2 DEF Whole
<1>4. CASE file = f
  <2>1. verdict = Reading(file)
    BY <1>1, AcceptedIsRead
  <2> QED
    BY <1>2, <1>4, <2>1
<1>5. ASSUME NEW n \in 0..Len(f), file = SubSeq(f, 1, n)
      PROVE  verdict = original
  BY <1>1, <1>2, <1>3, <1>5, CutSeen
<1>6. ASSUME NEW k \in DOMAIN f, ChangedAt(f, file, k)
      PROVE  verdict = original \/ LengthHarmed
  <2>1. CASE k \in Steers(f)
    BY <1>2, <1>6, <2>1 DEF LengthHarmed
  <2>2. CASE k \notin Steers(f)
    BY <1>1, <1>2, <1>6, <2>2, ChangeSeen
  <2> QED
    BY <2>1, <2>2
<1> QED
  BY <1>2, <1>4, <1>5, <1>6 DEF LeftOf

LEMMA WholeInit == Init => WholeInv
<1> SUFFICES ASSUME Init PROVE WholeInv
  OBVIOUS
<1>1. verdict = Unread /\ ~verdict.ok
  BY DEF Init, Unread
<1>2. CASE desk = "image"
  <2>1. file = <<>> /\ original = Unread
    BY <1>2 DEF Init, AtDesk
  <2> QED
    BY <1>1, <1>2, <2>1 DEF WholeInv
<1>3. CASE desk = "file"
  <2>1. PICK f \in PromImages : file = f /\ original = Good(PromCode(f), <<>>)
    BY <1>3 DEF Init, AtDesk
  <2>2. f \in Seq(Nat) /\ IsProm(f) /\ PromAccepts(f)
    BY FilesAssumption
  <2>3. Whole(f)
    BY <2>2 DEF Whole, IsProm
  <2>4. original = Reading(f) /\ original # Unread
    BY <2>1, <2>2, UnreadIsNotGood DEF Reading
  <2> QED
    BY <1>1, <2>1, <2>3, <2>4 DEF WholeInv, LeftOf
<1> QED
  BY <1>2, <1>3 DEF WholeInv

LEMMA WholeImage ==
  ASSUME WholeInv, FilesInv, NEW chip \in DOMAIN CHIP_INFO, NEW bypass \in BOOLEAN,
         MakeImage(chip, bypass)
  PROVE  WholeInv'
<1>1. /\ desk = "image" /\ file = <<>> /\ Fits(chip, binary)
      /\ file' = Made(chip, bypass, binary) /\ original' = Good(binary, Writes(file'))
      /\ UNCHANGED <<desk, verdict>>
  BY DEF MakeImage, OnlyFile, Made
<1>2. binary \in Seq(Nat)
  BY <1>1 DEF FilesInv, ImageInv
<1>3. ~verdict.ok
  <2> SUFFICES ASSUME verdict.ok PROVE FALSE
    OBVIOUS
  <2>1. Validated(file).ok
    BY <1>1 DEF WholeInv
  <2>2. ~IsProm(file)
    BY <1>1 DEF IsProm
  <2>3. Len(file) >= 7
    BY <2>1, <2>2, AcceptedIsRead DEF XhcAccepts, HeadSize
  <2> QED
    BY <1>1, <2>3
<1>4. Whole(file') /\ Reading(file') = original'
  <2> DEFINE f == file'
  <2>1. f = Made(chip, bypass, binary)
    BY <1>1
  <2> HIDE DEF f
  <2>2. Whole(f) /\ Reading(f) = Good(binary, Writes(f))
    BY <1>1, <1>2, <2>1, MadeIsWhole
  <2> QED
    BY <1>1, <2>2 DEF f
<1>5. original' # Unread
  BY <1>1, UnreadIsNotGood
<1>6. LeftOf(file', file')
  BY DEF LeftOf
<1>7. \E f : /\ Whole(f) /\ original' = Reading(f) /\ LeftOf(f, file')
             /\ intact' => file' = f
  BY <1>4, <1>6
<1> QED
  BY <1>1, <1>3, <1>5, <1>7 DEF WholeInv

LEMMA WholeHarm ==
  ASSUME WholeInv, Harm
  PROVE  WholeInv'
<1>1. /\ intact /\ intact' = FALSE /\ verdict' = Unread /\ file # <<>>
      /\ UNCHANGED <<desk, original>>
  BY DEF Harm, OnlyFile
<1>2. ~verdict'.ok
  BY <1>1, UnreadIsNotGood
<1>3. CASE desk \in {"image", "file"}
  <2>1. original # Unread
    BY <1>1, <1>3 DEF WholeInv
  <2>2. PICK f : Whole(f) /\ original = Reading(f) /\ file = f
    BY <1>1, <1>3, <2>1 DEF WholeInv
  <2>3. f \in Seq(Nat) /\ Base \in Nat \ {0}
    BY <2>2, ImageAssumption DEF Whole
  <2>4. ASSUME NEW k \in DOMAIN f, NEW h \in Harms,
               file' = [f EXCEPT ![k] = (f[k] + h) % Base]
        PROVE  ChangedAt(f, file', k)
    <3> DEFINE x == f[k]
               y == (x + h) % Base
               z == 0
    <3>1. x \in Nat /\ h \in 0..Base - 1 /\ z \in 0..Base - 1 /\ h # z
      <4>1. h \in 1..Base - 1
        BY HarmsAssumption
      <4> QED
        BY <2>3, <4>1
    <3>2. y # (x + z) % Base
      <4> HIDE DEF x, z
      <4>1. (x + h) % Base = (x + z) % Base => h = z
        BY <2>3, <3>1, ModDistinct
      <4> QED
        BY <3>1, <4>1
    <3>3. y # x % Base
      <4>1. x + z = x
        BY <3>1
      <4> HIDE DEF x, y, z
      <4> QED
        BY <3>2, <4>1
    <3>4. y \in 0..Base - 1
      <4>1. x + h \in Nat
        BY <2>3, <3>1
      <4> HIDE DEF x
      <4> QED
        BY <2>3, <4>1, DivSplit
    <3>5. y \in Nat
      BY <2>3, <3>4
    <3> HIDE DEF y
    <3>6. file' = [f EXCEPT ![k] = y]
      BY <2>4 DEF y
    <3>7. /\ file' \in Seq(Nat) /\ Len(file') = Len(f) /\ k \in 1..Len(f)
          /\ \A i \in 1..Len(f) : i # k => file'[i] = f[i]
          /\ file'[k] = y
      BY <2>3, <2>4, <3>5, <3>6
    <3> QED
      BY <2>3, <3>3, <3>4, <3>7 DEF ChangedAt, DifferAt
  <2>5. ASSUME NEW n \in 0..Len(f) - 1, file' = SubSeq(f, 1, n)
        PROVE  LeftOf(f, file')
    <3>1. n \in 0..Len(f)
      BY <2>3
    <3> QED
      BY <2>5, <3>1 DEF LeftOf
  <2>6. LeftOf(f, file')
    BY <2>2, <2>4, <2>5 DEF Harm, LeftOf
  <2> QED
    BY <1>1, <1>2, <2>1, <2>2, <2>6 DEF WholeInv
<1> QED
  BY <1>1, <1>3 DEF WholeInv

LEMMA WholeValidate ==
  ASSUME WholeInv, Validate
  PROVE  WholeInv'
<1>1. UNCHANGED <<desk, file, original, intact>>
  BY DEF Validate, OnlyFile
<1>2. CASE desk \in {"image", "file"}
  <2>1. verdict' = Validated(file) /\ original # Unread
    BY <1>2 DEF Validate, WholeInv
  <2> QED
    BY <1>1, <1>2, <2>1 DEF WholeInv
<1> QED
  BY <1>1, <1>2 DEF WholeInv

LEMMA WholeNext == WholeInv /\ FilesInv /\ [Next]_vars => WholeInv'
<1> SUFFICES ASSUME WholeInv, FilesInv, [Next]_vars PROVE WholeInv'
  OBVIOUS
<1>1. CASE UNCHANGED <<desk, file, original, intact, verdict>>
  BY <1>1 DEF WholeInv
<1>2. ASSUME NEW chip \in DOMAIN CHIP_INFO, MakeBinary(chip)
      PROVE  WholeInv'
  BY <1>1, <1>2 DEF MakeBinary, OnlyFile
<1>3. CASE ScanStep
  BY <1>1, <1>3 DEF ScanStep, OnlyScan, fileVars
<1>4. CASE Document
  BY <1>1, <1>4 DEF Document, OnlyDoc, fileVars
<1>5. CASE TraceBegins \/ TraceRuns
  BY <1>1, <1>5 DEF TraceBegins, TraceRuns, OnlyTrace, fileVars
<1>6. CASE UNCHANGED vars
  BY <1>1, <1>6 DEF vars, fileVars
<1> QED
  BY <1>2, <1>3, <1>4, <1>5, <1>6, WholeImage, WholeHarm, WholeValidate DEF Next

(* Of an image, made or extracted, that was cut short or in which one byte *)
(* changed, validate_fw.py accepts nothing but what the undamaged one      *)
(* holds: the code and the writes of its header, whatever the binary and   *)
(* wherever the damage is, unless it is in a length (or the magic of a     *)
(* Promontory image).  A length moves what is summed, and whether the sum  *)
(* of another part is another one depends on the bytes.                    *)
THEOREM DamageIsSeen ==
  Spec => [](desk \in {"image", "file"} /\ verdict.ok => verdict = original \/ LengthHarmed)
<1>1. Spec => []WholeInv
  BY WholeInit, WholeNext, FilesHold, PTL DEF Spec
<1>2. WholeInv =>
        (desk \in {"image", "file"} /\ verdict.ok => verdict = original \/ LengthHarmed)
  BY HarmIsSeen
<1> QED
  BY <1>1, <1>2, PTL
-----------------------------------------------------------------------------
(* The field that a bit is in, and 0 if it is in none.                     *)
Covers(rec, k, bit) == BitRanges(rec)[k].start <= bit /\ bit <= BitRanges(rec)[k].end
OwnerOf(rec, bit) ==
    LET owners == {k \in DOMAIN BitRanges(rec) :
                      bit \in BitRanges(rec)[k].start..BitRanges(rec)[k].end}
    IN  IF owners = {} THEN 0 ELSE Max(owners)

(* The lowest and the highest bit of a field within the block at from.     *)
Lowest(rec, k, from) ==
    IF BitRanges(rec)[k].start < from THEN from ELSE BitRanges(rec)[k].start
Highest(rec, k, from) ==
    IF BitRanges(rec)[k].end > from + Block - 1 THEN from + Block - 1 ELSE BitRanges(rec)[k].end

LEMMA MaxBitsIs ==
    ASSUME NEW rec, IsRegister(rec)
    PROVE  MaxBits(rec) \in Nat /\ MaxBits(rec) > 0
<1>1. rec.bytes \in Nat /\ rec.bytes # 0
  BY DEF IsRegister
<1>2. Block \div 2 \in Nat /\ Block \div 2 # 0
  BY BlockAssumption
<1> QED
  BY <1>1, <1>2, ProductIsNat DEF MaxBits

(* The fields of a register, the one it has if none is described included. *)
LEMMA FieldsAre ==
    ASSUME NEW rec, IsRegister(rec)
    PROVE  /\ DOMAIN BitRanges(rec) \subseteq Nat \ {0}
           /\ \A k \in DOMAIN BitRanges(rec) :
                /\ BitRanges(rec)[k].start \in Nat /\ BitRanges(rec)[k].end \in Nat
                /\ BitRanges(rec)[k].start <= BitRanges(rec)[k].end
                /\ BitRanges(rec)[k].end < MaxBits(rec)
           /\ \A j, k \in DOMAIN BitRanges(rec) :
                j # k => \/ BitRanges(rec)[j].end < BitRanges(rec)[k].start
                         \/ BitRanges(rec)[k].end < BitRanges(rec)[j].start
<1>1. CASE rec.bits = <<>>
  <2>1. MaxBits(rec) \in Nat /\ MaxBits(rec) > 0
    BY MaxBitsIs
  <2> DEFINE m == MaxBits(rec)
             r == [start |-> 0, end |-> m - 1]
  <2>2. BitRanges(rec) = <<r>>
    BY <1>1 DEF BitRanges
  <2>3. r.start = 0 /\ r.end = m - 1
    OBVIOUS
  <2> HIDE DEF m, r
  <2>4. DOMAIN BitRanges(rec) = {1} /\ BitRanges(rec)[1] = r
    BY <2>2
  <2>5. m \in Nat /\ m > 0
    BY <2>1 DEF m
  <2> QED
    BY <2>3, <2>4, <2>5 DEF m
<1>2. CASE rec.bits # <<>>
  <2>1. BitRanges(rec) = rec.bits
    BY <1>2 DEF BitRanges
  <2>2. DOMAIN rec.bits \subseteq Nat \ {0}
    BY DEF IsRegister
  <2>3. ASSUME NEW k \in DOMAIN rec.bits
        PROVE  rec.bits[k].start \in Nat /\ rec.bits[k].end \in Nat
    <3> DEFINE S  == [start : Nat, end : Nat]
               rs == rec.bits
    <3>2. rs \in Seq(S) /\ k \in DOMAIN rs
      BY DEF IsRegister
    <3> HIDE DEF S, rs
    <3>3. rs[k] \in S
      BY <3>2
    <3>1. rec.bits[k] \in [start : Nat, end : Nat]
      BY <3>3 DEF S, rs
    <3> QED
      BY <3>1
  <2> QED
    BY <2>1, <2>2, <2>3 DEF IsRegister
<1> QED
  BY <1>1, <1>2

LEMMA OwnerIs ==
    ASSUME NEW rec, IsRegister(rec), NEW k \in DOMAIN BitRanges(rec), NEW bit \in Nat,
           Covers(rec, k, bit)
    PROVE  OwnerOf(rec, bit) = k /\ k # 0
<1> DEFINE owners == {i \in DOMAIN BitRanges(rec) :
                         bit \in BitRanges(rec)[i].start..BitRanges(rec)[i].end}
<1>1. owners = {k}
  <2>1. k \in owners
    BY FieldsAre DEF Covers
  <2>2. ASSUME NEW i \in owners PROVE i = k
    BY FieldsAre DEF Covers
  <2> QED
    BY <2>1, <2>2
<1>2. k \in Nat /\ k # 0
  BY FieldsAre
<1>3. Max({k}) = k
  BY <1>2 DEF Max
<1>4. OwnerOf(rec, bit) = IF owners = {} THEN 0 ELSE Max(owners)
  BY DEF OwnerOf
<1> HIDE DEF owners
<1> QED
  BY <1>1, <1>2, <1>3, <1>4

LEMMA OwnerNone ==
    ASSUME NEW rec, IsRegister(rec), NEW bit \in Nat,
           \A k \in DOMAIN BitRanges(rec) : ~Covers(rec, k, bit)
    PROVE  OwnerOf(rec, bit) = 0
<1> DEFINE owners == {i \in DOMAIN BitRanges(rec) :
                         bit \in BitRanges(rec)[i].start..BitRanges(rec)[i].end}
<1>1. owners = {}
  BY FieldsAre DEF Covers
<1>2. OwnerOf(rec, bit) = IF owners = {} THEN 0 ELSE Max(owners)
  BY DEF OwnerOf
<1> HIDE DEF owners
<1> QED
  BY <1>1, <1>2

(* A bit is in block b if it is one of the Block bits from b * Block.      *)
LEMMA BlockOf ==
    ASSUME NEW x \in Nat, NEW b \in Nat
    PROVE  /\ x \div Block \in Nat
           /\ b <= x \div Block <=> b * Block <= x
           /\ x \div Block <= b <=> x < b * Block + Block
<1> DEFINE q == x \div Block
           r == x % Block
<1>1. Block \in Nat \ {0}
  BY BlockAssumption
<1>2. q \in Nat /\ r \in 0 .. Block - 1 /\ x = Block * q + r
  BY <1>1, DivSplit
<1> HIDE DEF q, r
<1>3. b <= q => b * Block <= x
  <2> SUFFICES ASSUME q - b \in Nat PROVE b * Block <= x
    BY <1>2
  <2>1. (q - b) * Block \in Nat
    BY <1>1, ProductIsNat
  <2>2. (q - b) * Block = Block * q - b * Block
    BY <1>1, <1>2
  <2> QED
    BY <1>1, <1>2, <2>1, <2>2
<1>4. b > q => b * Block >= q * Block + Block
  <2> SUFFICES ASSUME b - q - 1 \in Nat PROVE b * Block >= q * Block + Block
    BY <1>2
  <2>1. (b - q - 1) * Block \in Nat
    BY <1>1, ProductIsNat
  <2>2. (b - q - 1) * Block = b * Block - q * Block - Block
    BY <1>1, <1>2
  <2> QED
    BY <1>1, <1>2, <2>1, <2>2
<1>5. q > b => q * Block >= b * Block + Block
  <2> SUFFICES ASSUME q - b - 1 \in Nat PROVE q * Block >= b * Block + Block
    BY <1>2
  <2>1. (q - b - 1) * Block \in Nat
    BY <1>1, ProductIsNat
  <2>2. (q - b - 1) * Block = q * Block - b * Block - Block
    BY <1>1, <1>2
  <2> QED
    BY <1>1, <1>2, <2>1, <2>2
<1>6. q <= b => q * Block <= b * Block
  <2> SUFFICES ASSUME b - q \in Nat PROVE q * Block <= b * Block
    BY <1>2
  <2>1. (b - q) * Block \in Nat
    BY <1>1, ProductIsNat
  <2>2. (b - q) * Block = b * Block - q * Block
    BY <1>1, <1>2
  <2> QED
    BY <1>1, <1>2, <2>1, <2>2
<1>7. q * Block = Block * q /\ q * Block \in Nat /\ b * Block \in Nat
  BY <1>1, <1>2, ProductIsNat
<1> DEFINE Q == q * Block
           B == b * Block
<1>8. /\ Q \in Nat /\ B \in Nat /\ x = Q + r
      /\ b <= q => B <= x
      /\ b > q => B >= Q + Block
      /\ q > b => Q >= B + Block
      /\ q <= b => Q <= B
  BY <1>2, <1>3, <1>4, <1>5, <1>6, <1>7
<1> HIDE DEF Q, B
<1>9. /\ b <= q <=> B <= x
      /\ q <= b <=> x < B + Block
  BY <1>1, <1>2, <1>8
<1> QED
  BY <1>2, <1>9 DEF q, B

(* A part of a field lies from the lowest to the highest of its bits in the*)
(* block.                                                                  *)
LEMMA PartOf ==
    ASSUME NEW rec, IsRegister(rec), NEW k \in DOMAIN BitRanges(rec), NEW b \in Nat,
           b \in BitRanges(rec)[k].start \div Block..BitRanges(rec)[k].end \div Block
    PROVE  /\ Part(rec, k, b) =
                 <<Highest(rec, k, b * Block), k,
                   Highest(rec, k, b * Block) + 1 - Lowest(rec, k, b * Block)>>
           /\ Lowest(rec, k, b * Block) <= Highest(rec, k, b * Block)
           /\ Lowest(rec, k, b * Block) >= b * Block
           /\ Highest(rec, k, b * Block) < b * Block + Block
<1> DEFINE s == BitRanges(rec)[k].start
           e == BitRanges(rec)[k].end
           B == b * Block
           sb == s \div Block
           eb == e \div Block
<1>1. s \in Nat /\ e \in Nat /\ s <= e
  BY FieldsAre
<1>2. Block \in Nat \ {0} /\ B \in Nat
  BY BlockAssumption, ProductIsNat
<1>3. Part(rec, k, b) =
        IF sb = eb THEN <<e, k, e + 1 - s>>
        ELSE CASE b = eb  -> <<e, k, e + 1 - B>>
               [] b = sb  -> <<B + Block - 1, k, B + Block - s>>
               [] OTHER   -> <<B + Block - 1, k, Block>>
  BY DEF Part
<1>4. Lowest(rec, k, B) = IF s < B THEN B ELSE s
  BY DEF Lowest
<1>5. Highest(rec, k, B) = IF e > B + Block - 1 THEN B + Block - 1 ELSE e
  BY DEF Highest
<1> HIDE DEF s, e
<1>6. /\ sb \in Nat /\ (b <= sb <=> B <= s) /\ (sb <= b <=> s < B + Block)
  BY <1>1, BlockOf
<1>7. /\ eb \in Nat /\ (b <= eb <=> B <= e) /\ (eb <= b <=> e < B + Block)
  BY <1>1, BlockOf
<1>8. sb <= b /\ b <= eb
  BY <1>6, <1>7 DEF s, e
<1> HIDE DEF B, sb, eb
<1>9. s < B + Block /\ B <= e
  BY <1>6, <1>7, <1>8
<1> DEFINE lo == IF s < B THEN B ELSE s
           hi == IF e > B + Block - 1 THEN B + Block - 1 ELSE e
<1>10. CASE sb = eb
  <2>1. B <= s /\ e < B + Block
    BY <1>6, <1>7, <1>8, <1>10
  <2>2. lo = s /\ hi = e
    BY <1>1, <1>2, <2>1
  <2>3. Part(rec, k, b) = <<e, k, e + 1 - s>>
    BY <1>3, <1>10
  <2>4. Lowest(rec, k, B) = s /\ Highest(rec, k, B) = e
    BY <1>4, <1>5, <2>2
  <2> QED
    BY <1>1, <2>1, <2>3, <2>4 DEF B
<1>11. CASE sb # eb /\ b = eb
  <2>1. s < B /\ e < B + Block
    BY <1>1, <1>2, <1>6, <1>7, <1>8, <1>11
  <2>2. lo = B /\ hi = e
    BY <1>1, <1>2, <2>1
  <2> QED
    BY <1>1, <1>2, <1>3, <1>4, <1>5, <1>9, <1>11, <2>1, <2>2 DEF B
<1>12. CASE b # eb /\ b = sb
  <2>1. B <= s /\ e >= B + Block
    BY <1>1, <1>2, <1>6, <1>7, <1>8, <1>12
  <2>2. lo = s /\ hi = B + Block - 1
    BY <1>1, <1>2, <2>1
  <2>3. B + Block - s = B + Block - 1 + 1 - s
    BY <1>1, <1>2
  <2> QED
    BY <1>1, <1>2, <1>3, <1>4, <1>5, <1>9, <1>12, <2>1, <2>2, <2>3 DEF B
<1>13. CASE b # eb /\ b # sb
  <2>1. s < B /\ e >= B + Block
    BY <1>1, <1>2, <1>6, <1>7, <1>8, <1>13
  <2>2. lo = B /\ hi = B + Block - 1
    BY <1>1, <1>2, <2>1
  <2>3. Block = B + Block - 1 + 1 - B
    BY <1>2
  <2>4. sb # eb
    BY <1>6, <1>7, <1>8, <1>13
  <2>5. Part(rec, k, b) = <<B + Block - 1, k, Block>>
    BY <1>3, <1>13, <2>4
  <2>6. Lowest(rec, k, B) = B /\ Highest(rec, k, B) = B + Block - 1
    BY <1>4, <1>5, <2>2
  <2>7. B <= B + Block - 1 /\ B >= B /\ B + Block - 1 < B + Block
    BY <1>2
  <2> QED
    BY <2>3, <2>5, <2>6, <2>7 DEF B
<1> QED
  BY <1>10, <1>11, <1>12, <1>13
(* What is kept under a bit is the part of its field that ends there.      *)
InBlock(bit, b) == b * Block <= bit /\ bit < b * Block + Block

LEMMA SpanIs ==
    ASSUME NEW rec, IsRegister(rec), NEW b \in Nat, NEW bit \in Nat, InBlock(bit, b),
           NEW s \in bit_spans(rec), s[1] = bit
    PROVE  \E k \in DOMAIN BitRanges(rec) :
             /\ Covers(rec, k, bit) /\ bit = Highest(rec, k, b * Block)
             /\ s = <<bit, k, bit + 1 - Lowest(rec, k, b * Block)>>
<1>8. PICK k \in DOMAIN BitRanges(rec) :
        \E c \in BitRanges(rec)[k].start \div Block..BitRanges(rec)[k].end \div Block :
          s = Part(rec, k, c)
  BY DEF bit_spans
<1>1. PICK c \in BitRanges(rec)[k].start \div Block..BitRanges(rec)[k].end \div Block :
        s = Part(rec, k, c)
  BY <1>8
<1>2. BitRanges(rec)[k].start \in Nat /\ BitRanges(rec)[k].end \in Nat
  BY FieldsAre
<1>3. c \in Nat
  <2>1. BitRanges(rec)[k].start \div Block \in Nat /\ BitRanges(rec)[k].end \div Block \in Nat
    BY <1>2, BlockOf
  <2> QED
    BY <2>1
<1>4. /\ Part(rec, k, c) = <<Highest(rec, k, c * Block), k,
                             Highest(rec, k, c * Block) + 1 - Lowest(rec, k, c * Block)>>
      /\ Lowest(rec, k, c * Block) <= Highest(rec, k, c * Block)
      /\ Lowest(rec, k, c * Block) >= c * Block
      /\ Highest(rec, k, c * Block) < c * Block + Block
  BY <1>3, PartOf
<1>5. bit = Highest(rec, k, c * Block)
  BY <1>1, <1>4
<1>6. c = b
  <2>1. c * Block \in Nat /\ Lowest(rec, k, c * Block) \in Nat
    BY <1>2, <1>3, BlockAssumption, ProductIsNat DEF Lowest
  <2>2. c * Block <= bit /\ bit < c * Block + Block
    BY <1>4, <1>5, <2>1
  <2>3. c <= bit \div Block /\ bit \div Block <= c
    BY <1>3, <2>2, BlockOf
  <2>4. b <= bit \div Block /\ bit \div Block <= b /\ bit \div Block \in Nat
    BY BlockOf DEF InBlock
  <2> QED
    BY <1>3, <2>3, <2>4
<1>7. Covers(rec, k, bit)
  <2>1. b * Block \in Nat
    BY BlockAssumption, ProductIsNat
  <2> QED
    BY <1>2, <1>4, <1>5, <1>6, <2>1, BlockAssumption DEF Covers, Lowest, Highest
<1> QED
  BY <1>1, <1>4, <1>5, <1>6, <1>7

LEMMA SpanAt ==
    ASSUME NEW rec, IsRegister(rec), NEW b \in Nat, NEW bit \in Nat, InBlock(bit, b),
           NEW k \in DOMAIN BitRanges(rec), Covers(rec, k, bit),
           bit = Highest(rec, k, b * Block)
    PROVE  <<bit, k, bit + 1 - Lowest(rec, k, b * Block)>> \in bit_spans(rec)
<1>1. BitRanges(rec)[k].start \in Nat /\ BitRanges(rec)[k].end \in Nat
  BY FieldsAre
<1>2. /\ BitRanges(rec)[k].start \div Block \in Nat /\ BitRanges(rec)[k].end \div Block \in Nat
      /\ BitRanges(rec)[k].start < b * Block + Block => BitRanges(rec)[k].start \div Block <= b
      /\ b * Block <= BitRanges(rec)[k].end => b <= BitRanges(rec)[k].end \div Block
  BY <1>1, BlockOf
<1>3. b \in BitRanges(rec)[k].start \div Block..BitRanges(rec)[k].end \div Block
  <2>1. b * Block \in Nat /\ Block \in Nat
    BY BlockAssumption, ProductIsNat
  <2>2. BitRanges(rec)[k].start < b * Block + Block /\ b * Block <= BitRanges(rec)[k].end
    BY <1>1, <2>1 DEF Covers, InBlock
  <2> QED
    BY <1>2, <2>2
<1>4. Part(rec, k, b) = <<bit, k, bit + 1 - Lowest(rec, k, b * Block)>>
  BY <1>3, PartOf
<1> QED
  BY <1>3, <1>4 DEF bit_spans

(* The cells written at a bit: of the part that ends there, ...            *)
LEMMA CellAtTop ==
    ASSUME NEW rec, IsRegister(rec), NEW b \in Nat, NEW bit \in Nat, InBlock(bit, b),
           NEW k \in DOMAIN BitRanges(rec), Covers(rec, k, bit),
           bit = Highest(rec, k, b * Block)
    PROVE  CellsOf(rec, bit) = <<<<k, bit + 1 - Lowest(rec, k, b * Block)>>>>
<1> DEFINE w == <<bit, k, bit + 1 - Lowest(rec, k, b * Block)>>
<1>1. w \in bit_spans(rec) /\ w[1] = bit
  BY SpanAt
<1>2. ASSUME NEW s \in bit_spans(rec), s[1] = bit PROVE s = w
  <2>1. PICK j \in DOMAIN BitRanges(rec) :
          Covers(rec, j, bit) /\ s = <<bit, j, bit + 1 - Lowest(rec, j, b * Block)>>
    BY <1>2, SpanIs
  <2>2. OwnerOf(rec, bit) = j
    BY <2>1, OwnerIs
  <2>3. OwnerOf(rec, bit) = k
    BY OwnerIs
  <2> QED
    BY <2>1, <2>2, <2>3
<1>3. w[2] = k /\ w[3] = bit + 1 - Lowest(rec, k, b * Block)
  OBVIOUS
<1> HIDE DEF w
<1>4. (CHOOSE s \in bit_spans(rec) : s[1] = bit) = w
  BY <1>1, <1>2
<1>5. bit \notin unused_bits(rec)
  BY FieldsAre DEF unused_bits, Covers
<1> QED
  BY <1>1, <1>3, <1>4, <1>5 DEF CellsOf

(* ... nothing for the other bits of a field, ...                          *)
LEMMA CellInside ==
    ASSUME NEW rec, IsRegister(rec), NEW b \in Nat, NEW bit \in Nat, InBlock(bit, b),
           NEW k \in DOMAIN BitRanges(rec), Covers(rec, k, bit),
           bit # Highest(rec, k, b * Block)
    PROVE  CellsOf(rec, bit) = <<>>
<1>1. ~ \E s \in bit_spans(rec) : s[1] = bit
  <2> SUFFICES ASSUME NEW s \in bit_spans(rec), s[1] = bit PROVE FALSE
    OBVIOUS
  <2>1. PICK j \in DOMAIN BitRanges(rec) :
          Covers(rec, j, bit) /\ bit = Highest(rec, j, b * Block)
    BY SpanIs
  <2>2. OwnerOf(rec, bit) = j
    BY <2>1, OwnerIs
  <2>3. OwnerOf(rec, bit) = k
    BY OwnerIs
  <2> QED
    BY <2>1, <2>2, <2>3
<1>2. bit \notin unused_bits(rec)
  BY FieldsAre DEF unused_bits, Covers
<1> QED
  BY <1>1, <1>2 DEF CellsOf

(* ... and one column for a bit of no field.                               *)
LEMMA CellUnused ==
    ASSUME NEW rec, IsRegister(rec), NEW b \in Nat, NEW bit \in Nat, InBlock(bit, b),
           bit < MaxBits(rec), \A k \in DOMAIN BitRanges(rec) : ~Covers(rec, k, bit)
    PROVE  CellsOf(rec, bit) = <<<<0, 1>>>>
<1>1. ~ \E s \in bit_spans(rec) : s[1] = bit
  BY SpanIs
<1>2. bit \in unused_bits(rec)
  <2>1. bit \in 0..MaxBits(rec) - 1
    BY MaxBitsIs
  <2>2. ASSUME NEW k \in DOMAIN BitRanges(rec)
        PROVE  bit \notin BitRanges(rec)[k].start..BitRanges(rec)[k].end
    BY FieldsAre DEF Covers
  <2> QED
    BY <2>1, <2>2 DEF unused_bits
<1> QED
  BY <1>1, <1>2 DEF CellsOf

(* The columns of a row, each with the field of its cell, and the row after*)
(* some of its bits.                                                       *)
Cell == Nat \X Nat
ColumnsOf(cells) == FlattenSeq([k \in DOMAIN cells |-> [c \in 1..cells[k][2] |-> cells[k][1]]])
RowUpto(rec, to, k) == FlattenSeq([i \in 1..k |-> CellsOf(rec, to - i)])
Shown(rec, to, m)   == [c \in 1..m |-> OwnerOf(rec, to - c)]

LEMMA ColumnsGrow ==
    ASSUME NEW cells \in Seq(Cell), NEW x \in Cell
    PROVE  ColumnsOf(Append(cells, x)) = ColumnsOf(cells) \o [c \in 1..x[2] |-> x[1]]
<1> DEFINE Wide(y) == [c \in 1..y[2] |-> y[1]]
           s == [k \in DOMAIN cells |-> Wide(cells[k])]
           e == Append(cells, x)
           t == [k \in DOMAIN e |-> Wide(e[k])]
<1>1. ASSUME NEW y \in Cell PROVE Wide(y) \in Seq(Nat)
  <2>1. y[1] \in Nat /\ y[2] \in Nat
    BY DEF Cell
  <2>2. Wide(y) \in [1..y[2] -> Nat]
    BY <2>1
  <2> QED
    BY <2>1, <2>2, SeqDef
<1>2. /\ e \in Seq(Cell) /\ Len(e) = Len(cells) + 1 /\ e[Len(cells) + 1] = x
      /\ \A n \in 1..Len(cells) : e[n] = cells[n]
  BY AppendProperties
<1>3. ColumnsOf(cells) = FlattenSeq(s) /\ ColumnsOf(e) = FlattenSeq(t)
  BY DEF ColumnsOf
<1> HIDE DEF Wide, e
<1>4. s \in Seq(Seq(Nat)) /\ Len(s) = Len(cells) /\ Len(cells) \in Nat
  <2>1. DOMAIN cells = 1..Len(cells) /\ Len(cells) \in Nat
    OBVIOUS
  <2>2. s \in [1..Len(cells) -> Seq(Nat)]
    <3> SUFFICES ASSUME NEW k \in 1..Len(cells) PROVE Wide(cells[k]) \in Seq(Nat)
      BY <2>1
    <3>1. cells[k] \in Cell
      OBVIOUS
    <3> QED
      BY <1>1, <3>1
  <2>3. s \in Seq(Seq(Nat))
    BY <2>1, <2>2, SeqDef
  <2>4. DOMAIN s = 1..Len(s) /\ DOMAIN s = 1..Len(cells)
    BY <2>1, <2>3
  <2>5. Len(s) = Len(cells)
    BY <2>1, <2>3, <2>4
  <2> QED
    BY <2>1, <2>3, <2>5
<1>5. t = Append(s, Wide(x))
  <2>1. DOMAIN e = 1..Len(cells) + 1 /\ DOMAIN s = 1..Len(cells)
    BY <1>2, <1>4
  <2>2. Append(s, Wide(x)) = [k \in 1..Len(s) + 1 |-> IF k <= Len(s) THEN s[k] ELSE Wide(x)]
    <3> HIDE DEF s
    <3>1. DOMAIN s = 1..Len(s) /\ Len(s) \in Nat
      BY <1>4
    <3> DEFINE a == Append(s, Wide(x))
    <3>2. a \in Seq(Seq(Nat)) /\ Len(a) = Len(s) + 1 /\ a[Len(s) + 1] = Wide(x)
          /\ \A n \in 1..Len(s) : a[n] = s[n]
      BY <1>1, <1>4, AppendProperties
    <3> HIDE DEF a
    <3>3. a = [k \in 1..Len(s) + 1 |-> a[k]]
      BY <3>2
    <3>4. \A k \in 1..Len(s) + 1 : a[k] = IF k <= Len(s) THEN s[k] ELSE Wide(x)
      BY <3>1, <3>2
    <3>5. a = [k \in 1..Len(s) + 1 |-> IF k <= Len(s) THEN s[k] ELSE Wide(x)]
      BY <3>3, <3>4
    <3> QED
      BY <3>5 DEF a
  <2>3. \A k \in 1..Len(cells) + 1 :
          Wide(e[k]) = IF k <= Len(cells) THEN s[k] ELSE Wide(x)
    <3> TAKE k \in 1..Len(cells) + 1
    <3>1. CASE k <= Len(cells)
      <4>1. k \in 1..Len(cells) /\ e[k] = cells[k]
        BY <1>2, <1>4, <3>1
      <4> QED
        BY <1>4, <2>1, <3>1, <4>1
    <3>2. CASE ~ (k <= Len(cells))
      <4>1. k = Len(cells) + 1
        BY <1>4, <3>2
      <4> QED
        BY <1>2, <3>2, <4>1
    <3> QED
      BY <3>1, <3>2
  <2> HIDE DEF s
  <2> QED
    BY <1>4, <2>1, <2>2, <2>3
<1>6. FlattenSeq(t) = FlattenSeq(s) \o Wide(x)
  <2> HIDE DEF s, t
  <2>1. Wide(x) \in Seq(Nat)
    BY <1>1
  <2> QED
    BY <1>4, <1>5, <2>1, FlatAppend
<1> QED
  BY <1>3, <1>6 DEF Wide, e

LEMMA RowGrows ==
    ASSUME NEW rec, NEW to \in Nat, NEW k \in Nat,
           \A i \in 1..k + 1 : CellsOf(rec, to - i) \in Seq(Cell)
    PROVE  /\ RowUpto(rec, to, k) \in Seq(Cell)
           /\ RowUpto(rec, to, k + 1) = RowUpto(rec, to, k) \o CellsOf(rec, to - (k + 1))
<1> DEFINE x == CellsOf(rec, to - (k + 1))
           s == [i \in 1..k |-> CellsOf(rec, to - i)]
           t == [i \in 1..k + 1 |-> CellsOf(rec, to - i)]
           a == Append(s, x)
<1>1. x \in Seq(Cell)
  BY k + 1 \in 1..k + 1
<1>2. s \in Seq(Seq(Cell)) /\ Len(s) = k
  <2>1. s \in [1..k -> Seq(Cell)]
    OBVIOUS
  <2>2. s \in Seq(Seq(Cell))
    BY <2>1, SeqDef
  <2>3. DOMAIN s = 1..Len(s) /\ DOMAIN s = 1..k /\ Len(s) \in Nat
    BY <2>2
  <2> QED
    BY <2>2, <2>3
<1>3. \A i \in 1..k : s[i] = CellsOf(rec, to - i)
  OBVIOUS
<1>4. DOMAIN t = 1..k + 1 /\ \A i \in 1..k + 1 : t[i] = CellsOf(rec, to - i)
  OBVIOUS
<1>5. t = [i \in 1..k + 1 |-> t[i]]
  OBVIOUS
<1>6. RowUpto(rec, to, k) = FlattenSeq(s) /\ RowUpto(rec, to, k + 1) = FlattenSeq(t)
  BY DEF RowUpto
<1> HIDE DEF s, t
<1>7. t[k + 1] = x
  BY <1>4
<1> HIDE DEF x
<1>8. a \in Seq(Seq(Cell)) /\ Len(a) = k + 1 /\ a[k + 1] = x /\ \A n \in 1..k : a[n] = s[n]
  BY <1>1, <1>2, AppendProperties
<1> HIDE DEF a
<1>9. t = a
  <2>1. a = [i \in 1..k + 1 |-> a[i]]
    BY <1>8
  <2>2. \A i \in 1..k + 1 : a[i] = t[i]
    <3> TAKE i \in 1..k + 1
    <3>1. CASE i = k + 1
      BY <1>7, <1>8, <3>1
    <3>2. CASE i # k + 1
      <4>1. i \in 1..k
        BY <3>2
      <4> QED
        BY <1>3, <1>4, <1>8, <4>1
    <3> QED
      BY <3>1, <3>2
  <2> QED
    BY <1>5, <2>1, <2>2
<1>10. FlattenSeq(a) = FlattenSeq(s) \o x
  BY <1>1, <1>2, FlatAppend DEF a
<1>11. FlattenSeq(s) \in Seq(Cell)
  BY <1>2, FlatType
<1> QED
  BY <1>6, <1>9, <1>10, <1>11 DEF x

Join(d, w) == d \o w
Continues(rec, to, m, n, w) ==
    /\ w = [c \in 1..n |-> w[c]]
    /\ \A c \in 1..n : w[c] = OwnerOf(rec, to - (m + c))

LEMMA ShownGrows ==
    ASSUME NEW rec, NEW to \in Nat, NEW m \in Nat, NEW n \in Nat,
           NEW w, Continues(rec, to, m, n, w)
    PROVE  Join(Shown(rec, to, m), w) = Shown(rec, to, m + n)
<1> DEFINE d == Shown(rec, to, m)
           e == Shown(rec, to, m + n)
<1>1. IsSeq(d) /\ Len(d) = m /\ \A c \in 1..m : d[c] = OwnerOf(rec, to - c)
  <2>1. d = [c \in 1..m |-> d[c]] /\ \A c \in 1..m : d[c] = OwnerOf(rec, to - c)
    BY DEF Shown
  <2> HIDE DEF d
  <2> QED
    BY <2>1, FunctionIs
<1>2. IsSeq(w) /\ Len(w) = n
  BY FunctionIs DEF Continues
<1>3. IsSeq(e) /\ Len(e) = m + n /\ \A c \in 1..m + n : e[c] = OwnerOf(rec, to - c)
  <2>1. e = [c \in 1..m + n |-> e[c]] /\ \A c \in 1..m + n : e[c] = OwnerOf(rec, to - c)
    BY DEF Shown
  <2> HIDE DEF e
  <2>2. m + n \in Nat
    OBVIOUS
  <2> QED
    BY <2>1, <2>2, FunctionIs
<1> HIDE DEF d, e
<1> DEFINE j == d \o w
<1>4. /\ IsSeq(j) /\ Len(j) = m + n
      /\ \A i \in 1..m + n : j[i] = IF i <= m THEN d[i] ELSE w[i - m]
  <2>1. IsSeq(d) /\ IsSeq(w)
    BY <1>1, <1>2
  <2>2. /\ IsSeq(j) /\ Len(j) = Len(d) + Len(w)
        /\ \A i \in 1..Len(d) + Len(w) : j[i] = IF i <= Len(d) THEN d[i] ELSE w[i - Len(d)]
    BY ONLY <2>1, JoinIs
  <2> HIDE DEF j
  <2> QED
    BY <1>1, <1>2, <2>2
<1> HIDE DEF j
<1>5. ASSUME NEW i \in 1..m + n PROVE j[i] = e[i]
  <2>1. CASE i <= m
    <3>1. i \in 1..m
      BY <2>1
    <3> QED
      BY <1>1, <1>3, <1>4, <2>1, <3>1
  <2>2. CASE ~ (i <= m)
    <3> DEFINE c == i - m
    <3>1. c \in 1..n /\ i = m + c
      BY <2>2
    <3>2. j[i] = w[c]
      BY <1>4, <2>2
    <3> HIDE DEF c
    <3>3. w[c] = OwnerOf(rec, to - (m + c))
      BY <3>1 DEF Continues
    <3>4. e[i] = OwnerOf(rec, to - i)
      BY <1>3
    <3> QED
      BY <3>1, <3>2, <3>3, <3>4
  <2> QED
    BY <2>1, <2>2
<1>6. \A i \in 1..Len(j) : j[i] = e[i]
  BY <1>4, <1>5
<1>7. j = e
  BY <1>3, <1>4, <1>6, EqualIs
<1> QED
  BY <1>7 DEF j, d, e, Join

(* A row: it begins with a block, and ends with the block or the register. *)
InRow(rec, b, to) ==
    /\ b * Block < to /\ to <= b * Block + Block /\ to <= MaxBits(rec)
    /\ to = b * Block + Block \/ to = MaxBits(rec)
(* How far its columns reach after k bits.                                 *)
Reach(rec, from, to, k) ==
    IF k = 0 \/ OwnerOf(rec, to - k) = 0 THEN k
    ELSE to - Lowest(rec, OwnerOf(rec, to - k), from)

LEMMA BitCases ==
    ASSUME NEW rec, IsRegister(rec), NEW bit \in Nat
    PROVE  \/ OwnerOf(rec, bit) = 0 /\ \A k \in DOMAIN BitRanges(rec) : ~Covers(rec, k, bit)
           \/ /\ OwnerOf(rec, bit) \in DOMAIN BitRanges(rec) /\ OwnerOf(rec, bit) # 0
              /\ Covers(rec, OwnerOf(rec, bit), bit)
  BY OwnerIs, OwnerNone

LEMMA RowBounds ==
    ASSUME NEW rec, IsRegister(rec), NEW b \in Nat, NEW to \in Nat, InRow(rec, b, to),
           NEW k \in 1..to - b * Block
    PROVE  /\ to - k \in Nat /\ InBlock(to - k, b) /\ to - k < MaxBits(rec)
           /\ b * Block \in Nat /\ Block \in Nat /\ MaxBits(rec) \in Nat
<1>1. b * Block \in Nat /\ Block \in Nat /\ MaxBits(rec) \in Nat
  BY BlockAssumption, ProductIsNat, MaxBitsIs
<1> DEFINE from == b * Block
<1>2. from \in Nat /\ from < to /\ to <= from + Block /\ to <= MaxBits(rec) /\ k \in 1..to - from
  BY <1>1 DEF InRow
<1> HIDE DEF from
<1>3. to - k \in Nat /\ from <= to - k /\ to - k < from + Block /\ to - k < MaxBits(rec)
  BY <1>1, <1>2
<1> QED
  BY <1>1, <1>3 DEF from, InBlock

LEMMA CellTypes ==
    ASSUME NEW rec, IsRegister(rec), NEW b \in Nat, NEW to \in Nat, InRow(rec, b, to),
           NEW k \in 1..to - b * Block
    PROVE  CellsOf(rec, to - k) \in Seq(Cell)
<1> DEFINE bit == to - k
           from == b * Block
           j == OwnerOf(rec, bit)
<1>1. bit \in Nat /\ InBlock(bit, b) /\ bit < MaxBits(rec) /\ from \in Nat /\ Block \in Nat
  BY RowBounds
<1> HIDE DEF bit
<1>2. \/ j = 0 /\ \A i \in DOMAIN BitRanges(rec) : ~Covers(rec, i, bit)
      \/ j \in DOMAIN BitRanges(rec) /\ j # 0 /\ Covers(rec, j, bit)
  BY <1>1, BitCases
<1>3. CASE j = 0 /\ \A i \in DOMAIN BitRanges(rec) : ~Covers(rec, i, bit)
  <2>1. CellsOf(rec, bit) = <<<<0, 1>>>>
    BY <1>1, <1>3, CellUnused
  <2>2. <<0, 1>> \in Cell
    BY DEF Cell
  <2> QED
    BY <2>1, <2>2 DEF bit
<1>4. CASE j \in DOMAIN BitRanges(rec) /\ Covers(rec, j, bit)
  <2> HIDE DEF j
  <2>1. CASE bit = Highest(rec, j, from)
    <3>1. CellsOf(rec, bit) = <<<<j, bit + 1 - Lowest(rec, j, from)>>>>
      BY <1>1, <1>4, <2>1, CellAtTop
    <3>2. j \in Nat /\ BitRanges(rec)[j].start \in Nat
      BY <1>4, FieldsAre
    <3>3. Lowest(rec, j, from) \in Nat /\ Lowest(rec, j, from) <= bit
      BY <1>1, <1>4, <3>2 DEF Lowest, Covers, InBlock
    <3> DEFINE lo == Lowest(rec, j, from)
    <3> HIDE DEF lo
    <3>4. bit + 1 - lo \in Nat
      BY <1>1, <3>3 DEF lo
    <3>5. <<j, bit + 1 - lo>> \in Cell
      BY <3>2, <3>4 DEF Cell
    <3> QED
      BY <3>1, <3>5 DEF bit, lo
  <2>2. CASE bit # Highest(rec, j, from)
    <3>1. CellsOf(rec, bit) = <<>>
      BY <1>1, <1>4, <2>2, CellInside
    <3> QED
      BY <3>1, EmptySeq DEF bit
  <2> QED
    BY <2>1, <2>2
<1> QED
  BY <1>2, <1>3, <1>4

(* After k bits the columns reach where the cell of the k-th ends, and     *)
(* unless the next bit is of the same field, that is where it begins.      *)
LEMMA ReachAtEdge ==
    ASSUME NEW rec, IsRegister(rec), NEW b \in Nat, NEW to \in Nat, InRow(rec, b, to),
           NEW k \in 0..to - b * Block - 1,
           OwnerOf(rec, to - (k + 1)) = 0
              \/ to - (k + 1) = Highest(rec, OwnerOf(rec, to - (k + 1)), b * Block)
    PROVE  Reach(rec, b * Block, to, k) = k
<1> DEFINE from == b * Block
           bit == to - k
           next == to - (k + 1)
           i == OwnerOf(rec, bit)
           j == OwnerOf(rec, next)
<1> SUFFICES ASSUME k # 0, i # 0 PROVE Reach(rec, from, to, k) = k
  BY DEF Reach
<1>1. b * Block \in Nat
  BY BlockAssumption, ProductIsNat
<1>2. k \in 1..to - from /\ k + 1 \in 1..to - from
  <2> HIDE DEF from
  <2>1. from \in Nat /\ k \in 0..to - from - 1
    BY <1>1 DEF from
  <2> QED
    BY <2>1
<1>3. bit \in Nat /\ InBlock(bit, b) /\ from \in Nat /\ Block \in Nat
  BY <1>2, RowBounds
<1>4. next \in Nat /\ InBlock(next, b)
  BY <1>2, RowBounds
<1>5. bit = next + 1
  OBVIOUS
<1>6. i \in DOMAIN BitRanges(rec) /\ Covers(rec, i, bit)
  BY <1>3, BitCases
<1>7. j = 0 \/ (j \in DOMAIN BitRanges(rec) /\ Covers(rec, j, next))
  BY <1>4, BitCases
<1>13. next = Highest(rec, j, from) \/ j = 0
  OBVIOUS
<1>8. Reach(rec, from, to, k) = to - Lowest(rec, i, from) /\ to - bit = k
  BY DEF Reach
<1> HIDE DEF bit, next
<1>9. ~ Covers(rec, i, next)
  <2> SUFFICES ASSUME Covers(rec, i, next) PROVE FALSE
    OBVIOUS
  <2>1. j = i /\ j # 0
    BY <1>4, <1>6, OwnerIs
  <2>2. next = Highest(rec, i, from)
    BY <1>13, <2>1
  <2> HIDE DEF i, j, from
  <2>3. BitRanges(rec)[i].end \in Nat
    BY <1>6, FieldsAre
  <2>4. next + 1 < from + Block
    BY <1>3, <1>5 DEF InBlock, from
  <2> QED
    BY <1>3, <1>4, <1>5, <1>6, <2>2, <2>3, <2>4 DEF Highest, Covers
<1>10. Lowest(rec, i, from) = bit
  <2> HIDE DEF i, j, from
  <2>1. BitRanges(rec)[i].start \in Nat /\ BitRanges(rec)[i].end \in Nat
    BY <1>6, FieldsAre
  <2>2. from <= next
    BY <1>4 DEF InBlock, from
  <2> QED
    BY <1>3, <1>4, <1>5, <1>6, <1>9, <2>1, <2>2 DEF Lowest, Covers
<1> QED
  BY <1>8, <1>10 DEF from

(* One bit more.                                                           *)
Written(rec, b, to, k) ==
    /\ RowUpto(rec, to, k) \in Seq(Cell)
    /\ ColumnsOf(RowUpto(rec, to, k)) = Shown(rec, to, Reach(rec, b * Block, to, k))

LEMMA RowStep ==
    ASSUME NEW rec, IsRegister(rec), NEW b \in Nat, NEW to \in Nat, InRow(rec, b, to),
           NEW k \in 0..to - b * Block - 1, Written(rec, b, to, k)
    PROVE  Written(rec, b, to, k + 1)
<1> DEFINE from == b * Block
           row  == RowUpto(rec, to, k)
           bit  == to - (k + 1)
           j    == OwnerOf(rec, bit)
<1>1. b * Block \in Nat
  BY BlockAssumption, ProductIsNat
<1>2. k \in Nat /\ k + 1 \in 1..to - from /\ k + 1 # 0 /\ \A i \in 1..k + 1 : i \in 1..to - from
  <2> HIDE DEF from
  <2>1. from \in Nat /\ k \in 0..to - from - 1
    BY <1>1 DEF from
  <2> QED
    BY <2>1
<1>3. bit \in Nat /\ InBlock(bit, b) /\ from \in Nat /\ Block \in Nat /\ bit < MaxBits(rec)
      /\ MaxBits(rec) \in Nat
  BY <1>2, RowBounds
<1>4. RowUpto(rec, to, k + 1) = row \o CellsOf(rec, bit)
  <2>1. \A i \in 1..k + 1 : CellsOf(rec, to - i) \in Seq(Cell)
    BY <1>2, CellTypes
  <2> QED
    BY <1>2, <2>1, RowGrows
<1>5. row \in Seq(Cell) /\ ColumnsOf(row) = Shown(rec, to, Reach(rec, from, to, k))
  BY DEF Written
<1>6. \/ j = 0 /\ \A i \in DOMAIN BitRanges(rec) : ~Covers(rec, i, bit)
      \/ j \in DOMAIN BitRanges(rec) /\ j # 0 /\ Covers(rec, j, bit)
  BY <1>3, BitCases
<1>7. Reach(rec, from, to, k + 1) = IF j = 0 THEN k + 1 ELSE to - Lowest(rec, j, from)
  BY <1>2 DEF Reach
<1>8. bit = to - (k + 1)
  OBVIOUS
<1>9. (j = 0 \/ bit = Highest(rec, j, from)) => Reach(rec, from, to, k) = k
  BY ReachAtEdge
<1> SUFFICES /\ row \o CellsOf(rec, bit) \in Seq(Cell)
             /\ ColumnsOf(row \o CellsOf(rec, bit)) = Shown(rec, to, Reach(rec, from, to, k + 1))
  BY <1>4 DEF Written
<1> HIDE DEF row, bit
<1>10. CASE j = 0 /\ \A i \in DOMAIN BitRanges(rec) : ~Covers(rec, i, bit)
  <2>1. CellsOf(rec, bit) = <<<<0, 1>>>>
    BY <1>3, <1>10, CellUnused
  <2> DEFINE x == <<0, 1>>
  <2>2. x \in Cell /\ x[1] = 0 /\ x[2] = 1
    BY DEF Cell
  <2> HIDE DEF x
  <2>3. row \o CellsOf(rec, bit) = Append(row, x) /\ Append(row, x) \in Seq(Cell)
    BY <1>5, <2>1, <2>2, AppendIsConcat, AppendProperties DEF x
  <2>4. ColumnsOf(Append(row, x)) = Shown(rec, to, k) \o [c \in 1..1 |-> 0]
    BY <1>5, <1>9, <1>10, <2>2, ColumnsGrow
  <2>5. \A c \in 1..1 : OwnerOf(rec, to - (k + c)) = 0
    BY <1>8, <1>10
  <2> DEFINE n == 1
             w == [c \in 1..1 |-> 0]
  <2>7. n \in Nat /\ Continues(rec, to, k, n, w)
    BY <2>5 DEF Continues
  <2> HIDE DEF n, w
  <2>8. to \in Nat /\ k \in Nat /\ n \in Nat /\ Continues(rec, to, k, n, w)
    BY <1>2, <2>7
  <2>9. Join(Shown(rec, to, k), w) = Shown(rec, to, k + n)
    BY ONLY <2>8, ShownGrows
  <2>6. Shown(rec, to, k) \o [c \in 1..1 |-> 0] = Shown(rec, to, k + 1)
    BY <2>9 DEF n, w, Join
  <2> QED
    BY <1>7, <1>10, <2>3, <2>4, <2>6
<1>11. CASE j \in DOMAIN BitRanges(rec) /\ j # 0 /\ Covers(rec, j, bit)
  <2> DEFINE lo == Lowest(rec, j, from)
  <2>1. j \in Nat /\ BitRanges(rec)[j].start \in Nat /\ BitRanges(rec)[j].end \in Nat
        /\ BitRanges(rec)[j].end < MaxBits(rec)
    BY <1>11, FieldsAre
  <2>2. lo \in Nat /\ lo <= bit /\ BitRanges(rec)[j].start <= lo
    BY <1>3, <1>11, <2>1 DEF Lowest, Covers, InBlock
  <2>3. Reach(rec, from, to, k + 1) = to - lo
    BY <1>7, <1>11
  <2>4. \A n \in lo..bit : OwnerOf(rec, n) = j
    <3> SUFFICES ASSUME NEW n \in lo..bit PROVE OwnerOf(rec, n) = j
      OBVIOUS
    <3> HIDE DEF lo, j
    <3>1. n \in Nat /\ Covers(rec, j, n)
      BY <1>3, <1>11, <2>1, <2>2 DEF Covers
    <3> QED
      BY <1>11, <3>1, OwnerIs
  <2>5. CASE bit = Highest(rec, j, from)
    <3>1. CellsOf(rec, bit) = <<<<j, bit + 1 - lo>>>>
      BY <1>3, <1>11, <2>5, CellAtTop
    <3>9. Reach(rec, from, to, k) = k
      BY <1>9, <2>5
    <3> HIDE DEF lo, j
    <3> DEFINE n == bit + 1 - lo
               x == <<j, n>>
    <3>2. n \in Nat /\ k + n = to - lo
      BY <1>2, <1>3, <1>8, <2>2
    <3> HIDE DEF n
    <3>3. x \in Cell /\ x[1] = j /\ x[2] = n
      BY <2>1, <3>2 DEF Cell
    <3> HIDE DEF x
    <3>4. row \o CellsOf(rec, bit) = Append(row, x) /\ Append(row, x) \in Seq(Cell)
      BY <1>5, <3>1, <3>3, AppendIsConcat, AppendProperties DEF x, n
    <3>5. ColumnsOf(Append(row, x)) = Shown(rec, to, k) \o [c \in 1..n |-> j]
      BY <1>5, <3>3, <3>9, ColumnsGrow
    <3>6. \A c \in 1..n : OwnerOf(rec, to - (k + c)) = j
      <4> SUFFICES ASSUME NEW c \in 1..n PROVE OwnerOf(rec, to - (k + c)) = j
        OBVIOUS
      <4>1. to - (k + c) \in lo..bit
        BY <1>2, <1>3, <1>8, <2>2, <3>2 DEF n
      <4> QED
        BY <2>4, <4>1
    <3> DEFINE w == [c \in 1..n |-> j]
    <3>8. Continues(rec, to, k, n, w)
      BY <3>6 DEF Continues
    <3> HIDE DEF w
    <3>10. to \in Nat /\ k \in Nat /\ n \in Nat /\ Continues(rec, to, k, n, w)
      BY <1>2, <3>2, <3>8
    <3>11. Join(Shown(rec, to, k), w) = Shown(rec, to, k + n)
      BY ONLY <3>10, ShownGrows
    <3>7. Shown(rec, to, k) \o [c \in 1..n |-> j] = Shown(rec, to, k + n)
      BY <3>11 DEF w, Join
    <3> QED
      BY <2>3, <3>2, <3>4, <3>5, <3>7
  <2>6. CASE bit # Highest(rec, j, from)
    <3>1. CellsOf(rec, bit) = <<>>
      BY <1>3, <1>11, <2>6, CellInside
    <3>2. row \o CellsOf(rec, bit) = row
      BY <1>5, <3>1
    <3>3. bit + 1 <= BitRanges(rec)[j].end /\ bit + 1 < from + Block
      <4> HIDE DEF j, from
      <4>1. from \in Nat /\ from <= bit /\ bit < from + Block
        BY <1>3 DEF InBlock, from
      <4> QED
        BY <1>3, <1>11, <2>1, <2>6, <4>1 DEF Highest, Covers
    <3>4. k # 0 /\ bit + 1 = to - k
      <4> HIDE DEF j, from
      <4>1. to = from + Block \/ to = MaxBits(rec)
        BY DEF InRow, from
      <4> QED
        BY <1>2, <1>3, <1>8, <2>1, <3>3, <4>1
    <3>5. OwnerOf(rec, bit + 1) = j
      <4> HIDE DEF j, from
      <4>1. bit + 1 \in Nat /\ Covers(rec, j, bit + 1)
        BY <1>3, <1>11, <2>1, <3>3 DEF Covers
      <4> QED
        BY <1>11, <4>1, OwnerIs
    <3>6. Reach(rec, from, to, k) = to - lo
      BY <1>11, <3>4, <3>5 DEF Reach
    <3> QED
      BY <1>5, <2>3, <3>2, <3>6
  <2> QED
    BY <2>5, <2>6
<1> QED
  BY <1>6, <1>10, <1>11

(* A row shows every bit once, under its own field.                        *)
LEMMA RowIs ==
    ASSUME NEW rec, IsRegister(rec), NEW b \in Nat, NEW to \in Nat, InRow(rec, b, to)
    PROVE  ColumnsOf(Row(rec, b * Block, to)) = Shown(rec, to, to - b * Block)
<1> DEFINE from == b * Block
           n == to - from
           T == {k \in 0..n : ~Written(rec, b, to, k)}
<1>1. from \in Nat /\ n \in Nat /\ n > 0
  <2>1. b * Block \in Nat
    BY BlockAssumption, ProductIsNat
  <2> QED
    BY <2>1 DEF InRow
<1>2. Written(rec, b, to, 0)
  <2>1. RowUpto(rec, to, 0) = <<>>
    BY FlatEmpty DEF RowUpto
  <2>2. ColumnsOf(<<>>) = <<>>
    BY FlatEmpty DEF ColumnsOf
  <2>3. Reach(rec, from, to, 0) = 0
    BY DEF Reach
  <2>4. Shown(rec, to, 0) = <<>>
    BY DEF Shown
  <2>5. RowUpto(rec, to, 0) \in Seq(Cell)
    BY <2>1, EmptySeq
  <2> QED
    BY <2>1, <2>2, <2>3, <2>4, <2>5 DEF Written
<1>3. T = {}
  <2> SUFFICES ASSUME T # {} PROVE FALSE
    OBVIOUS
  <2>1. PICK k \in T : \A y \in T : k <= y
    <3>1. T \in SUBSET Nat
      BY <1>1
    <3> QED
      BY <3>1, LeastNat
  <2>2. k \in 0..n /\ ~Written(rec, b, to, k)
    OBVIOUS
  <2>3. k # 0
    BY <1>2, <2>2
  <2> DEFINE m == k - 1
  <2> HIDE DEF n
  <2>4. m \in 0..n - 1 /\ m \in 0..n /\ m + 1 = k /\ ~ (k <= m)
    BY <1>1, <2>2, <2>3
  <2> HIDE DEF m
  <2>5. Written(rec, b, to, m)
    BY <2>1, <2>4
  <2>6. Written(rec, b, to, m + 1)
    BY <2>4, <2>5, RowStep DEF n
  <2> QED
    BY <2>2, <2>4, <2>6
<1>4. Written(rec, b, to, n)
  <2> HIDE DEF n
  <2>1. n \in 0..n
    BY <1>1
  <2> QED
    BY <1>3, <2>1
<1>5. Row(rec, from, to) = RowUpto(rec, to, n)
  BY DEF Row, RowUpto
<1>6. Reach(rec, from, to, n) = n
  <2>1. to - n = from
    BY <1>1
  <2>2. Reach(rec, from, to, n) = IF OwnerOf(rec, from) = 0 THEN n
                                  ELSE to - Lowest(rec, OwnerOf(rec, from), from)
    BY <1>1, <2>1 DEF Reach
  <2> DEFINE j == OwnerOf(rec, from)
  <2>3. CASE j # 0
    <3>1. j \in DOMAIN BitRanges(rec) /\ Covers(rec, j, from)
      BY <1>1, <2>3, BitCases
    <3> HIDE DEF j, from
    <3>2. BitRanges(rec)[j].start \in Nat
      BY <3>1, FieldsAre
    <3>3. Lowest(rec, j, from) = from
      BY <1>1, <3>1, <3>2 DEF Lowest, Covers
    <3> QED
      BY <2>2, <2>3, <3>3 DEF j, from
  <2> QED
    BY <2>2, <2>3
<1> QED
  BY <1>4, <1>5, <1>6 DEF Written

(* Tuples, put together.                                                   *)
LEMMA AddOne ==
    ASSUME NEW n \in Nat, NEW c, IsSeq(c), Len(c) = n, NEW x,
           NEW w, IsSeq(w), Len(w) = n + 1, \A i \in 1..n : w[i] = c[i], w[n + 1] = x
    PROVE  c \o <<x>> = w
<1> DEFINE d == <<x>>
           j == c \o d
<1>1. IsSeq(d) /\ Len(d) = 1 /\ d[1] = x
  <2>1. d \in Seq({x})
    OBVIOUS
  <2> QED
    BY <2>1, SeqIs
<1> HIDE DEF d
<1>2. /\ IsSeq(j) /\ Len(j) = Len(c) + Len(d)
      /\ \A i \in 1..Len(c) + Len(d) : j[i] = IF i <= Len(c) THEN c[i] ELSE d[i - Len(c)]
  BY <1>1, JoinIs
<1> HIDE DEF j
<1>3. \A i \in 1..Len(j) : j[i] = w[i]
  <2> TAKE i \in 1..Len(j)
  <2>1. CASE i \in 1..n
    BY <1>1, <1>2, <2>1
  <2>2. CASE i = n + 1
    <3>1. i - n = 1
      BY <2>2
    <3> QED
      BY <1>1, <1>2, <2>2, <3>1
  <2> QED
    BY <1>1, <1>2, <2>1, <2>2
<1>4. Len(j) = Len(w)
  BY <1>1, <1>2
<1>5. j = w
  BY <1>2, <1>3, <1>4, EqualIs
<1> QED
  BY <1>5 DEF j, d

Glue(a, b, c) == a \o b \o c

LEMMA TuplesAre ==
    ASSUME NEW p, NEW q, NEW r, NEW s
    PROVE  /\ Glue(<<>>, <<p>>, <<q>>) = <<p, q>>
           /\ Glue(<<p, q>>, <<r>>, <<s>>) = <<p, q, r, s>>
<1> DEFINE a == <<p>>
           b == <<p, q>>
           c == <<p, q, r>>
           d == <<p, q, r, s>>
           S == {p, q, r, s}
<1>1. a \in Seq(S) /\ b \in Seq(S) /\ c \in Seq(S) /\ d \in Seq(S)
  OBVIOUS
<1>2. /\ Len(a) = 1 /\ a[1] = p
      /\ Len(b) = 2 /\ b[1] = p /\ b[2] = q
      /\ Len(c) = 3 /\ c[1] = p /\ c[2] = q /\ c[3] = r
      /\ Len(d) = 4 /\ d[1] = p /\ d[2] = q /\ d[3] = r /\ d[4] = s
  OBVIOUS
<1> HIDE DEF a, b, c, d
<1>3. IsSeq(a) /\ IsSeq(b) /\ IsSeq(c) /\ IsSeq(d)
  BY <1>1, SeqIs
<1> DEFINE one == 1
           two == 2
           three == 3
<1>4. /\ one \in Nat /\ Len(a) = one /\ Len(b) = one + 1
      /\ \A i \in 1..one : b[i] = a[i]
      /\ b[one + 1] = q
  <2>1. 1..one = {1} /\ one + 1 = 2
    OBVIOUS
  <2> QED
    BY <1>2, <2>1
<1>5. /\ two \in Nat /\ Len(b) = two /\ Len(c) = two + 1
      /\ \A i \in 1..two : c[i] = b[i]
      /\ c[two + 1] = r
  <2>1. 1..two = {1, 2} /\ two + 1 = 3
    OBVIOUS
  <2> QED
    BY <1>2, <2>1
<1>6. /\ three \in Nat /\ Len(c) = three /\ Len(d) = three + 1
      /\ \A i \in 1..three : d[i] = c[i]
      /\ d[three + 1] = s
  <2>1. 1..three = {1, 2, 3} /\ three + 1 = 4
    OBVIOUS
  <2> QED
    BY <1>2, <2>1
<1> HIDE DEF one, two, three
<1>7. a \o <<q>> = b
  BY <1>3, <1>4, AddOne
<1>8. b \o <<r>> = c
  BY <1>3, <1>5, AddOne
<1>9. c \o <<s>> = d
  BY <1>3, <1>6, AddOne
<1>10. <<>> \o a = a
  BY <1>1
<1> QED
  BY <1>7, <1>8, <1>9, <1>10 DEF a, b, c, d, Glue

(* A table has a row for each block, and they are the blocks of the        *)
(* register.                                                               *)
Entry(rec, from, to) == [from |-> from, to |-> to, cells |-> Row(rec, from, to)]
EntryRight(rec, e) ==
    ColumnsOf(e.cells) = [c \in 1..e.to - e.from |-> OwnerOf(rec, e.to - c)]

LEMMA EntryIs ==
    ASSUME NEW rec, IsRegister(rec), NEW b \in Nat, NEW from, from = b * Block,
           NEW to \in Nat, InRow(rec, b, to)
    PROVE  EntryRight(rec, Entry(rec, from, to))
<1>1. ColumnsOf(Row(rec, b * Block, to)) = Shown(rec, to, to - b * Block)
  BY RowIs
<1>2. ColumnsOf(Row(rec, from, to)) = [c \in 1..to - from |-> OwnerOf(rec, to - c)]
  BY <1>1 DEF Shown
<1> QED
  BY <1>2 DEF Entry, EntryRight

LEMMA SizesAre ==
    ASSUME NEW rec, IsRegister(rec)
    PROVE  \/ MaxBits(rec) > 4 * Block
           \/ MaxBits(rec) = 4 * Block
           \/ MaxBits(rec) = 2 * Block
           \/ MaxBits(rec) \in 1..Block
<1> DEFINE h == Block \div 2
<1>1. h \in Nat \ {0} /\ Block = 2 * h
  BY BlockAssumption
<1>2. MaxBits(rec) = rec.bytes * h
  BY DEF MaxBits
<1> HIDE DEF h
<1>3. CASE rec.bytes = 1
  BY <1>1, <1>2, <1>3
<1>4. CASE rec.bytes = 2
  BY <1>1, <1>2, <1>4
<1>5. CASE rec.bytes = 4
  BY <1>1, <1>2, <1>5
<1>6. CASE rec.bytes = 8
  BY <1>1, <1>2, <1>6
<1>7. CASE rec.bytes \in Nat /\ rec.bytes > 8
  <2> DEFINE n == rec.bytes - 9
  <2>1. n \in Nat /\ rec.bytes = n + 9
    BY <1>7
  <2> HIDE DEF n
  <2>2. n * h \in Nat /\ (n + 9) * h = n * h + 9 * h
    BY <1>1, <2>1, ProductIsNat
  <2> DEFINE p == n * h
  <2>3. p \in Nat /\ MaxBits(rec) = p + 9 * h
    BY <1>2, <2>1, <2>2
  <2> HIDE DEF p
  <2> QED
    BY <1>1, <2>3
<1> QED
  BY <1>3, <1>4, <1>5, <1>6, <1>7 DEF IsRegister

LEMMA TableRows ==
    ASSUME NEW rec, IsRegister(rec)
    PROVE  \/ Table(rec) = <<>>
           \/ /\ MaxBits(rec) = 4 * Block
              /\ Table(rec) = <<Entry(rec, 3 * Block, 4 * Block), Entry(rec, 2 * Block, 3 * Block),
                                Entry(rec, Block, 2 * Block), Entry(rec, 0, Block)>>
           \/ /\ MaxBits(rec) = 2 * Block
              /\ Table(rec) = <<Entry(rec, Block, 2 * Block), Entry(rec, 0, Block)>>
           \/ /\ MaxBits(rec) \in 1..Block
              /\ Table(rec) = <<Entry(rec, 0, MaxBits(rec))>>
<1> DEFINE max == MaxBits(rec)
           low == IF max < Block THEN max ELSE Block
           top == IF max > 2 * Block
                    THEN << <<3 * Block, 4 * Block>>, <<2 * Block, 3 * Block>> >> ELSE <<>>
           mid == IF max > Block THEN << <<Block, 2 * Block>> >> ELSE <<>>
           ends == top \o mid \o << <<0, low>> >>
           e(p) == Entry(rec, p[1], p[2])
<1>1. Table(rec) = IF max > 4 * Block THEN <<>> ELSE [k \in DOMAIN ends |-> e(ends[k])]
  BY DEF Table, Entry
<1>2. max \in Nat /\ Block \in Nat \ {0}
  BY MaxBitsIs, BlockAssumption
<1> HIDE DEF max
<1>3. CASE max > 4 * Block
  BY <1>1, <1>3
<1>4. CASE max = 4 * Block
  <2> DEFINE w == << <<3 * Block, 4 * Block>>, <<2 * Block, 3 * Block>>,
                     <<Block, 2 * Block>>, <<0, Block>> >>
  <2>1. max > 2 * Block /\ max > Block /\ ~ (max < Block) /\ ~ (max > 4 * Block)
    BY <1>2, <1>4
  <2>2. ends = w
    <3>1. /\ top = << <<3 * Block, 4 * Block>>, <<2 * Block, 3 * Block>> >>
          /\ mid = << <<Block, 2 * Block>> >> /\ low = Block
      BY <2>1
    <3> HIDE DEF top, mid, low
    <3>2. ends = Glue(<< <<3 * Block, 4 * Block>>, <<2 * Block, 3 * Block>> >>,
                      << <<Block, 2 * Block>> >>, << <<0, Block>> >>)
      BY <3>1 DEF Glue
    <3> DEFINE p == <<3 * Block, 4 * Block>>
               q == <<2 * Block, 3 * Block>>
               r == <<Block, 2 * Block>>
               s == <<0, Block>>
    <3>3. ends = Glue(<<p, q>>, <<r>>, <<s>>)
      BY <3>2
    <3> HIDE DEF p, q, r, s, ends
    <3>4. /\ Glue(<<>>, <<p>>, <<q>>) = <<p, q>>
          /\ Glue(<<p, q>>, <<r>>, <<s>>) = <<p, q, r, s>>
      BY ONLY TuplesAre, ZenonT(30)
    <3>5. ends = <<p, q, r, s>>
      BY ONLY <3>3, <3>4
    <3> QED
      BY <3>5 DEF p, q, r, s
  <2>3. /\ DOMAIN w = 1..4 /\ w[1] = <<3 * Block, 4 * Block>> /\ w[2] = <<2 * Block, 3 * Block>>
        /\ w[3] = <<Block, 2 * Block>> /\ w[4] = <<0, Block>>
    OBVIOUS
  <2> HIDE DEF ends, w
  <2>4. [k \in DOMAIN w |-> e(w[k])] = <<e(w[1]), e(w[2]), e(w[3]), e(w[4])>>
    <3> HIDE DEF e
    <3> QED
      BY <2>3
  <2>5. /\ e(w[1]) = Entry(rec, 3 * Block, 4 * Block) /\ e(w[2]) = Entry(rec, 2 * Block, 3 * Block)
        /\ e(w[3]) = Entry(rec, Block, 2 * Block) /\ e(w[4]) = Entry(rec, 0, Block)
    BY <2>3
  <2> QED
    BY <1>1, <1>4, <2>1, <2>2, <2>4, <2>5 DEF max
<1>5. CASE max = 2 * Block
  <2> DEFINE w == << <<Block, 2 * Block>>, <<0, Block>> >>
  <2>1. ~ (max > 2 * Block) /\ max > Block /\ ~ (max < Block) /\ ~ (max > 4 * Block)
    BY <1>2, <1>5
  <2>2. ends = w
    <3>1. top = <<>> /\ mid = << <<Block, 2 * Block>> >> /\ low = Block
      BY <2>1
    <3> HIDE DEF top, mid, low
    <3>2. ends = Glue(<<>>, << <<Block, 2 * Block>> >>, << <<0, Block>> >>)
      BY <3>1 DEF Glue
    <3> QED
      BY <3>2, TuplesAre
  <2>3. DOMAIN w = 1..2 /\ w[1] = <<Block, 2 * Block>> /\ w[2] = <<0, Block>>
    OBVIOUS
  <2> HIDE DEF ends, w
  <2>4. [k \in DOMAIN w |-> e(w[k])] = <<e(w[1]), e(w[2])>>
    <3> HIDE DEF e
    <3> QED
      BY <2>3
  <2>5. e(w[1]) = Entry(rec, Block, 2 * Block) /\ e(w[2]) = Entry(rec, 0, Block)
    BY <2>3
  <2> QED
    BY <1>1, <1>5, <2>1, <2>2, <2>4, <2>5 DEF max
<1>6. CASE max \in 1..Block
  <2> DEFINE w == << <<0, max>> >>
  <2>1. ~ (max > 2 * Block) /\ ~ (max > Block) /\ ~ (max > 4 * Block) /\ low = max
    BY <1>2, <1>6
  <2>2. ends = w
    <3>1. top = <<>> /\ mid = <<>> /\ low = max
      BY <2>1
    <3> HIDE DEF top, mid, low
    <3> QED
      BY <3>1
  <2>3. DOMAIN w = 1..1 /\ w[1] = <<0, max>>
    OBVIOUS
  <2> HIDE DEF ends, w
  <2>4. [k \in DOMAIN w |-> e(w[k])] = <<e(w[1])>>
    <3> HIDE DEF e
    <3> QED
      BY <2>3
  <2>5. e(w[1]) = Entry(rec, 0, max)
    BY <2>3
  <2> QED
    BY <1>1, <1>6, <2>1, <2>2, <2>4, <2>5 DEF max
<1> QED
  BY <1>3, <1>4, <1>5, <1>6, SizesAre DEF max

(* The rows are right, and they show every bit once.                       *)
LEMMA TableRight ==
    ASSUME NEW rec, IsRegister(rec)
    PROVE  \A k \in DOMAIN Table(rec) : EntryRight(rec, Table(rec)[k])
<1> DEFINE max == MaxBits(rec)
<1>1. max \in Nat /\ Block \in Nat \ {0}
  BY MaxBitsIs, BlockAssumption
<1>2. ASSUME NEW b \in Nat, NEW from, from = b * Block, NEW to \in Nat, from < to,
             to <= from + Block, to <= max, to = from + Block \/ to = max
      PROVE  EntryRight(rec, Entry(rec, from, to))
  <2>1. InRow(rec, b, to)
    BY <1>2 DEF InRow
  <2> QED
    BY <1>2, <2>1, EntryIs
<1>3. CASE max = 4 * Block
  <2> HIDE DEF max
  <2>1. EntryRight(rec, Entry(rec, 3 * Block, 4 * Block))
    <3> DEFINE b == 3
    <3>1. b \in Nat /\ 3 * Block = b * Block
      BY <1>1
    <3> HIDE DEF b
    <3>2. 4 * Block \in Nat /\ 3 * Block < 4 * Block /\ 4 * Block <= 3 * Block + Block
          /\ 4 * Block <= max /\ 4 * Block = 3 * Block + Block
      BY <1>1, <1>3
    <3> QED
      BY <1>2, <3>1, <3>2
  <2>2. EntryRight(rec, Entry(rec, 2 * Block, 3 * Block))
    <3> DEFINE b == 2
    <3>1. b \in Nat /\ 2 * Block = b * Block
      BY <1>1
    <3> HIDE DEF b
    <3>2. 3 * Block \in Nat /\ 2 * Block < 3 * Block /\ 3 * Block <= 2 * Block + Block
          /\ 3 * Block <= max /\ 3 * Block = 2 * Block + Block
      BY <1>1, <1>3
    <3> QED
      BY <1>2, <3>1, <3>2
  <2>3. EntryRight(rec, Entry(rec, Block, 2 * Block))
    <3> DEFINE b == 1
    <3>1. b \in Nat /\ Block = b * Block
      BY <1>1
    <3> HIDE DEF b
    <3>2. 2 * Block \in Nat /\ Block < 2 * Block /\ 2 * Block <= Block + Block
          /\ 2 * Block <= max /\ 2 * Block = Block + Block
      BY <1>1, <1>3
    <3> QED
      BY <1>2, <3>1, <3>2
  <2>4. EntryRight(rec, Entry(rec, 0, Block))
    <3> DEFINE b == 0
    <3>1. b \in Nat /\ 0 = b * Block
      BY <1>1
    <3> HIDE DEF b
    <3>2. Block \in Nat /\ 0 < Block /\ Block <= 0 + Block
          /\ Block <= max /\ Block = 0 + Block
      BY <1>1, <1>3
    <3> QED
      BY <1>2, <3>1, <3>2
  <2> QED
    BY <1>1, <1>3, <2>1, <2>2, <2>3, <2>4, TableRows DEF max
<1>4. CASE max = 2 * Block
  <2> HIDE DEF max
  <2>3. EntryRight(rec, Entry(rec, Block, 2 * Block))
    <3> DEFINE b == 1
    <3>1. b \in Nat /\ Block = b * Block
      BY <1>1
    <3> HIDE DEF b
    <3>2. 2 * Block \in Nat /\ Block < 2 * Block /\ 2 * Block <= Block + Block
          /\ 2 * Block <= max /\ 2 * Block = Block + Block
      BY <1>1, <1>4
    <3> QED
      BY <1>2, <3>1, <3>2
  <2>4. EntryRight(rec, Entry(rec, 0, Block))
    <3> DEFINE b == 0
    <3>1. b \in Nat /\ 0 = b * Block
      BY <1>1
    <3> HIDE DEF b
    <3>2. Block \in Nat /\ 0 < Block /\ Block <= 0 + Block
          /\ Block <= max /\ Block = 0 + Block
      BY <1>1, <1>4
    <3> QED
      BY <1>2, <3>1, <3>2
  <2> QED
    BY <1>1, <1>4, <2>3, <2>4, TableRows DEF max
<1>5. CASE max \in 1..Block
  <2> HIDE DEF max
  <2>4. EntryRight(rec, Entry(rec, 0, max))
    <3> DEFINE b == 0
    <3>1. b \in Nat /\ 0 = b * Block
      BY <1>1
    <3> HIDE DEF b
    <3>2. max \in Nat /\ 0 < max /\ max <= 0 + Block
      BY <1>1, <1>5
    <3> QED
      BY <1>2, <3>1, <3>2
  <2> QED
    BY <1>1, <1>5, <2>4, TableRows DEF max
<1> QED
  BY <1>3, <1>4, <1>5, TableRows

LEMMA TableWhole ==
    ASSUME NEW rec, IsRegister(rec), Table(rec) # <<>>, NEW bit \in 0..MaxBits(rec) - 1
    PROVE  Cardinality({k \in DOMAIN Table(rec) :
                          bit \in Table(rec)[k].from..Table(rec)[k].to - 1}) = 1
<1> DEFINE max == MaxBits(rec)
           Rows == {k \in DOMAIN Table(rec) : bit \in Table(rec)[k].from..Table(rec)[k].to - 1}
<1>1. max \in Nat /\ Block \in Nat \ {0} /\ bit \in 0..max - 1
  BY MaxBitsIs, BlockAssumption
<1>2. \A f, t : Entry(rec, f, t).from = f /\ Entry(rec, f, t).to = t
  BY DEF Entry
<1> SUFFICES \E k : Rows = {k}
  BY FS_Singleton
<1>3. CASE max = 4 * Block
  <2>1. Table(rec) = <<Entry(rec, 3 * Block, 4 * Block), Entry(rec, 2 * Block, 3 * Block),
                       Entry(rec, Block, 2 * Block), Entry(rec, 0, Block)>>
    BY <1>1, <1>3, TableRows
  <2> HIDE DEF max
  <2>2. /\ bit \in 3 * Block..4 * Block - 1 => Rows = {1}
        /\ bit \in 2 * Block..3 * Block - 1 => Rows = {2}
        /\ bit \in Block..2 * Block - 1 => Rows = {3}
        /\ bit \in 0..Block - 1 => Rows = {4}
    BY <1>1, <1>2, <2>1
  <2>3. \/ bit \in 3 * Block..4 * Block - 1 \/ bit \in 2 * Block..3 * Block - 1
        \/ bit \in Block..2 * Block - 1 \/ bit \in 0..Block - 1
    BY <1>1, <1>3
  <2> HIDE DEF Rows
  <2> QED
    BY <2>2, <2>3
<1>4. CASE max = 2 * Block
  <2>1. Table(rec) = <<Entry(rec, Block, 2 * Block), Entry(rec, 0, Block)>>
    BY <1>1, <1>4, TableRows
  <2> HIDE DEF max
  <2>2. /\ bit \in Block..2 * Block - 1 => Rows = {1}
        /\ bit \in 0..Block - 1 => Rows = {2}
    BY <1>1, <1>2, <2>1
  <2>3. bit \in Block..2 * Block - 1 \/ bit \in 0..Block - 1
    BY <1>1, <1>4
  <2> HIDE DEF Rows
  <2> QED
    BY <2>2, <2>3
<1>5. CASE max \in 1..Block
  <2>1. Table(rec) = <<Entry(rec, 0, max)>>
    BY <1>1, <1>5, TableRows
  <2> HIDE DEF max
  <2>2. Rows = {1}
    BY <1>1, <1>2, <2>1
  <2> QED
    BY <2>2
<1> QED
  BY <1>3, <1>4, <1>5, TableRows

(* The register at the desk keeps its table.                               *)
DocInv ==
    IF desk = "register" THEN IsRegister(reg) /\ table \in {<<>>, Table(reg)} ELSE table = <<>>

LEMMA DocHolds == Spec => []DocInv
<1>1. Init => DocInv
  BY RegistersAssumption DEF Init, DocInv
<1>2. DocInv /\ [Next]_vars => DocInv'
  <2> SUFFICES ASSUME DocInv, [Next]_vars PROVE DocInv'
    OBVIOUS
  <2>1. CASE UNCHANGED <<desk, docVars>>
    BY <2>1 DEF DocInv, docVars
  <2>2. CASE Document
    BY <2>2 DEF Document, OnlyDoc, DocInv
  <2>3. ASSUME NEW chip \in DOMAIN CHIP_INFO, MakeBinary(chip) PROVE DocInv'
    BY <2>1, <2>3 DEF MakeBinary, OnlyFile
  <2>4. ASSUME NEW chip \in DOMAIN CHIP_INFO, NEW bypass \in BOOLEAN, MakeImage(chip, bypass)
        PROVE  DocInv'
    BY <2>1, <2>4 DEF MakeImage, OnlyFile
  <2>5. CASE Harm
    BY <2>1, <2>5 DEF Harm, OnlyFile
  <2>6. CASE Validate
    BY <2>1, <2>6 DEF Validate, OnlyFile
  <2>7. CASE ScanStep
    BY <2>1, <2>7 DEF ScanStep, OnlyScan
  <2>8. CASE TraceBegins \/ TraceRuns
    BY <2>1, <2>8 DEF TraceBegins, TraceRuns, OnlyTrace
  <2>9. CASE UNCHANGED vars
    BY <2>1, <2>9 DEF vars
  <2> QED
    BY <2>2, <2>3, <2>4, <2>5, <2>6, <2>7, <2>8, <2>9 DEF Next
<1> QED
  BY <1>1, <1>2, PTL DEF Spec

(* In the table of a register every field lies under the headers of its    *)
(* bits and of no others, whatever blocks it crosses, and every bit is     *)
(* shown once (generate_docs.py, 227 to 405), for any description in which *)
(* no bit is of two fields.                                                *)
THEOREM FieldsUnderBits == Spec => []CellsUnderBits
<1>1. DocInv => CellsUnderBits
  <2> SUFFICES ASSUME DocInv, table # <<>> PROVE CellsUnderBits
    BY DEF CellsUnderBits
  <2>1. IsRegister(reg) /\ table = Table(reg)
    BY DEF DocInv
  <2>2. \A bit : Owner(bit) = OwnerOf(reg, bit)
    BY DEF Owner, OwnerOf
  <2>3. \A cells : Columns(cells) = ColumnsOf(cells)
    BY DEF Columns, ColumnsOf
  <2>4. ASSUME NEW k \in DOMAIN table
        PROVE  Columns(table[k].cells) =
                   [c \in 1..table[k].to - table[k].from |-> Owner(table[k].to - c)]
    <3>1. ColumnsOf(table[k].cells) =
            [c \in 1..table[k].to - table[k].from |-> OwnerOf(reg, table[k].to - c)]
      BY <2>1, TableRight DEF EntryRight
    <3> QED
      BY <2>2, <2>3, <3>1
  <2>5. ASSUME NEW bit \in 0..MaxBits(reg) - 1
        PROVE  Cardinality({k \in DOMAIN table : bit \in table[k].from..table[k].to - 1}) = 1
    BY <2>1, TableWhole
  <2> QED
    BY <2>4, <2>5 DEF CellsUnderBits
<1> QED
  BY <1>1, DocHolds, PTL
=============================================================================
