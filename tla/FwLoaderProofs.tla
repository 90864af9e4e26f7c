--------------------------- MODULE FwLoaderProofs ---------------------------
(***************************************************************************)
(* Proofs about FwLoader, for every size of the banks, every set of images *)
(* and every behaviour of the 8051 and of the user.                        *)
(***************************************************************************)
EXTENDS FwLoaderInv, TLAPS

USE GenAssumption, QAssumption

-----------------------------------------------------------------------------
(* Address arithmetic of the window. *)

(* A counter value that the write loop may use, while it is in the image. *)
WriteIndex(n) ==
  IF Gen = 1 THEN n \in 0 .. 4*Q - 1
             ELSE n \in 0 .. 2*Q - 1 \/ n \in 4*Q .. 6*Q - 1

(* The lower lane, at the masked address, reaches the word at the counter, *)
(* except for the upper bank of generation 1, which has the upper lane.    *)
LEMMA MaskedReal ==
  ASSUME NEW n, WriteIndex(n)
  PROVE  /\ Masked(n) \in 0 .. AddrRegSize - 1
         /\ IF Gen = 1 /\ Bit15(n) THEN Real(Masked(n)) + 2*Q = n
                                   ELSE Real(Masked(n)) = n
  BY DEF WriteIndex, Masked, Real, Bit15, Bit16, Low15, AddrRegSize

LEMMA RealRange ==
  ASSUME NEW a \in 0 .. AddrRegSize - 1
  PROVE  Real(a) \in Nat
  BY DEF Real, AddrRegSize

(* Polling for a moved address register ends exactly when it has moved. *)
LEMMA AutoIncrementMoves ==
  ASSUME NEW a \in 0 .. AddrRegSize - 1
  PROVE  /\ AutoIncrement(a) \in 0 .. AddrRegSize - 1
         /\ AutoIncrement(a) # a
  BY DEF AutoIncrement, AddrRegSize

(* One pass of the write loop adds the words at the counter to the written *)
(* ones, and nothing else.                                                 *)
LEMMA NextWriteCovers ==
  ASSUME NEW n, WriteIndex(n), NEW len \in 0 .. CodeSizeLimit, n < len,
         NEW k \in 0 .. len - 1, Written(NextWrite(n), k)
  PROVE  Written(n, k) \/ k = n \/ (Gen = 2 /\ k = n + 2*Q)
  BY DEF WriteIndex, NextWrite, Written, Bit15, CodeSizeLimit

LEMMA NextWriteIndex ==
  ASSUME NEW n, WriteIndex(n), NEW len \in 0 .. CodeSizeLimit, n < len
  PROVE  IF Gen = 1 THEN NextWrite(n) \in 0 .. len
         ELSE \/ NextWrite(n) \in 0 .. 2*Q - 1
              \/ NextWrite(n) \in 4*Q .. 6*Q - 1
              \/ NextWrite(n) = 8*Q
  BY DEF WriteIndex, NextWrite, Bit15, CodeSizeLimit

(* The same for the read loop. *)
LEMMA NextReadCovers ==
  ASSUME Gen = 2, NEW n, n \in 0 .. Q - 1 \/ n \in 4*Q .. 5*Q - 1,
         NEW len \in 0 .. CodeSizeLimit, n < len,
         NEW k \in 0 .. len - 1, Fetched(NextRead(n), k)
  PROVE  Fetched(n, k) \/ k \in {n, n + Q, n + 2*Q, n + 3*Q}
  BY DEF NextRead, Fetched, Bit14, CodeSizeLimit

LEMMA NextReadIndex ==
  ASSUME Gen = 2, NEW n, n \in 0 .. Q - 1 \/ n \in 4*Q .. 5*Q - 1
  PROVE  \/ NextRead(n) \in 0 .. Q - 1
         \/ NextRead(n) \in 4*Q .. 5*Q - 1
         \/ NextRead(n) = 8*Q
  BY DEF NextRead, Bit14

-----------------------------------------------------------------------------
(* The invariant holds initially and every action preserves it. *)

LEMMA InitLoaderInv == Init => LoaderInv
<1> SUFFICES ASSUME Init PROVE LoaderInv
  OBVIOUS
<1>1. TypeOK
  <2>1. ram \in [RamAddr -> Word]
    BY CpuStoreAssumption DEF Init
  <2>2. addrReg \in 0 .. AddrRegSize - 1
    BY DEF Init, AddrRegSize
  <2>3. pend \in [lo : WordOrNone, hi : WordOrNone]
    BY DEF Init, NoStore, WordOrNone
  <2>4. rdData \in [bank0 : Word, bank1 : Word, bank2 : Word, bank3 : Word]
    BY WordAssumption DEF Init, NoData
  <2> QED
    BY <2>1, <2>2, <2>3, <2>4 DEF Init, TypeOK, PcValues, Phases, Endings
<1>2. PhaseInv /\ WindowInv /\ PendInv /\ WriteInv /\ ReadInv
  BY DEF Init, PhaseInv, WindowInv, PendInv, WriteInv, ReadInv, WritePhases,
         VerifyPhases, WritePart, ReadPart, AfterWrite
<1>3. booted # Corrupt
  BY BootedAssumption DEF Init
<1> QED
  BY <1>1, <1>2, <1>3 DEF LoaderInv

(* The argument of hw_code_load_exec, as long as it has one. *)
LEMMA CodeType ==
  ASSUME LoaderInv, lpc \in {"halt", "write", "mode", "release"}
  PROVE  /\ code \in Loadable
         /\ code.len \in 0 .. CodeSizeLimit
         /\ code.word \in [0 .. code.len - 1 -> Word]
  BY ImagesAssumption DEF LoaderInv, PhaseInv, Loadable, CodeSizeLimit

LEMMA CallLoadInv ==
  ASSUME LoaderInv, NEW t \in Tools, NEW c \in Images, CallLoad(t, c)
  PROVE  LoaderInv'
<1> USE DEF CallLoad, LoaderInv, deviceVars, cpuVars
<1>1. TypeOK'
  BY DEF TypeOK, PhaseInv, Loadable, Phases, Endings
<1>2. PhaseInv' /\ WindowInv' /\ PendInv'
  BY DEF PhaseInv, WindowInv, PendInv, Loadable, WritePart, ReadPart, WritePhases, VerifyPhases
<1>3. WriteInv' /\ ReadInv'
  BY DEF PhaseInv, WriteInv, ReadInv, WritePhases, VerifyPhases, AfterWrite, ReadPart
<1> QED
  BY <1>1, <1>2, <1>3

LEMMA HaltInv ==
  ASSUME LoaderInv, Halt
  PROVE  LoaderInv'
<1> USE DEF Halt, Call, LoaderInv, deviceVars
<1>1. TypeOK'
  BY DEF TypeOK, Phases, PcValues
<1>2. PhaseInv' /\ WindowInv' /\ PendInv'
  BY DEF PhaseInv, WindowInv, PendInv, WritePart, ReadPart, WritePhases, VerifyPhases
<1>3. WriteInv' /\ ReadInv'
  BY DEF PhaseInv, WriteInv, ReadInv, WritePhases, VerifyPhases, AfterWrite, ReadPart
<1> QED
  BY <1>1, <1>2, <1>3

LEMMA InterruptInv ==
  ASSUME LoaderInv, Interrupt
  PROVE  LoaderInv'
<1> USE DEF Interrupt, FrameGone, LoaderInv, deviceVars, cpuVars
<1>1. TypeOK'
  BY DEF TypeOK, Phases, PcValues, Endings
<1>2. PhaseInv' /\ WindowInv' /\ PendInv'
  BY DEF PhaseInv, WindowInv, PendInv, WritePart, ReadPart, WritePhases, VerifyPhases
<1>3. WriteInv' /\ ReadInv'
  BY DEF WriteInv, ReadInv, WritePhases, VerifyPhases, AfterWrite, ReadPart
<1> QED
  BY <1>1, <1>2, <1>3

LEMMA WriteReturnsInv ==
  ASSUME LoaderInv, WriteReturns
  PROVE  LoaderInv'
<1> USE DEF WriteReturns, LoaderInv, deviceVars, cpuVars
<1>0. wpc = "done"
  BY DEF ReadInv, ReadbackMatches
<1>1. TypeOK'
  BY <1>0 DEF TypeOK, Phases, PcValues
<1>2. PhaseInv' /\ WindowInv' /\ PendInv'
  BY <1>0 DEF PhaseInv, WindowInv, PendInv, WritePart, ReadPart, WritePhases, VerifyPhases
<1>3. WriteInv' /\ ReadInv'
  BY <1>0 DEF WriteInv, ReadInv, Holds, WritePhases, VerifyPhases, AfterWrite, ReadPart
<1> QED
  BY <1>1, <1>2, <1>3

LEMMA ModeStepInv ==
  ASSUME LoaderInv, SetMode \/ DemoMode \/ DemoReset
  PROVE  LoaderInv'
<1> USE DEF SetMode, DemoMode, DemoReset, LoaderInv, hwVars, deviceVars, frameVars
<1>1. TypeOK'
  BY DEF TypeOK, Phases, Endings
<1>2. PhaseInv' /\ WindowInv' /\ PendInv'
  BY DEF PhaseInv, WindowInv, PendInv, WritePart, ReadPart, WritePhases, VerifyPhases
<1>3. WriteInv' /\ ReadInv'
  BY DEF PhaseInv, WriteInv, ReadInv, Holds, WriteCounter, ReadCounter, DataLanes,
         WritePhases, VerifyPhases, AfterWrite, ReadPart
<1> QED
  BY <1>1, <1>2, <1>3

(* The host's release: CODE RAM holds the image, so that is what the 8051   *)
(* starts on.                                                              *)
LEMMA ReleaseInv ==
  ASSUME LoaderInv, Release
  PROVE  LoaderInv'
<1> USE DEF Release, FrameGone, LoaderInv, deviceVars
<1>1. TypeOK'
  BY DEF TypeOK, PhaseInv, CpuEdge, Phases, PcValues, Endings
<1>2. PhaseInv' /\ WindowInv' /\ PendInv'
  BY DEF PhaseInv, WindowInv, PendInv, WritePart, ReadPart, WritePhases, VerifyPhases
<1>3. WriteInv' /\ ReadInv'
  BY DEF WriteInv, ReadInv, WritePhases, VerifyPhases, AfterWrite, ReadPart
<1>4. booted' # Corrupt
  <2>1. Holds(code) /\ code \in Images
    BY DEF WriteInv, PhaseInv, Loadable
  <2> QED
    BY <2>1, BootedAssumption DEF CpuEdge
<1> QED
  BY <1>1, <1>2, <1>3, <1>4

(* The 8051 only acts out of reset, when no load is in progress. *)
LEMMA CpuStepInv ==
  ASSUME LoaderInv, CpuStep
  PROVE  LoaderInv'
<1> USE DEF LoaderInv, CpuActive, InReset, Held, frameVars
<1>1. exec = "run" /\ lpc \notin {"write", "mode", "release"} /\ wpc = "idle"
  BY DEF CpuStep, CpuStoresCode, CpuSetsMode, CpuResets, TypeOK, PhaseInv
<1>2. CASE CpuStoresCode
  <2> USE <1>2 DEF CpuStoresCode, cpuVars, toolVars
  <2>1. TypeOK'
    BY CpuStoreAssumption DEF TypeOK
  <2>2. PhaseInv' /\ WindowInv' /\ PendInv'
    BY DEF PhaseInv, WindowInv, PendInv
  <2>3. WriteInv' /\ ReadInv' /\ booted' # Corrupt
    BY <1>1 DEF WriteInv, ReadInv, WritePhases, VerifyPhases, AfterWrite, ReadPart
  <2> QED
    BY <2>1, <2>2, <2>3
<1>3. CASE CpuSetsMode \/ CpuResets
  <2> USE <1>3 DEF CpuSetsMode, CpuResets, hwVars, deviceVars, toolVars
  <2>1. TypeOK'
    BY DEF TypeOK
  <2>2. PhaseInv' /\ WindowInv' /\ PendInv'
    BY DEF PhaseInv, WindowInv, PendInv
  <2>3. WriteInv' /\ ReadInv'
    BY <1>1 DEF WriteInv, ReadInv, WritePhases, VerifyPhases, AfterWrite, ReadPart
  <2>4. booted' # Corrupt
    BY BootedAssumption
  <2> QED
    BY <2>1, <2>2, <2>3, <2>4
<1> QED
  BY <1>2, <1>3 DEF CpuStep

(* The device stores the words owed.  Polled for in the write loop, they   *)
(* are the words of the image at the counter and land at the counter; in   *)
(* the read loop CODE RAM stays as it is and the lanes show the image.     *)
LEMMA DeviceStepInv ==
  ASSUME LoaderInv, DeviceStep
  PROVE  LoaderInv'
<1> USE DEF DeviceStep, DeviceStore, LoaderInv, frameVars, cpuVars, toolVars
<1>0. exec = "halt" /\ (lpc # "idle" => wpc \in {"wait", "rdWait"})
  BY DEF PendInv, TypeOK
<1>1. TypeOK'
  <2>1. addrReg' \in 0 .. AddrRegSize - 1
    BY AutoIncrementMoves DEF TypeOK
  <2>2. ram' \in [RamAddr -> Word]
    <3>1. Stored \in [RamAddr -> Word]
      BY DEF Stored, TypeOK, WordOrNone
    <3> QED
      BY <3>1 DEF TypeOK
  <2>3. rdData' \in [bank0 : Word, bank1 : Word, bank2 : Word, bank3 : Word]
    <3>1. \A a : RamAt(a) \in Word
      BY WordAssumption DEF RamAt, TypeOK
    <3> QED
      BY <3>1 DEF TypeOK, Latched
  <2>4. pend' \in [lo : WordOrNone, hi : WordOrNone]
    BY DEF NoStore, WordOrNone
  <2> QED
    BY <2>1, <2>2, <2>3, <2>4 DEF TypeOK
<1>2. PhaseInv' /\ WindowInv' /\ PendInv'
  BY <1>0 DEF PhaseInv, WindowInv, PendInv
<1>3. CASE wpc = "wait"
  <2>1. /\ lpc = "write" /\ code.len \in 0 .. CodeSizeLimit
        /\ code.word \in [0 .. code.len - 1 -> Word]
    BY <1>3, CodeType DEF PhaseInv, TypeOK
  <2>2. WriteIndex(i) /\ i \in 0 .. code.len - 1
    BY <1>3, <2>1 DEF TypeOK, WriteInv, WriteCounter, WriteIndex, WritePhases, CodeSizeLimit
  <2>3. pend = DataLanes /\ addrReg = Masked(i) /\ WriteOpen
    BY <1>3 DEF WriteInv, WindowInv, WriteOpen, WritePart, WritePhases
  <2>4. \A k \in RamAddr : ram'[k] =
          IF k = i THEN code.word[i]
          ELSE IF Gen = 2 /\ k = i + 2*Q THEN pend.hi
          ELSE ram[k]
    <3>1. ram' = Stored
      BY <2>3
    <3>2. code.word[i] # None
      BY <2>1, <2>2, WordAssumption
    <3>3. CASE Gen = 1 /\ Bit15(i)
      BY <2>2, <2>3, <3>1, <3>2, <3>3, MaskedReal DEF Stored, DataLanes, TypeOK
    <3>4. CASE Gen = 1 /\ ~Bit15(i)
      BY <2>2, <2>3, <3>1, <3>2, <3>4, MaskedReal DEF Stored, DataLanes, TypeOK
    <3>5. CASE Gen = 2
      <4>1. pend.hi # None /\ pend.lo = code.word[i]
        BY <2>1, <2>2, <2>3, <3>5, WordAssumption DEF DataLanes, TypeOK
      <4> QED
        BY <2>2, <2>3, <3>1, <3>2, <3>5, <4>1, MaskedReal DEF Stored
    <3> QED
      BY <3>3, <3>4, <3>5
  <2>5. 0 .. code.len - 1 \subseteq RamAddr
    BY <2>1 DEF RamAddr, CodeSizeLimit
  <2>6. \A k \in 0 .. code.len - 1 : Written(i, k) => ram'[k] = code.word[k]
    <3> SUFFICES ASSUME NEW k \in 0 .. code.len - 1, Written(i, k)
                 PROVE  ram'[k] = code.word[k]
      OBVIOUS
    <3>1. k # i /\ ~(Gen = 2 /\ k = i + 2*Q)
      BY <2>1, <2>2 DEF Written, WriteIndex
    <3>2. ram[k] = code.word[k]
      BY <1>3 DEF WriteInv, WritePhases
    <3> QED
      BY <2>4, <2>5, <3>1, <3>2
  <2>7. /\ ram'[i] = code.word[i]
        /\ Gen = 2 /\ i + 2*Q < code.len => ram'[i + 2*Q] = code.word[i + 2*Q]
    <3>1. ram'[i] = code.word[i]
      BY <2>2, <2>4, <2>5
    <3>2. ASSUME Gen = 2, i + 2*Q < code.len
          PROVE  ram'[i + 2*Q] = code.word[i + 2*Q]
      <4>1. i + 2*Q \in RamAddr /\ i + 2*Q # i
        BY <2>1, <2>2, <3>2 DEF RamAddr, CodeSizeLimit, TypeOK
      <4>2. pend.hi = code.word[i + 2*Q]
        BY <2>3, <3>2 DEF DataLanes
      <4> QED
        BY <2>4, <3>2, <4>1, <4>2
    <3> QED
      BY <3>1, <3>2
  <2>8. WriteInv'
    BY <1>3, <2>1, <2>6, <2>7
       DEF WriteInv, WriteCounter, WritePhases, AfterWrite, ReadPart, VerifyPhases
  <2>9. ReadInv'
    BY <1>3 DEF ReadInv, VerifyPhases
  <2> QED
    BY <1>1, <1>2, <2>8, <2>9
<1>4. CASE wpc = "rdWait"
  <2>1. /\ lpc = "write" /\ code.len \in 0 .. CodeSizeLimit
        /\ code.word \in [0 .. code.len - 1 -> Word] /\ Gen = 2
    BY <1>4, CodeType DEF PhaseInv, TypeOK, ReadPart, VerifyPhases
  <2>2. i \in 0 .. code.len - 1 /\ WriteIndex(i)
    BY <1>4, <2>1 DEF TypeOK, WriteInv, ReadInv, ReadCounter, WriteIndex, VerifyPhases, CodeSizeLimit
  <2>3. addrReg = Masked(i) /\ ReadOpen /\ ~WriteOpen /\ Holds(code)
    BY <1>4, <2>1
       DEF WriteInv, ReadInv, WindowInv, ReadOpen, WriteOpen, ReadPart, AfterWrite, VerifyPhases
  <2>4. Real(addrReg) = i
    BY <2>1, <2>2, <2>3, MaskedReal
  <2>5. \A k \in 0 .. code.len - 1 : RamAt(k) = code.word[k]
    BY <2>1, <2>3 DEF Holds, RamAt, RamAddr, CodeSizeLimit
  <2>6. ram' = ram /\ rdData' = Latched
    BY <2>3
  <2>7. /\ rdData'.bank0 = code.word[i]
        /\ i + Q < code.len => rdData'.bank1 = code.word[i + Q]
        /\ i + 2*Q < code.len => rdData'.bank2 = code.word[i + 2*Q]
        /\ i + 3*Q < code.len => rdData'.bank3 = code.word[i + 3*Q]
    <3>1. /\ i + Q \in Nat /\ i + 2*Q \in Nat /\ i + 3*Q \in Nat
      BY <2>1, <2>2 DEF TypeOK
    <3>2. /\ i + Q < code.len => i + Q \in 0 .. code.len - 1
          /\ i + 2*Q < code.len => i + 2*Q \in 0 .. code.len - 1
          /\ i + 3*Q < code.len => i + 3*Q \in 0 .. code.len - 1
      BY <2>1, <3>1
    <3> QED
      BY <2>2, <2>4, <2>5, <2>6, <3>2 DEF Latched
  <2>8. WriteInv'
    BY <1>4, <2>6 DEF WriteInv, Holds, WritePhases, AfterWrite, ReadPart, VerifyPhases
  <2>9. ReadInv'
    BY <1>4, <2>7 DEF ReadInv, ReadCounter, VerifyPhases
  <2> QED
    BY <1>1, <1>2, <2>8, <2>9
<1>5. CASE lpc = "idle"
  <2>1. wpc = "idle" /\ wpc' = "idle" /\ lpc' = "idle"
    BY <1>5 DEF PhaseInv
  <2> QED
    BY <1>1, <1>2, <2>1
       DEF WriteInv, ReadInv, WritePhases, VerifyPhases, AfterWrite, ReadPart
<1> QED
  BY <1>0, <1>3, <1>4, <1>5

(* The steps of hw_code_write, one by one; the 8051 is held throughout. *)
LEMMA WriteStepInv ==
  ASSUME LoaderInv, WriteStep
  PROVE  LoaderInv'
<1> USE DEF LoaderInv, toolVars
<1>1. /\ lpc = "write" /\ lpc' = "write" /\ exec = "halt" /\ exec' = "halt"
      /\ UNCHANGED <<modeNext, modeCur, booted, tool, last>>
  BY DEF WriteStep, PhaseInv, CpuEdge, Held, InReset
<1>2. /\ code.len \in 0 .. CodeSizeLimit /\ code.word \in [0 .. code.len - 1 -> Word]
      /\ code \in Loadable /\ base = 0
  BY <1>1, CodeType DEF TypeOK
<1>3. CASE EnableWrite \/ OpenAccess \/ CloseAccess \/ DisableWrite
  <2> USE <1>3 DEF EnableWrite, OpenAccess, CloseAccess, DisableWrite
  <2>1. TypeOK'
    BY <1>1 DEF TypeOK, PcValues, WritePhases
  <2>2. PhaseInv' /\ WindowInv' /\ PendInv'
    BY <1>1 DEF PhaseInv, WindowInv, PendInv, WritePart, ReadPart, WritePhases, VerifyPhases
  <2>3. WriteInv' /\ ReadInv'
    BY <1>1, <1>2 DEF PhaseInv, WriteInv, ReadInv, Holds, WriteCounter, Written, WritePhases, VerifyPhases,
       AfterWrite, ReadPart
  <2> QED
    BY <1>1, <2>1, <2>2, <2>3
<1>4. CASE WriteAddr
  <2> USE <1>4 DEF WriteAddr
  <2>1. WriteIndex(i) /\ base + i = i
    BY <1>2 DEF TypeOK, WriteInv, WriteCounter, WriteIndex, WritePhases, CodeSizeLimit
  <2>2. TypeOK'
    BY <1>1, <2>1, MaskedReal DEF TypeOK, PcValues, WritePhases
  <2>3. PhaseInv' /\ WindowInv' /\ PendInv'
    BY <1>1 DEF PhaseInv, WindowInv, PendInv, WritePart, ReadPart, WritePhases, VerifyPhases
  <2>4. WriteInv' /\ ReadInv'
    BY <1>1, <2>1 DEF WriteInv, ReadInv, WriteCounter, WritePhases, VerifyPhases, AfterWrite, ReadPart
  <2> QED
    BY <1>1, <2>2, <2>3, <2>4
<1>5. CASE WriteData
  <2> USE <1>5 DEF WriteData
  <2>1. i \in 0 .. code.len - 1
    BY <1>2 DEF TypeOK, WriteInv, WriteCounter
  <2>2. DataLanes \in [lo : WordOrNone, hi : WordOrNone]
    <3>1. code.word[i] \in Word
      BY <1>2, <2>1
    <3>2. i + 2*Q < code.len => code.word[i + 2*Q] \in Word
      BY <1>2, <2>1
    <3> QED
      BY <3>1, <3>2, WordAssumption DEF DataLanes, WordOrNone
  <2>3. TypeOK'
    BY <1>1, <2>2 DEF TypeOK, PcValues, WritePhases
  <2>4. PhaseInv' /\ WindowInv' /\ PendInv'
    BY <1>1 DEF PhaseInv, WindowInv, PendInv, WritePart, ReadPart, WritePhases, VerifyPhases
  <2>5. WriteInv' /\ ReadInv'
    BY <1>1 DEF WriteInv, ReadInv, WriteCounter, DataLanes, WritePhases, VerifyPhases, AfterWrite, ReadPart
  <2> QED
    BY <1>1, <2>3, <2>4, <2>5
<1>6. CASE WriteWait
  <2> USE <1>6 DEF WriteWait, deviceVars
  <2>1. WriteIndex(i) /\ base + i = i /\ i < code.len /\ i \in Nat
    BY <1>2 DEF TypeOK, WriteInv, WriteCounter, WriteIndex, WritePhases, CodeSizeLimit
  <2>2. /\ pend = NoStore /\ ram[i] = code.word[i]
        /\ Gen = 2 /\ i + 2*Q < code.len => ram[i + 2*Q] = code.word[i + 2*Q]
    BY <2>1 DEF WriteInv
  <2>3. WriteCounter' /\ i' \in Nat
    BY <1>2, <2>1, NextWriteIndex DEF WriteCounter
  <2>4. \A k \in 0 .. code.len - 1 : Written(i', k) => ram[k] = code.word[k]
    BY <1>2, <2>1, <2>2, NextWriteCovers DEF WriteInv, WritePhases
  <2>5. TypeOK'
    BY <1>1, <2>3 DEF TypeOK, PcValues, WritePhases
  <2>6. PhaseInv' /\ WindowInv' /\ PendInv'
    BY <1>1, <2>2 DEF PhaseInv, WindowInv, PendInv, WritePart, ReadPart, WritePhases, VerifyPhases
  <2>7. WriteInv' /\ ReadInv'
    BY <1>1, <2>3, <2>4 DEF WriteInv, ReadInv, WritePhases, VerifyPhases, AfterWrite, ReadPart
  <2> QED
    BY <1>1, <2>5, <2>6, <2>7
<1>7. CASE WriteLoopEnd
  <2> USE <1>7 DEF WriteLoopEnd, deviceVars
  <2>1. Holds(code)
    BY <1>2 DEF Holds, TypeOK, WriteInv, WriteCounter, Written, WritePhases, CodeSizeLimit
  <2>2. TypeOK'
    BY <1>1 DEF TypeOK, PcValues
  <2>3. PhaseInv' /\ WindowInv' /\ PendInv'
    BY <1>1 DEF PhaseInv, WindowInv, PendInv, WritePart, ReadPart, WritePhases, VerifyPhases
  <2>4. WriteInv' /\ ReadInv'
    BY <1>1, <2>1 DEF WriteInv, ReadInv, Holds, WritePhases, VerifyPhases, AfterWrite, ReadPart
  <2> QED
    BY <1>1, <2>2, <2>3, <2>4
<1>8. CASE EnableRead
  <2> USE <1>8 DEF EnableRead
  <2>0. Gen = 2 /\ i' = 0
    BY DEF PhaseInv
  <2>1. readback' \in [0 .. code.len - 1 -> Word]
    BY WordAssumption
  <2>2. TypeOK'
    BY <1>1, <2>1 DEF TypeOK, PcValues, VerifyPhases
  <2>3. PhaseInv' /\ WindowInv' /\ PendInv'
    BY <1>1, <2>0 DEF PhaseInv, WindowInv, PendInv, WritePart, ReadPart, WritePhases, VerifyPhases
  <2>4. WriteInv' /\ ReadInv'
    BY <1>1, <1>2, <2>0, <2>1 DEF WriteInv, ReadInv, ReadCounter, Fetched, Holds, WritePhases, VerifyPhases,
       AfterWrite, ReadPart
  <2> QED
    BY <1>1, <2>2, <2>3, <2>4
<1>9. CASE ReadAddr
  <2> USE <1>9 DEF ReadAddr
  <2>1. WriteIndex(i) /\ base + i = i
    BY <1>2 DEF TypeOK, PhaseInv, ReadInv, ReadCounter, WriteIndex, VerifyPhases, ReadPart, CodeSizeLimit
  <2>2. TypeOK'
    BY <1>1, <2>1, MaskedReal DEF TypeOK, PcValues, VerifyPhases
  <2>3. PhaseInv' /\ WindowInv' /\ PendInv'
    BY <1>1 DEF PhaseInv, WindowInv, PendInv, WritePart, ReadPart, WritePhases, VerifyPhases
  <2>4. WriteInv' /\ ReadInv'
    BY <1>1, <2>1 DEF WriteInv, ReadInv, ReadCounter, Holds, WritePhases, VerifyPhases, AfterWrite, ReadPart
  <2> QED
    BY <1>1, <2>2, <2>3, <2>4
<1>10. CASE ReadTrigger
  <2> USE <1>10 DEF ReadTrigger
  <2>1. TypeOK'
    BY <1>1, WordAssumption DEF TypeOK, PcValues, VerifyPhases, WordOrNone
  <2>2. PhaseInv' /\ WindowInv' /\ PendInv'
    BY <1>1 DEF PhaseInv, WindowInv, PendInv, WritePart, ReadPart, WritePhases, VerifyPhases
  <2>3. WriteInv' /\ ReadInv'
    BY <1>1 DEF WriteInv, ReadInv, ReadCounter, Holds, WritePhases, VerifyPhases, AfterWrite, ReadPart
  <2> QED
    BY <1>1, <2>1, <2>2, <2>3
<1>11. CASE ReadData
  <2> USE <1>11 DEF ReadData, deviceVars
  <2>1. /\ i \in 0 .. Q - 1 \/ i \in 4*Q .. 5*Q - 1
        /\ base + i = i /\ i < code.len /\ Gen = 2
    BY <1>2 DEF TypeOK, PhaseInv, WriteInv, ReadInv, ReadCounter, VerifyPhases, ReadPart, CodeSizeLimit
  <2>2. /\ pend = NoStore /\ rdData.bank0 = code.word[i]
        /\ i + Q < code.len => rdData.bank1 = code.word[i + Q]
        /\ i + 2*Q < code.len => rdData.bank2 = code.word[i + 2*Q]
        /\ i + 3*Q < code.len => rdData.bank3 = code.word[i + 3*Q]
    BY <2>1 DEF ReadInv
  <2>3. ReadCounter' /\ i' \in Nat
    BY <2>1, NextReadIndex DEF ReadCounter
  <2>4. readback' \in [0 .. code.len - 1 -> Word]
    BY DEF Unpacked, TypeOK, ReadInv, VerifyPhases
  <2>5. \A k \in 0 .. code.len - 1 : Fetched(i', k) => readback'[k] = code.word[k]
    <3> SUFFICES ASSUME NEW k \in 0 .. code.len - 1, Fetched(i', k)
                 PROVE  readback'[k] = code.word[k]
      OBVIOUS
    <3>1. Fetched(i, k) \/ k \in {i, i + Q, i + 2*Q, i + 3*Q}
      BY <1>2, <2>1, NextReadCovers
    <3>2. Fetched(i, k) => readback[k] = code.word[k]
      BY DEF ReadInv, VerifyPhases
    <3>3. readback'[k] = IF k = i THEN rdData.bank0
                         ELSE IF k = i + Q THEN rdData.bank1
                         ELSE IF k = i + 2*Q THEN rdData.bank2
                         ELSE IF k = i + 3*Q THEN rdData.bank3
                         ELSE readback[k]
      BY DEF Unpacked
    <3>4. k < code.len
      BY <1>2
    <3> QED
      BY <2>2, <3>1, <3>2, <3>3, <3>4
  <2>6. TypeOK'
    BY <1>1, <2>3, <2>4 DEF TypeOK, PcValues, VerifyPhases
  <2>7. PhaseInv' /\ WindowInv' /\ PendInv'
    BY <1>1, <2>2 DEF PhaseInv, WindowInv, PendInv, WritePart, ReadPart, WritePhases, VerifyPhases
  <2>8. WriteInv' /\ ReadInv'
    BY <1>1, <2>3, <2>4, <2>5 DEF WriteInv, ReadInv, Holds, WritePhases, VerifyPhases, AfterWrite, ReadPart
  <2> QED
    BY <1>1, <2>6, <2>7, <2>8
<1>12. CASE ReadLoopEnd
  <2> USE <1>12 DEF ReadLoopEnd, deviceVars
  <2>1. readback = code.word
    <3>1. \A k \in 0 .. code.len - 1 : Fetched(i, k)
      BY <1>2 DEF TypeOK, PhaseInv, ReadInv, ReadCounter, Fetched, VerifyPhases, ReadPart, CodeSizeLimit
    <3>2. \A k \in 0 .. code.len - 1 : readback[k] = code.word[k]
      BY <3>1 DEF ReadInv, VerifyPhases
    <3>3. readback \in [0 .. code.len - 1 -> Word]
      BY DEF ReadInv, VerifyPhases
    <3> QED
      BY <1>2, <3>2, <3>3
  <2>2. TypeOK'
    BY <1>1 DEF TypeOK, PcValues
  <2>3. PhaseInv' /\ WindowInv' /\ PendInv'
    BY <1>1 DEF PhaseInv, WindowInv, PendInv, WritePart, ReadPart, WritePhases, VerifyPhases
  <2>4. WriteInv' /\ ReadInv'
    BY <1>1, <2>1 DEF WriteInv, ReadInv, Holds, WritePhases, VerifyPhases, AfterWrite, ReadPart
  <2> QED
    BY <1>1, <2>2, <2>3, <2>4
<1>13. CASE AssertReadback
  <2> USE <1>13 DEF AssertReadback, deviceVars
  <2>1. wpc' = "disAccess"
    BY DEF ReadInv
  <2>2. TypeOK'
    BY <1>1, <2>1 DEF TypeOK, PcValues
  <2>3. PhaseInv' /\ WindowInv' /\ PendInv'
    BY <1>1, <2>1 DEF PhaseInv, WindowInv, PendInv, WritePart, ReadPart, WritePhases, VerifyPhases
  <2>4. WriteInv' /\ ReadInv'
    BY <1>1, <2>1 DEF WriteInv, ReadInv, Holds, WritePhases, VerifyPhases, AfterWrite, ReadPart
  <2> QED
    BY <1>1, <2>2, <2>3, <2>4
<1> QED
  BY <1>3, <1>4, <1>5, <1>6, <1>7, <1>8, <1>9, <1>10, <1>11, <1>12, <1>13
     DEF WriteStep, HostStep

LEMMA StutterInv ==
  ASSUME LoaderInv, UNCHANGED vars
  PROVE  LoaderInv'
<1> USE DEF vars, hwVars, deviceVars, frameVars, cpuVars, toolVars, LoaderInv
<1>1. TypeOK' /\ PhaseInv' /\ WindowInv' /\ PendInv' /\ booted' # Corrupt
  BY DEF TypeOK, PhaseInv, WindowInv, PendInv
<1>2. WriteInv' /\ ReadInv'
  BY DEF WriteInv, ReadInv, WriteCounter, ReadCounter, Holds, DataLanes
<1> QED
  BY <1>1, <1>2

LEMMA NextLoaderInv == LoaderInv /\ [Next]_vars => LoaderInv'
<1> SUFFICES ASSUME LoaderInv, [Next]_vars PROVE LoaderInv'
  OBVIOUS
<1>1. ASSUME NEW c \in Images, CallLoad("load_fw", c) PROVE LoaderInv'
  BY <1>1, CallLoadInv DEF Tools
<1>2. ASSUME CallLoad("bug_demo", Park) PROVE LoaderInv'
  BY <1>2, CallLoadInv, ParkAssumption DEF Tools
<1>3. ASSUME ToolStep PROVE LoaderInv'
  BY <1>3, HaltInv, WriteStepInv, WriteReturnsInv, InterruptInv, ModeStepInv, ReleaseInv
     DEF ToolStep
<1> QED
  BY <1>1, <1>2, <1>3, InterruptInv, DeviceStepInv, CpuStepInv, StutterInv DEF Next

-----------------------------------------------------------------------------
(* The inductive invariant holds of every reachable state. *)
THEOREM Invariance == Spec => []LoaderInv
  BY InitLoaderInv, NextLoaderInv, PTL DEF Spec

(* The tools, the window and the 8051 keep their types. *)
THEOREM TypeCorrect == Spec => []TypeOK
<1>1. LoaderInv => TypeOK
  BY DEF LoaderInv
<1> QED
  BY <1>1, Invariance, PTL

(* From the halt to the release, the 8051 is in reset. *)
THEOREM Held8051 == Spec => []HeldWhileLoading
<1>1. LoaderInv => HeldWhileLoading
  BY DEF LoaderInv, PhaseInv, HeldWhileLoading, InReset, Held
<1> QED
  BY <1>1, Invariance, PTL

(* The 8051 never runs with the CODE RAM window open. *)
THEOREM WindowClosed == Spec => []WindowClosedWhileRunning
<1>1. LoaderInv => WindowClosedWhileRunning
  BY DEF LoaderInv, TypeOK, WindowInv, PendInv, WindowClosedWhileRunning, InReset, Held
<1> QED
  BY <1>1, Invariance, PTL

(* The assertion of hw_code_write never fires. *)
THEOREM ReadbackCorrect == Spec => []ReadbackMatches
<1>1. LoaderInv => ReadbackMatches
  BY DEF LoaderInv, ReadInv, ReadbackMatches
<1> QED
  BY <1>1, Invariance, PTL

(* The host never starts the 8051 on an incomplete image. *)
THEOREM CompleteImage == Spec => []NoCorruptBoot
<1>1. LoaderInv => NoCorruptBoot
  BY DEF LoaderInv, NoCorruptBoot
<1> QED
  BY <1>1, Invariance, PTL

(* Loading implements the abstract loader: the 8051 is only ever stopped,   *)
(* started on a complete image, or rebooted by itself.                     *)
THEOREM Refinement == Spec => ImplementsLoadSpec
<1>1. Init => Abstract!Init
  BY DEF Init, Abstract!Init, InReset, Held
<1>2. LoaderInv /\ LoaderInv' /\ [Next]_vars => [Abstract!Next]_(Abstract!vars)
  <2> SUFFICES ASSUME LoaderInv, LoaderInv', [Next]_vars
               PROVE  [Abstract!Next]_(Abstract!vars)
    OBVIOUS
  <2> USE DEF Abstract!vars, InReset, Held, deviceVars, cpuVars, toolVars, hwVars
  <2>1. CASE (\E t \in Tools, c \in Images : CallLoad(t, c)) \/ Interrupt \/ DeviceStep
             \/ UNCHANGED vars
    BY <2>1 DEF CallLoad, Interrupt, DeviceStep, DeviceStore, vars
  <2>2. CASE WriteReturns \/ SetMode \/ DemoMode
    BY <2>2 DEF WriteReturns, SetMode, DemoMode
  <2>3. CASE WriteStep
    BY <2>3 DEF WriteStep, CpuEdge, LoaderInv, PhaseInv
  <2>4. CASE Halt \/ DemoReset
    BY <2>4 DEF Halt, DemoReset, Call, Abstract!Next, Abstract!Stop
  <2>5. CASE Release
    <3>1. /\ code \in Loadable /\ Holds(code) /\ modeNext = "ram"
          /\ access = "off" /\ exec = "halt"
      BY <2>5 DEF Release, LoaderInv, PhaseInv, WindowInv, WriteInv
    <3>2. exec' = "run" /\ access' = "off" /\ CpuEdge
      BY <2>5, <3>1 DEF Release
    <3> QED
      BY <3>1, <3>2 DEF CpuEdge, Abstract!Next, Abstract!Start
  <2>6. CASE CpuStep
    BY <2>6 DEF CpuStep, CpuActive, CpuStoresCode, CpuSetsMode, CpuResets,
                Abstract!Next, Abstract!Reboot
  <2> QED
    BY <2>1, <2>2, <2>3, <2>4, <2>5, <2>6, ParkAssumption DEF Next, ToolStep, Tools
<1> QED
  BY <1>1, <1>2, Invariance, PTL DEF Spec, ImplementsLoadSpec, Abstract!Spec

=============================================================================
