------------------------------ MODULE FwLoader ------------------------------
(***************************************************************************)
(* Direct firmware loading: the tools load_fw.py and bug_demo.py on top of *)
(* AsmDev.hw_code_load_exec, with the 8051 they load the firmware into.    *)
(*                                                                         *)
(* The tool is one host process.  Next to it run the device's CODE RAM     *)
(* window (module HwCodeWrite) and, whenever it is not in reset, the 8051, *)
(* whose code may write CODE RAM (boot ROM loading from flash, monitor     *)
(* writeb), choose its next boot mode and reset itself.  The tool may be   *)
(* interrupted (Ctrl-C) at any step and any tool may be run again.         *)
(*                                                                         *)
(* A byte access to a register of the 8051's MMIO space (hw_mmio_reg_read, *)
(* hw_mmio_reg_write) is one step here.                                    *)
(***************************************************************************)
EXTENDS HwCodeWrite

CONSTANTS
  CpuAddr,   \* where code running on the 8051 stores into CODE RAM
  CpuWord,   \* the words it stores
  Park,      \* the program of bug_demo.py, an infinite loop
  RomCode,   \* booted: the boot ROM
  SelfCode,  \* booted: CODE RAM, at the 8051's own reset
  Corrupt    \* booted: CODE RAM that does not hold the image being loaded

ASSUME CpuStoreAssumption == CpuAddr \subseteq RamAddr /\ CpuWord \subseteq Word
ASSUME ParkAssumption == Park \in Images /\ Park.len <= CodeSizeLimit
ASSUME BootedAssumption ==
  /\ {RomCode, SelfCode, Corrupt} \cap Images = {}
  /\ Corrupt \notin {RomCode, SelfCode}

VARIABLES
  exec,      \* CPU_EXEC_CTRL: "run" (0) or "halt" (HALT set)
  modeNext,  \* CPU_MODE_NEXT.CODE_LOCATION: "rom" or "ram"
  modeCur,   \* CPU_MODE_CURRENT.CODE_LOCATION
  booted,    \* history: the code the 8051 was last started on
  tool,      \* the tool that runs, or ran last
  lpc,       \* where it is
  last       \* how the last tool ended

cpuVars  == <<exec, modeNext, modeCur, booted>>
toolVars == <<tool, lpc, last>>
vars     == <<hwVars, cpuVars, toolVars>>

Tools  == {"load_fw", "bug_demo"}
Phases == {"idle", "halt", "write", "mode", "release", "demoMode", "demoReset"}
Endings == {"none", "running", "returned", "rejected", "interrupted", "failed"}

(* HALT holds the 8051 in reset, and so does CODE_ACCESS while it is on. *)
Held(e, a) == e = "halt" \/ a # "off"
InReset == Held(exec, access)

(* CODE RAM holds the image c. *)
Holds(c) == \A k \in 0 .. c.len - 1 : ram[k] = c.word[k]

Loadable == {c \in Images : c.len <= CodeSizeLimit}

(* What a step of the host does to the 8051: when the step takes it out of *)
(* reset, CPU_MODE_NEXT is latched and it starts on the code that selects. *)
CpuEdge ==
  IF InReset /\ ~Held(exec', access')
    THEN /\ modeCur' = modeNext
         /\ booted' = IF modeNext = "rom" THEN RomCode
                      ELSE IF Holds(code) THEN code
                      ELSE Corrupt
    ELSE UNCHANGED <<modeCur, booted>>

-----------------------------------------------------------------------------
Init ==
  /\ \E w \in CpuWord : ram = [a \in RamAddr |-> w]
  /\ addrReg = 0 /\ pend = NoStore /\ rdData = NoData
  /\ wen = FALSE /\ access = "off"
  /\ wpc = "idle" /\ code = NoCode /\ base = 0 /\ i = 0 /\ readback = NoBuffer
  /\ exec = "run"
  /\ \/ modeCur = "rom" /\ booted = RomCode
     \/ modeCur = "ram" /\ booted = SelfCode
  /\ modeNext = modeCur
  /\ tool \in Tools /\ lpc = "idle" /\ last = "none"

FrameGone ==
  wpc' = "idle" /\ code' = NoCode /\ base' = 0 /\ i' = 0 /\ readback' = NoBuffer

(* hw_code_load_exec(code): the length is checked before anything is done. *)
(* A store the window still owes to an interrupted run is done long before *)
(* a new process gets here.                                                *)
CallLoad(t, c) ==
  /\ lpc = "idle"
  /\ pend = NoStore
  /\ tool' = t
  /\ IF c.len <= CodeSizeLimit
       THEN lpc' = "halt" /\ last' = "running" /\ code' = c
       ELSE last' = "rejected" /\ UNCHANGED <<lpc, code>>
  /\ UNCHANGED <<deviceVars, wpc, base, i, readback, cpuVars>>

(* Mutant: the CPU is not halted before its code is written. *)
Halt_Running ==
  /\ lpc = "halt"
  /\ Call(0, code)
  /\ lpc' = "write"
  /\ UNCHANGED <<cpuVars, tool, last>>

(* Halt the CPU; then hw_code_write(0x0000, code) is called. *)
Halt ==
  /\ lpc = "halt"
  /\ exec' = "halt"
  /\ Call(0, code)
  /\ lpc' = "write"
  /\ UNCHANGED <<modeNext, modeCur, booted, tool, last>>

WriteStep ==
  /\ lpc = "write"
  /\ HostStep
  /\ UNCHANGED <<exec, modeNext, toolVars>>
  /\ CpuEdge

(* hw_code_write returns, or its AssertionError ends the tool. *)
WriteReturns ==
  /\ lpc = "write"
  /\ wpc \in {"done", "failed"}
  /\ IF wpc = "done"
       THEN /\ wpc' = "idle" /\ lpc' = "mode"
            /\ UNCHANGED <<code, base, i, readback, last>>
       ELSE FrameGone /\ lpc' = "idle" /\ last' = "failed"
  /\ UNCHANGED <<deviceVars, cpuVars, tool>>

(* Mutant: the wrong value of CODE_LOCATION. *)
SetMode_Rom ==
  /\ lpc = "mode"
  /\ modeNext' = "rom"
  /\ lpc' = "release"
  /\ UNCHANGED <<hwVars, exec, modeCur, booted, tool, last>>

(* Configure CPU to boot from CODE RAM. *)
SetMode ==
  /\ lpc = "mode"
  /\ modeNext' = "ram"
  /\ lpc' = "release"
  /\ UNCHANGED <<hwVars, exec, modeCur, booted, tool, last>>

(* Release the CPU from reset; load_fw returns, bug_demo goes on. *)
Release ==
  /\ lpc = "release"
  /\ exec' = "run"
  /\ FrameGone
  /\ UNCHANGED deviceVars
  /\ CpuEdge
  /\ IF tool = "load_fw" THEN lpc' = "idle" /\ last' = "returned"
                         ELSE lpc' = "demoMode" /\ UNCHANGED last
  /\ UNCHANGED <<modeNext, tool>>

(* bug_demo: configure CPU to boot from CODE ROM ... *)
DemoMode ==
  /\ lpc = "demoMode"
  /\ modeNext' = "rom"
  /\ lpc' = "demoReset"
  /\ UNCHANGED <<hwVars, exec, modeCur, booted, tool, last>>

(* ... and "reset the CPU": the value written, 2, is the HALT bit. *)
DemoReset ==
  /\ lpc = "demoReset"
  /\ exec' = "halt"
  /\ lpc' = "idle"
  /\ last' = "returned"
  /\ UNCHANGED <<hwVars, modeNext, modeCur, booted, tool>>

(* Ctrl-C: the process is gone, the device keeps its state. *)
Interrupt ==
  /\ lpc # "idle"
  /\ FrameGone
  /\ lpc' = "idle"
  /\ last' = "interrupted"
  /\ UNCHANGED <<deviceVars, cpuVars, tool>>

DeviceStep == DeviceStore /\ UNCHANGED <<cpuVars, toolVars>>

-----------------------------------------------------------------------------
(* The 8051, when it runs anything but the infinite loop of bug_demo. *)
CpuActive == ~InReset /\ booted # Park

CpuStoresCode ==
  /\ CpuActive
  /\ \E a \in CpuAddr, w \in CpuWord : ram' = [ram EXCEPT ![a] = w]
  /\ UNCHANGED <<addrReg, pend, rdData, wen, access, frameVars, cpuVars, toolVars>>

CpuSetsMode ==
  /\ CpuActive
  /\ modeNext' \in {"rom", "ram"}
  /\ UNCHANGED <<hwVars, exec, modeCur, booted, toolVars>>

CpuResets ==
  /\ CpuActive
  /\ modeCur' = modeNext
  /\ booted' = IF modeNext = "rom" THEN RomCode ELSE SelfCode
  /\ UNCHANGED <<hwVars, exec, modeNext, toolVars>>

CpuStep == CpuStoresCode \/ CpuSetsMode \/ CpuResets

ToolStep ==
  \/ Halt \/ WriteStep \/ WriteReturns \/ SetMode \/ Release
  \/ DemoMode \/ DemoReset

Next ==
  \/ \E c \in Images : CallLoad("load_fw", c)
  \/ CallLoad("bug_demo", Park)
  \/ ToolStep
  \/ Interrupt
  \/ DeviceStep
  \/ CpuStep

Spec == Init /\ [][Next]_vars

(* A tool that runs takes its next step; the window stores what it owes.   *)
(* Nobody has to start a tool, and nobody has to interrupt one.            *)
Fairness == WF_vars(ToolStep) /\ WF_vars(DeviceStep)
FairSpec == Spec /\ Fairness

-----------------------------------------------------------------------------
(* Every variable has its type: the state hw_code_write and the tools can  *)
(* be in.                                                                  *)
WordOrNone == Word \cup {None}

TypeOK ==
  /\ ram \in [RamAddr -> Word]
  /\ addrReg \in 0 .. AddrRegSize - 1
  /\ pend \in [lo : WordOrNone, hi : WordOrNone]
  /\ rdData \in [bank0 : Word, bank1 : Word, bank2 : Word, bank3 : Word]
  /\ wen \in BOOLEAN
  /\ access \in {"off", "write", "read"}
  /\ wpc \in PcValues
  /\ code \in Loadable \cup {NoCode}
  /\ base = 0
  /\ i \in Nat
  /\ readback = NoBuffer \/ readback \in [0 .. code.len - 1 -> Word]
  /\ exec \in {"run", "halt"}
  /\ modeNext \in {"rom", "ram"}
  /\ modeCur \in {"rom", "ram"}
  /\ booted \in Loadable \cup {RomCode, SelfCode, Corrupt}
  /\ tool \in Tools
  /\ lpc \in Phases
  /\ last \in Endings

(* From the halt to the release the 8051 is in reset, whatever hw_code_write *)
(* does to CODE_ACCESS in between (turning it off releases the 8051 too):   *)
(* nothing executes, or writes, CODE RAM under the loader's hands.          *)
HeldWhileLoading == lpc \in {"write", "mode", "release"} => InReset

(* The 8051 never runs while the host's window onto CODE RAM is open or     *)
(* still owes a store, not even when an earlier tool was interrupted with   *)
(* the window open: that tool left the CPU halted, and only a complete      *)
(* hw_code_load_exec releases it.                                           *)
WindowClosedWhileRunning ==
  ~InReset => ~wen /\ access = "off" /\ pend = NoStore

(* The readback of a generation-2 chip compares equal: all the words were   *)
(* stored where the code of that length expects them, reading did not       *)
(* disturb them, and the loop read every one of them.                       *)
ReadbackMatches == wpc # "failed"

(* The host never starts the 8051 on a CODE RAM that does not hold the      *)
(* whole image, in any mix of interrupted and repeated loads, images of     *)
(* any length and code on the 8051 that writes CODE RAM while it runs.      *)
NoCorruptBoot == booted # Corrupt

(* Loading implements the abstract loader: the 8051 leaves reset only onto  *)
(* a complete image; everything else hw_code_write does is invisible.       *)
Abstract == INSTANCE LoadSpec WITH
  Loadable <- Loadable,
  OwnCode  <- {RomCode, SelfCode},
  cpu      <- IF InReset THEN "reset" ELSE "running",
  booted   <- booted
ImplementsLoadSpec == Abstract!Spec

(* Every polling loop ends: a tool that has started ends, by itself or by   *)
(* an interrupt, and never waits for an address that will not move.         *)
ToolEnds == (lpc # "idle") ~> (lpc = "idle")

(* bug_demo.py:78 and :83, "Reload firmware from flash." and "Reset the     *)
(* CPU.": once the demo has returned, the 8051 executes its boot ROM.       *)
DemoReloads ==
  (tool = "bug_demo" /\ last = "returned") ~> (~InReset /\ modeCur = "rom")

=============================================================================
