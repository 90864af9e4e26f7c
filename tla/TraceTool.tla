------------------------------ MODULE TraceTool ------------------------------
(***************************************************************************)
(* asmedia-xhc-trace: samples the program counter of a controller, through *)
(* the configuration space or through BAR0, after a reset if it is asked   *)
(* for one.  A run of the tool is a sequence of steps, and any operation on*)
(* a file of sysfs may fail, which ends the tool.  It may also be          *)
(* interrupted between two steps, and be run again.  The device keeps its  *)
(* reset flag, and the system may bind a driver at any time.               *)
(***************************************************************************)
EXTENDS Integers

CONSTANTS Samples,     \* --samples
          Runs         \* bound on the number of runs of the tool

ASSUME TraceAssumption == Samples \in Nat \ {0} /\ Runs \in Nat \ {0}

VARIABLES step,        \* what the tool does next, "off" when it is not running
          arg,         \* [reset, unbind]: its options
          info,        \* [config, mmio]: what device_info_map says of the device
          path,        \* "config" or "bar0", once it is chosen
          taken,       \* samples read
          runs,        \* runs started
          bound,       \* a driver is bound to the device
          held,        \* the reset flag of the device is set
          left         \* a run ended with the flag set and not cleared

toolVars == <<step, arg, path, taken, runs>>
devVars  == <<bound, held, left>>
traceVars == <<toolVars, info, devVars>>

device_info_map ==
    {[config |-> FALSE, mmio |-> FALSE],    \* ASM1042, and unknown devices
     [config |-> TRUE,  mmio |-> TRUE],     \* ASM1042A, ASM1142
     [config |-> FALSE, mmio |-> TRUE]}     \* ASM2142/ASM3142, ASM3242
Options == [reset : BOOLEAN, unbind : BOOLEAN]

TraceInit ==
    /\ step = "off" /\ arg = [reset |-> FALSE, unbind |-> FALSE]
    /\ info \in device_info_map
    /\ path = "config" /\ taken = 0 /\ runs = 0
    /\ bound \in BOOLEAN /\ held = FALSE /\ left = FALSE

(* The tool reads the IDs of the device; one that can be sampled in neither*)
(* way, and IDs that cannot be read, end it.                               *)
StartTrace ==
    /\ step = "off" /\ runs < Runs
    /\ \E a \in Options : arg' = a
    /\ runs' = runs + 1 /\ taken' = 0
    /\ \/ (info.config \/ info.mmio) /\ step' = "driver"
       \/ step' = "off"
    /\ UNCHANGED <<path, info, devVars>>

(* driver/unbind exists only while a driver is bound.  The tool goes on    *)
(* with what it found there: a driver that stays needs the configuration   *)
(* space.                                                                  *)
Proceed(driver_is_bound) ==
    IF driver_is_bound /\ ~info.config
      THEN step' = "off" /\ UNCHANGED path
      ELSE /\ step' = "open"
           /\ path' = IF driver_is_bound \/ ~info.mmio THEN "config" ELSE "bar0"

CheckDriver ==
    /\ step = "driver"
    /\ \/ bound /\ arg.unbind /\ bound' = FALSE /\ Proceed(FALSE)
       \/ ~(bound /\ arg.unbind) /\ Proceed(bound) /\ UNCHANGED bound
    /\ UNCHANGED <<arg, taken, runs, info, held, left>>

(* PciConfig::new or PciBar0::new.                                         *)
OpenDevice ==
    /\ step = "open"
    /\ step' = IF path = "config" /\ arg.reset THEN "set" ELSE "sample"
    /\ UNCHANGED <<arg, path, taken, runs, info, devVars>>

(* Mutant: the flag is only set.                                           *)
SetReset_Only ==
    /\ step = "set"
    /\ held' = TRUE /\ step' = "sample"
    /\ UNCHANGED <<arg, path, taken, runs, info, bound, left>>

SetReset ==
    /\ step = "set"
    /\ held' = TRUE /\ step' = "clear"
    /\ UNCHANGED <<arg, path, taken, runs, info, bound, left>>

ClearReset ==
    /\ step = "clear"
    /\ held' = FALSE /\ left' = FALSE /\ step' = "sample"
    /\ UNCHANGED <<arg, path, taken, runs, info, bound>>

(* Mutant: one sample more.                                                *)
Sample_OneMore ==
    /\ step = "sample"
    /\ IF taken <= Samples
         THEN taken' = taken + 1 /\ UNCHANGED step
         ELSE step' = "off" /\ UNCHANGED taken
    /\ UNCHANGED <<arg, path, runs, info, devVars>>

Sample ==
    /\ step = "sample"
    /\ IF taken < Samples
         THEN taken' = taken + 1 /\ UNCHANGED step
         ELSE step' = "off" /\ UNCHANGED taken
    /\ UNCHANGED <<arg, path, runs, info, devVars>>

(* An operation fails, at any step that has one, or the tool is interrupted*)
(* there: it exits, and a reset flag that is set stays set.  Mapped words  *)
(* of BAR0 are read without an error.                                      *)
Fail ==
    /\ step # "off"
    /\ step' = "off"
    /\ left' = (left \/ step = "clear")
    /\ UNCHANGED <<arg, path, taken, runs, info, bound, held>>

(* The system binds a driver: at boot, by hand, or because one is loaded.  *)
Bind ==
    /\ ~bound /\ bound' = TRUE
    /\ UNCHANGED <<toolVars, info, held, left>>

TraceStep == CheckDriver \/ OpenDevice \/ SetReset \/ ClearReset \/ Sample \/ Fail
TraceNext == StartTrace \/ TraceStep \/ Bind
TraceSpec == TraceInit /\ [][TraceNext]_traceVars
-----------------------------------------------------------------------------
(* The trace leaves the device in reset only when the write that clears the*)
(* flag failed or was never made, and a run that resets the device samples *)
(* it out of reset, whatever an earlier run left behind.                   *)
ResetReleased ==
    /\ held => step = "clear" \/ left
    /\ step = "sample" /\ path = "config" /\ arg.reset => ~held
=============================================================================
