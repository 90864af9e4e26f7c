----------------------------- MODULE FwLoaderInv -----------------------------
(***************************************************************************)
(* The inductive invariant of FwLoader: what holds of the window, the CODE *)
(* RAM and the two loops of hw_code_write between any two steps, for every *)
(* image, every interrupt and everything the 8051 may do.                  *)
(***************************************************************************)
EXTENDS FwLoader

(* The words that the write loop has stored when its counter is n: those   *)
(* below n, and in generation 2 also the upper bank of the first pass.     *)
Written(n, k) ==
  k < n \/ (Gen = 2 /\ n < 2*Q /\ 2*Q <= k /\ k < 2*Q + n)

(* The words that the read loop has fetched when its counter is n: four    *)
(* quarter banks in the first pass, two in the second.                     *)
Fetched(n, k) ==
  \/ k < n
  \/ n < Q /\ \/ Q <= k /\ k < Q + n
              \/ 2*Q <= k /\ k < 2*Q + n
              \/ 3*Q <= k /\ k < 3*Q + n
  \/ 4*Q <= n /\ 5*Q <= k /\ k < Q + n

WriteCounter ==
  IF Gen = 1 THEN i \in 0 .. code.len
             ELSE i \in 0 .. 2*Q - 1 \/ i \in 4*Q .. 6*Q - 1 \/ i = 8*Q
ReadCounter == i \in 0 .. Q - 1 \/ i \in 4*Q .. 5*Q - 1 \/ i = 8*Q

WritePart  == WritePhases \cup {"rdEnable"}
ReadPart   == VerifyPhases \cup {"assert", "disAccess", "failed"}
AfterWrite == ReadPart \cup {"rdEnable", "disable", "done"}

(* Where the tool is, where hw_code_write is and who holds the 8051. *)
PhaseInv ==
  /\ lpc = "write" <=> wpc # "idle"
  /\ lpc \in {"halt", "write", "mode", "release"} => code \in Loadable
  /\ lpc \notin {"write", "mode", "release"} => readback = NoBuffer
  /\ lpc \in {"write", "mode", "release"} => exec = "halt"
  /\ lpc = "release" => modeNext = "ram"
  /\ Gen = 1 => wpc \notin ReadPart \cup {"access", "rdEnable"}

(* How far the window is open.  An interrupted tool may leave it open in   *)
(* any way, but never with the 8051 released.                              *)
WindowInv ==
  /\ Gen = 1 => access = "off"
  /\ exec = "run" => ~wen /\ access = "off"
  /\ wpc \in {"access"} \cup WritePart \cup ReadPart \cup {"disable"} => wen
  /\ wpc \in WritePart /\ Gen = 2 => access = "write"
  /\ wpc \in ReadPart => access = "read"
  /\ wpc \in {"disable", "done"} => access = "off"
  /\ wpc = "done" \/ lpc \in {"mode", "release"} => ~wen /\ access = "off"

(* A store is owed only while hw_code_write polls for it, or after an      *)
(* interrupt.                                                              *)
PendInv ==
  /\ exec = "run" => pend = NoStore
  /\ lpc # "idle" /\ wpc \notin {"wait", "rdWait"} => pend = NoStore

(* The write loop: everything up to the counter is in place, and once the  *)
(* polled store is done, the words at the counter are too.                 *)
WriteInv ==
  /\ wpc \in {"enable", "access"} => i = 0
  /\ wpc \in WritePhases =>
       /\ WriteCounter
       /\ \A k \in 0 .. code.len - 1 : Written(i, k) => ram[k] = code.word[k]
  /\ wpc \in {"data", "wait", "rdTrig", "rdWait"} => i < code.len
  /\ wpc \in {"data", "rdTrig"} => addrReg = Masked(i)
  /\ wpc = "wait" =>
       \/ pend = DataLanes /\ addrReg = Masked(i)
       \/ /\ pend = NoStore
          /\ ram[i] = code.word[i]
          /\ Gen = 2 /\ i + 2*Q < code.len => ram[i + 2*Q] = code.word[i + 2*Q]
  /\ wpc \in AfterWrite \/ lpc \in {"mode", "release"} => Holds(code)

(* The read loop: everything it has fetched equals the image. *)
ReadInv ==
  /\ wpc \in VerifyPhases =>
       /\ ReadCounter
       /\ readback \in [0 .. code.len - 1 -> Word]
       /\ \A k \in 0 .. code.len - 1 : Fetched(i, k) => readback[k] = code.word[k]
  /\ wpc = "rdWait" =>
       \/ pend = [lo |-> Zero, hi |-> Zero] /\ addrReg = Masked(i)
       \/ /\ pend = NoStore
          /\ rdData.bank0 = code.word[i]
          /\ i + Q < code.len => rdData.bank1 = code.word[i + Q]
          /\ i + 2*Q < code.len => rdData.bank2 = code.word[i + 2*Q]
          /\ i + 3*Q < code.len => rdData.bank3 = code.word[i + 3*Q]
  /\ wpc = "assert" => readback = code.word
  /\ wpc # "failed"

LoaderInv ==
  /\ TypeOK /\ PhaseInv /\ WindowInv /\ PendInv /\ WriteInv /\ ReadInv
  /\ booted # Corrupt
=============================================================================
