----------------------------- MODULE MmioProofs -----------------------------
(***************************************************************************)
(* Proofs about MmioWindow, for both generations, every size of the MMIO   *)
(* space, every set of byte values and every set of requests.              *)
(***************************************************************************)
EXTENDS MmioWindow, TLAPS

USE SizeAssumption, ByteAssumption

-----------------------------------------------------------------------------
(* The bytes of an access are at different addresses, also where it wraps. *)
LEMMA AddressesDiffer ==
  ASSUME NEW o \in Requests, NEW i \in 0 .. o.width - 1
  PROVE  /\ ByteAt(o, i) \in RegAddr
         /\ \A j \in 0 .. o.width - 1 : j # i => ByteAt(o, j) # ByteAt(o, i)
<1>1. o.addr \in 0 .. Size - 1 /\ o.width \in 1 .. Size
  BY RequestAssumption
<1> QED
  BY <1>1 DEF ByteAt, RegAddr

(* The bytes read so far are a value of fewer bytes than the access has.   *)
LEMMA GotType ==
  ASSUME NEW n \in Nat, NEW m \in 0 .. n, NEW g \in [0 .. m - 1 -> Byte]
  PROVE  g \in UNION {[0 .. i - 1 -> Byte] : i \in 0 .. n}
<1> DEFINE F(i) == [0 .. i - 1 -> Byte]
<1>1. g \in F(m)
  OBVIOUS
<1> HIDE DEF F
<1>2. g \in UNION {F(i) : i \in 0 .. n}
  BY <1>1
<1> QED
  BY <1>2 DEF F

(* What a call in progress is. *)
LEMMA CallIsRequest ==
  ASSUME MmioInv, pc # "idle"
  PROVE  /\ op \in Requests /\ op.kind \in {"read", "write"}
         /\ op.addr \in RegAddr /\ op.width \in 1 .. Size
         /\ op.value \in [0 .. op.width - 1 -> Byte]
         /\ op.confirm \in BOOLEAN /\ (op.kind = "read" => ~op.confirm)
<1>1. op \in Requests
  BY DEF MmioInv, CallInv, TypeOK
<1> QED
  BY <1>1, RequestAssumption DEF RegAddr

(* No request looks like NoOp. *)
LEMMA RequestIsNotNoOp ==
  ASSUME NEW o \in Requests
  PROVE  o # NoOp
  BY RequestAssumption DEF NoOp

(* The history during a call: it only grows, and holds the new registers.  *)
LEMMA Observed ==
  ASSUME MmioInv, Observe, op' = op, pc # "idle"
  PROVE  /\ DOMAIN seen' = 0 .. op.width - 1
         /\ \A j \in 0 .. op.width - 1 : seen[j] \subseteq seen'[j]
         /\ \A j \in 0 .. op.width - 1 : regs'[ByteAt(op, j)] \in seen'[j]
<1>1. seen' = [j \in 0 .. op.width - 1 |-> {regs'[ByteAt(op, j)]} \cup seen[j]]
  <2>1. \A j : ByteAt(op', j) = ByteAt(op, j)
    BY DEF ByteAt
  <2> QED
    BY <2>1 DEF Observe
<1> QED
  BY <1>1

(* A step that moves neither the registers nor the call's own bytes keeps  *)
(* what the history and the parked 8051 say of the bytes before k.         *)
LEMMA HistoryKept ==
  ASSUME MmioInv, Observe, UNCHANGED <<regs, op, k, got, checking>>, pc # "idle"
  PROVE  /\ DOMAIN seen' = 0 .. op.width - 1
         /\ \A j \in 0 .. op.width - 1 : regs[ByteAt(op, j)] \in seen'[j]
         /\ Reading => \A j \in 0 .. k - 1 : got[j] \in seen'[j]
<1>1. k \in 0 .. op.width
  BY DEF MmioInv, TypeOK
<1>2. op.width \in Nat
  BY CallIsRequest
<1> QED
  BY <1>1, <1>2, Observed DEF MmioInv, SeenInv

-----------------------------------------------------------------------------
LEMMA InitMmioInv == Init => MmioInv
<1> SUFFICES ASSUME Init PROVE MmioInv
  OBVIOUS
<1>1. op.width = 0 /\ op.kind = "none" /\ op = NoOp /\ ~Reading
  BY DEF Init, NoOp, Reading
<1>2. got \in [0 .. -1 -> Byte] /\ DOMAIN seen = 0 .. -1
  BY DEF Init, NoBytes
<1>3. TypeOK
  BY <1>1, <1>2 DEF Init, TypeOK, RegAddr
<1> QED
  BY <1>1, <1>2, <1>3 DEF Init, MmioInv, CallInv, DeviceInv, SeenInv, ParkedInv

(* The call begins, with nothing read and a device that is idle. *)
LEMMA CallKeeps ==
  ASSUME MmioInv, NEW o \in Requests, Call(o)
  PROVE  MmioInv'
<1>1. /\ o.width \in 1 .. Size /\ o.kind \in {"read", "write"} /\ o # NoOp
      /\ o.value \in [0 .. o.width - 1 -> Byte]
  BY RequestAssumption, RequestIsNotNoOp
<1>2. op' = o /\ pc' = "addr" /\ k' = 0 /\ got' = NoBytes /\ checking' = FALSE
      /\ UNCHANGED <<regs, adr, wdata, rdata, job, parked>>
  BY DEF Call, deviceVars
<1>3. got' \in [0 .. -1 -> Byte]
  BY <1>2 DEF NoBytes
<1>4. seen' = [j \in 0 .. o.width - 1 |-> {regs[ByteAt(o, j)]}]
  <2>1. \A j : ByteAt(op', j) = ByteAt(o, j)
    BY <1>2 DEF ByteAt
  <2>2. pc = "idle" /\ Observe
    BY DEF Call
  <2> QED
    BY <1>2, <2>1, <2>2 DEF Observe
<1>5. TypeOK'
  <2>1. got' \in UNION {[0 .. n - 1 -> Byte] : n \in 0 .. o.width}
    BY <1>1, <1>3, GotType
  <2>2. (got \in UNION {[0 .. n - 1 -> Byte] : n \in 0 .. op.width})'
    BY <1>2, <2>1
  <2>3. 0 \in 0 .. op'.width /\ DOMAIN seen' = 0 .. op'.width - 1
    BY <1>1, <1>2, <1>4
  <2> QED
    BY <1>2, <2>2, <2>3 DEF MmioInv, TypeOK
<1>6. CallInv'
  BY <1>1, <1>2, <1>3 DEF CallInv, Reading
<1>7. DeviceInv'
  BY <1>2 DEF MmioInv, DeviceInv, Call
<1>8. SeenInv' /\ ParkedInv'
  <2>1. \A j : ByteAt(op', j) = ByteAt(o, j)
    BY <1>2 DEF ByteAt
  <2> QED
    BY <1>2, <1>4, <2>1 DEF SeenInv, ParkedInv
<1> QED
  BY <1>5, <1>6, <1>7, <1>8 DEF MmioInv

(* Setting the address: the device, idle until then, latches. *)
LEMMA SetAddrKeeps ==
  ASSUME MmioInv, SetAddr
  PROVE  MmioInv'
<1>1. pc = "addr" /\ pc' = (IF Reading THEN "get" ELSE "put") /\ job' = "latch"
      /\ adr' = ByteAt(op, k)
      /\ UNCHANGED <<regs, wdata, rdata, op, k, got, checking, parked>>
  BY DEF SetAddr
<1>2. k \in 0 .. op.width - 1 /\ op \in Requests /\ op # NoOp
  BY <1>1, CallIsRequest, RequestIsNotNoOp DEF MmioInv, CallInv, TypeOK
<1>3. ByteAt(op, k) \in RegAddr
  BY <1>2, AddressesDiffer
<1>4. /\ Reading' = Reading /\ ByteAt(op', k') = ByteAt(op, k)
      /\ \A j : ByteAt(op', j) = ByteAt(op, j)
  BY <1>1 DEF Reading, ByteAt
<1>5. TypeOK'
  BY <1>1, <1>3, HistoryKept DEF MmioInv, TypeOK, SetAddr
<1>6. CallInv'
  BY <1>1, <1>2, <1>4 DEF MmioInv, CallInv
<1>7. DeviceInv'
  BY <1>1, <1>4 DEF DeviceInv
<1>8. SeenInv'
  BY <1>1, <1>4, HistoryKept DEF SeenInv, SetAddr
<1>9. ParkedInv'
  BY <1>1, <1>4 DEF MmioInv, ParkedInv
<1> QED
  BY <1>5, <1>6, <1>7, <1>8, <1>9 DEF MmioInv

(* A byte is taken out of the latch: it is one the register has had.       *)
LEMMA GetByteKeeps ==
  ASSUME MmioInv, GetByte
  PROVE  MmioInv'
<1>1. pc = "get" /\ job = "none" /\ k' = k + 1
      /\ got' = [j \in 0 .. k |-> IF j = k THEN rdata ELSE got[j]]
      /\ pc' = (IF k + 1 < op.width THEN "addr" ELSE "end")
      /\ UNCHANGED <<regs, adr, wdata, rdata, job, op, checking, parked>>
      /\ Observe
  BY DEF GetByte, deviceVars
<1>2. /\ k \in 0 .. op.width - 1 /\ op \in Requests /\ op # NoOp /\ op.width \in 1 .. Size
      /\ Reading /\ got \in [0 .. k - 1 -> Byte] /\ rdata \in Byte
  BY <1>1, CallIsRequest, RequestIsNotNoOp DEF MmioInv, CallInv, TypeOK
<1>4. Reading' = Reading /\ \A j : ByteAt(op', j) = ByteAt(op, j)
  BY <1>1 DEF Reading, ByteAt
<1>5. got' \in [0 .. k' - 1 -> Byte]
  BY <1>1, <1>2
<1>6. /\ DOMAIN seen' = 0 .. op.width - 1
      /\ \A j \in 0 .. op.width - 1 : seen[j] \subseteq seen'[j]
      /\ \A j \in 0 .. op.width - 1 : regs[ByteAt(op, j)] \in seen'[j]
  BY <1>1, Observed
<1>7. TypeOK'
  <2>1. got' \in UNION {[0 .. n - 1 -> Byte] : n \in 0 .. op.width}
    <3>1. k + 1 \in 0 .. op.width /\ op.width \in Nat
      BY <1>2
    <3>2. got' \in [0 .. (k + 1) - 1 -> Byte]
      BY <1>1, <1>5
    <3> QED
      BY <3>1, <3>2, GotType
  <2> QED
    BY <1>1, <1>2, <1>6, <2>1 DEF MmioInv, TypeOK
<1>8. CallInv'
  BY <1>1, <1>2, <1>4, <1>5 DEF MmioInv, CallInv
<1>9. DeviceInv'
  BY <1>1 DEF DeviceInv
<1>10. SeenInv'
  <2>1. rdata \in seen[k] /\ \A j \in 0 .. k - 1 : got[j] \in seen[j]
    BY <1>1, <1>2 DEF MmioInv, SeenInv
  <2>2. \A j \in 0 .. k : got'[j] \in seen'[j]
    BY <1>1, <1>2, <1>6, <2>1
  <2>3. k' - 1 = k
    BY <1>1, <1>2
  <2> QED
    BY <1>1, <1>4, <1>6, <2>2, <2>3 DEF SeenInv
<1>11. ParkedInv'
  <2>1. SUFFICES ASSUME parked
                 PROVE  \A j \in 0 .. k' - 1 : regs[ByteAt(op, j)] = got'[j]
    BY <1>1, <1>2, <1>4 DEF ParkedInv
  <2>2. rdata = regs[ByteAt(op, k)] /\ \A j \in 0 .. k - 1 : regs[ByteAt(op, j)] = got[j]
    BY <1>1, <1>2, <2>1 DEF MmioInv, ParkedInv
  <2> QED
    BY <1>1, <1>2, <2>2
<1> QED
  BY <1>7, <1>8, <1>9, <1>10, <1>11 DEF MmioInv

(* A byte is handed to the device, at the address that was set for it.     *)
LEMMA PutByteKeeps ==
  ASSUME MmioInv, PutByte
  PROVE  MmioInv'
<1>1. pc = "put" /\ job = "none" /\ pc' = "putWait" /\ job' = "store" /\ wdata' = op.value[k]
      /\ UNCHANGED <<regs, adr, rdata, op, k, got, checking, parked>>
  BY DEF PutByte
<1>2. /\ k \in 0 .. op.width - 1 /\ op # NoOp
      /\ op.value \in [0 .. op.width - 1 -> Byte]
  BY <1>1, CallIsRequest, RequestIsNotNoOp DEF MmioInv, CallInv, TypeOK
<1>4. Reading' = Reading /\ \A j : ByteAt(op', j) = ByteAt(op, j)
  BY <1>1 DEF Reading, ByteAt
<1>5. TypeOK'
  BY <1>1, <1>2, HistoryKept DEF MmioInv, TypeOK, PutByte
<1>6. CallInv'
  BY <1>1, <1>2, <1>4 DEF MmioInv, CallInv
<1>7. DeviceInv'
  BY <1>1, <1>4 DEF MmioInv, DeviceInv
<1>8. SeenInv'
  BY <1>1, <1>4, HistoryKept DEF SeenInv, PutByte
<1>9. ParkedInv'
  BY <1>1, <1>4 DEF MmioInv, ParkedInv
<1> QED
  BY <1>5, <1>6, <1>7, <1>8, <1>9 DEF MmioInv

(* The byte is stored: on to the next. *)
LEMMA PutDoneKeeps ==
  ASSUME MmioInv, PutDone
  PROVE  MmioInv'
<1>1. pc = "putWait" /\ job = "none" /\ k' = k + 1
      /\ pc' = (IF k + 1 < op.width THEN "addr" ELSE "end")
      /\ UNCHANGED <<regs, adr, wdata, rdata, job, op, got, checking, parked>>
      /\ Observe
  BY DEF PutDone, deviceVars
<1>2. /\ k \in 0 .. op.width - 1 /\ op \in Requests /\ op # NoOp /\ op.width \in 1 .. Size
      /\ ~Reading /\ got \in [0 .. -1 -> Byte]
  BY <1>1, CallIsRequest, RequestIsNotNoOp DEF MmioInv, CallInv, TypeOK
<1>4. Reading' = Reading /\ \A j : ByteAt(op', j) = ByteAt(op, j)
  BY <1>1 DEF Reading, ByteAt
<1>6. /\ DOMAIN seen' = 0 .. op.width - 1
      /\ \A j \in 0 .. op.width - 1 : regs[ByteAt(op, j)] \in seen'[j]
  BY <1>1, Observed
<1>7. TypeOK'
  <2>1. got' \in UNION {[0 .. n - 1 -> Byte] : n \in 0 .. op.width}
    BY <1>1, <1>2, GotType
  <2> QED
    BY <1>1, <1>2, <1>6, <2>1 DEF MmioInv, TypeOK
<1>8. CallInv'
  BY <1>1, <1>2, <1>4 DEF MmioInv, CallInv
<1>9. DeviceInv'
  BY <1>1 DEF DeviceInv
<1>10. SeenInv'
  BY <1>1, <1>2, <1>4, <1>6 DEF SeenInv
<1>11. ParkedInv'
  <2>1. SUFFICES ASSUME parked
                 PROVE  \A j \in 0 .. k' - 1 : regs[ByteAt(op, j)] = op.value[j]
    BY <1>1, <1>2, <1>4 DEF ParkedInv
  <2>2. regs[ByteAt(op, k)] = op.value[k]
        /\ \A j \in 0 .. k - 1 : regs[ByteAt(op, j)] = op.value[j]
    BY <1>1, <1>2, <2>1 DEF MmioInv, ParkedInv
  <2> QED
    BY <1>1, <1>2, <2>2
<1> QED
  BY <1>7, <1>8, <1>9, <1>10, <1>11 DEF MmioInv

(* Reading back starts over, with no byte read. *)
LEMMA ConfirmKeeps ==
  ASSUME MmioInv, Confirm
  PROVE  MmioInv'
<1>1. pc = "end" /\ op.confirm /\ checking' = TRUE /\ k' = 0 /\ got' = NoBytes /\ pc' = "addr"
      /\ UNCHANGED <<regs, adr, wdata, rdata, job, op, parked>>
      /\ Observe
  BY DEF Confirm, deviceVars
<1>2. op \in Requests /\ op # NoOp /\ op.width \in 1 .. Size
  BY <1>1, CallIsRequest, RequestIsNotNoOp
<1>3. got' \in [0 .. 0 - 1 -> Byte] /\ 0 \in 0 .. op.width
  BY <1>1, <1>2 DEF NoBytes
<1>4. \A j : ByteAt(op', j) = ByteAt(op, j)
  BY <1>1 DEF ByteAt
<1>6. /\ DOMAIN seen' = 0 .. op.width - 1
      /\ \A j \in 0 .. op.width - 1 : regs[ByteAt(op, j)] \in seen'[j]
  BY <1>1, Observed
<1>7. TypeOK'
  <2>1. got' \in UNION {[0 .. n - 1 -> Byte] : n \in 0 .. op.width}
    BY <1>2, <1>3, GotType
  <2> QED
    BY <1>1, <1>2, <1>6, <2>1 DEF MmioInv, TypeOK
<1>8. CallInv'
  BY <1>1, <1>2, <1>3 DEF CallInv, Reading
<1>9. DeviceInv'
  BY <1>1 DEF MmioInv, DeviceInv
<1>10. SeenInv' /\ ParkedInv'
  BY <1>1, <1>4, <1>6 DEF SeenInv, ParkedInv
<1> QED
  BY <1>7, <1>8, <1>9, <1>10 DEF MmioInv

LEMMA ReturnKeeps ==
  ASSUME MmioInv, Return
  PROVE  MmioInv'
<1>1. pc = "end" /\ op' = NoOp /\ pc' = "idle" /\ k' = 0 /\ got' = NoBytes /\ checking' = FALSE
      /\ UNCHANGED <<regs, adr, wdata, rdata, job, parked>>
      /\ Observe
  BY DEF Return, deviceVars
<1>2. op'.width = 0 /\ op'.kind = "none"
  BY <1>1 DEF NoOp
<1>3. got' \in [0 .. 0 - 1 -> Byte] /\ DOMAIN seen' = 0 .. op'.width - 1
  BY <1>1 DEF NoBytes, Observe
<1>4. TypeOK'
  <2>1. got' \in UNION {[0 .. n - 1 -> Byte] : n \in 0 .. op'.width}
    BY <1>2, <1>3, GotType
  <2>2. (got \in UNION {[0 .. n - 1 -> Byte] : n \in 0 .. op.width})'
    BY <2>1
  <2>3. 0 \in 0 .. op'.width
    BY <1>2
  <2> QED
    BY <1>1, <1>3, <2>2, <2>3 DEF MmioInv, TypeOK
<1>5. CallInv'
  BY <1>1, <1>2, <1>3 DEF CallInv, Reading
<1>6. DeviceInv'
  BY <1>1 DEF MmioInv, DeviceInv
<1>7. SeenInv' /\ ParkedInv'
  BY <1>1, <1>2 DEF SeenInv, ParkedInv, Reading
<1> QED
  BY <1>4, <1>5, <1>6, <1>7 DEF MmioInv

-----------------------------------------------------------------------------
(* The device latches the register at the address that was set. *)
LEMMA LatchKeeps ==
  ASSUME MmioInv, Latch
  PROVE  MmioInv'
<1>1. job = "latch" /\ rdata' = regs[adr] /\ job' = "none"
      /\ UNCHANGED <<regs, adr, wdata, op, pc, k, got, checking, parked>>
      /\ Observe
  BY DEF Latch, callVars
<1>2. pc \in {"get", "put"} /\ adr = ByteAt(op, k)
  BY <1>1 DEF MmioInv, DeviceInv, TypeOK
<1>3. k \in 0 .. op.width - 1 /\ op \in Requests /\ op.width \in 1 .. Size
  BY <1>2, CallIsRequest DEF MmioInv, CallInv, TypeOK
<1>4. Reading' = Reading /\ \A j : ByteAt(op', j) = ByteAt(op, j)
  BY <1>1 DEF Reading, ByteAt
<1>5. TypeOK'
  <2>1. regs[adr] \in Byte
    BY DEF MmioInv, TypeOK
  <2> QED
    BY <1>1, <1>2, <2>1, HistoryKept DEF MmioInv, TypeOK
<1>6. CallInv'
  BY <1>1, <1>4 DEF MmioInv, CallInv
<1>7. DeviceInv'
  BY <1>1, <1>2, <1>4 DEF MmioInv, DeviceInv
<1>8. SeenInv'
  BY <1>1, <1>2, <1>3, <1>4, HistoryKept DEF SeenInv
<1>9. ParkedInv'
  BY <1>1, <1>2, <1>4 DEF MmioInv, ParkedInv
<1> QED
  BY <1>5, <1>6, <1>7, <1>8, <1>9 DEF MmioInv

(* The device stores the byte at k, and so at no byte before it.           *)
LEMMA StoreKeeps ==
  ASSUME MmioInv, Store
  PROVE  MmioInv'
<1>1. job = "store" /\ regs' = [regs EXCEPT ![adr] = wdata] /\ job' = "none"
      /\ UNCHANGED <<adr, wdata, rdata, op, pc, k, got, checking, parked>>
      /\ Observe
  BY DEF Store, callVars
<1>2. pc = "putWait" /\ adr = ByteAt(op, k) /\ wdata = op.value[k]
  BY <1>1 DEF MmioInv, DeviceInv, TypeOK
<1>3. k \in 0 .. op.width - 1 /\ op \in Requests /\ op.width \in 1 .. Size /\ ~Reading
  BY <1>2, CallIsRequest DEF MmioInv, CallInv, TypeOK
<1>4. Reading' = Reading /\ \A j : ByteAt(op', j) = ByteAt(op, j)
  BY <1>1 DEF Reading, ByteAt
<1>5. regs' \in [RegAddr -> Byte]
  BY <1>1 DEF MmioInv, TypeOK
<1>6. /\ DOMAIN seen' = 0 .. op.width - 1
      /\ \A j \in 0 .. op.width - 1 : regs'[ByteAt(op, j)] \in seen'[j]
  BY <1>1, <1>2, Observed
<1>7. TypeOK'
  BY <1>1, <1>5, <1>6 DEF MmioInv, TypeOK
<1>8. CallInv'
  BY <1>1, <1>4 DEF MmioInv, CallInv
<1>9. DeviceInv'
  BY <1>1, <1>2, <1>4 DEF MmioInv, DeviceInv
<1>10. SeenInv'
  BY <1>1, <1>2, <1>3, <1>4, <1>6 DEF SeenInv
<1>11. ParkedInv'
  <2>1. SUFFICES ASSUME parked
                 PROVE  /\ \A j \in 0 .. k - 1 : regs'[ByteAt(op, j)] = op.value[j]
                        /\ regs'[ByteAt(op, k)] = op.value[k]
    BY <1>1, <1>2, <1>3, <1>4 DEF ParkedInv
  <2>2. \A j \in 0 .. k - 1 : regs[ByteAt(op, j)] = op.value[j]
    BY <1>1, <1>2, <1>3, <2>1 DEF MmioInv, ParkedInv
  <2>3. ByteAt(op, k) \in RegAddr
        /\ \A j \in 0 .. k - 1 : ByteAt(op, j) # ByteAt(op, k) /\ ByteAt(op, j) \in RegAddr
    BY <1>3, AddressesDiffer
  <2> QED
    BY <1>1, <1>2, <2>2, <2>3 DEF MmioInv, TypeOK
<1> QED
  BY <1>7, <1>8, <1>9, <1>10, <1>11 DEF MmioInv

(* The 8051, when it is not parked, changes a register: the history sees it. *)
LEMMA CpuKeeps ==
  ASSUME MmioInv, CpuWrites
  PROVE  MmioInv'
<1>1. /\ ~parked /\ regs' \in [RegAddr -> Byte]
      /\ UNCHANGED <<adr, wdata, rdata, job, op, pc, k, got, checking, parked>>
      /\ Observe
  BY DEF CpuWrites, callVars, MmioInv, TypeOK
<1>2. Reading' = Reading /\ \A j : ByteAt(op', j) = ByteAt(op, j)
  BY <1>1 DEF Reading, ByteAt
<1>3. CallInv' /\ DeviceInv' /\ ParkedInv'
  BY <1>1, <1>2 DEF MmioInv, CallInv, DeviceInv, ParkedInv
<1>4. CASE pc = "idle"
  <2>1. op = NoOp /\ op.width = 0 /\ k = 0
    BY <1>4 DEF MmioInv, CallInv, NoOp
  <2>2. DOMAIN seen' = 0 .. op.width - 1
    BY <1>1 DEF Observe
  <2>3. TypeOK'
    BY <1>1, <2>2 DEF MmioInv, TypeOK
  <2>4. SeenInv'
    BY <1>1, <1>4, <2>1 DEF SeenInv
  <2> QED
    BY <1>3, <2>3, <2>4 DEF MmioInv
<1>5. CASE pc # "idle"
  <2>1. /\ DOMAIN seen' = 0 .. op.width - 1
        /\ \A j \in 0 .. op.width - 1 : seen[j] \subseteq seen'[j]
        /\ \A j \in 0 .. op.width - 1 : regs'[ByteAt(op, j)] \in seen'[j]
    BY <1>1, <1>5, Observed
  <2>2. TypeOK'
    BY <1>1, <2>1 DEF MmioInv, TypeOK
  <2>3. k \in 0 .. op.width /\ op.width \in Nat /\ (pc = "get" => k \in 0 .. op.width - 1)
    BY <1>5, CallIsRequest DEF MmioInv, TypeOK, CallInv
  <2>4. SeenInv'
    BY <1>1, <1>2, <2>1, <2>3 DEF MmioInv, SeenInv
  <2> QED
    BY <1>3, <2>2, <2>4 DEF MmioInv
<1> QED
  BY <1>4, <1>5

LEMMA NextMmioInv == MmioInv /\ [Next]_vars => MmioInv'
<1> SUFFICES ASSUME MmioInv, [Next]_vars PROVE MmioInv'
  OBVIOUS
<1>1. CASE UNCHANGED vars
  <2>1. UNCHANGED <<regs, adr, wdata, rdata, job, op, pc, k, got, checking, parked, seen>>
    BY <1>1 DEF vars, deviceVars, callVars
  <2> QED
    BY <2>1 DEF MmioInv, TypeOK, CallInv, DeviceInv, SeenInv, ParkedInv, Reading, ByteAt
<1>2. CASE Next
  BY <1>2, CallKeeps, SetAddrKeeps, GetByteKeeps, PutByteKeeps, PutDoneKeeps, ConfirmKeeps,
     ReturnKeeps, LatchKeeps, StoreKeeps, CpuKeeps DEF Next, HostStep
<1> QED
  BY <1>1, <1>2

-----------------------------------------------------------------------------
(* The inductive invariant of the window holds in every state, whatever    *)
(* the 8051 does meanwhile.                                                *)
THEOREM MmioInvariance == Spec => []MmioInv
  BY InitMmioInv, NextMmioInv, PTL DEF Spec

(* Every variable of the window and of the call keeps its type.            *)
THEOREM MmioTypes == Spec => []TypeOK
<1>1. MmioInv => TypeOK
  BY DEF MmioInv
<1> QED
  BY <1>1, MmioInvariance, PTL

(* The device is idle whenever the host sets an address, although a write  *)
(* does not poll for it: no store goes to another register.                *)
THEOREM NoStoreRedirected == Spec => []IdleAtAddress
<1>1. MmioInv => IdleAtAddress
  BY DEF MmioInv, DeviceInv, IdleAtAddress
<1> QED
  BY <1>1, MmioInvariance, PTL

(* A read returns values that its bytes have had since the call.           *)
THEOREM ReadsRecent == Spec => []ReadIsRecent
<1>1. MmioInv => ReadIsRecent
  BY DEF MmioInv, CallInv, SeenInv, ReadIsRecent
<1> QED
  BY <1>1, MmioInvariance, PTL

(* Beside a parked 8051 nothing is torn: the bytes of a read or a write    *)
(* are those of the register when the call is over.                        *)
THEOREM ReadsWhole == Spec => []WholeValue
<1>1. MmioInv => WholeValue
  <2> SUFFICES ASSUME MmioInv, pc = "end", parked
               PROVE  \A j \in 0 .. op.width - 1 :
                        regs[ByteAt(op, j)] = (IF Reading THEN got ELSE op.value)[j]
    BY DEF WholeValue
  <2>1. k = op.width
    BY DEF MmioInv, CallInv
  <2> QED
    BY <2>1 DEF MmioInv, ParkedInv
<1> QED
  BY <1>1, MmioInvariance, PTL

-----------------------------------------------------------------------------
(* The window implements atomic accesses to single bytes. *)
LEMMA InitRefines == Init => Abstract!Init
  BY DEF Init, Abstract!Init, Latched, Stored, NoBytes, Abstract!NoBytes

(* The host's own steps are invisible, except where a loop begins or ends. *)
LEMMA HostRefines ==
  ASSUME MmioInv, MmioInv', HostStep
  PROVE  [Abstract!Next]_(Abstract!vars)
<1> USE DEF Abstract!vars, Latched, Stored, deviceVars
<1>1. k \in Int /\ op.width \in Int /\ got \in [0 .. (IF Reading THEN k - 1 ELSE -1) -> Byte]
  <2>1. pc # "idle"
    BY DEF HostStep, SetAddr, GetByte, PutByte, PutDone, Confirm, Return
  <2>2. op.width \in Nat
    BY <2>1, CallIsRequest
  <2> QED
    BY <2>2 DEF MmioInv, TypeOK, CallInv
<1>2. CASE SetAddr
  BY <1>2 DEF SetAddr
<1>3. CASE GetByte
  BY <1>3 DEF GetByte
<1>4. CASE PutByte
  BY <1>4 DEF PutByte
<1>5. CASE PutDone
  BY <1>5 DEF PutDone
<1>6. CASE Confirm
  <2>1. op # NoOp /\ op.kind = "write" /\ k = op.width
    BY <1>6, CallIsRequest DEF Confirm, MmioInv, CallInv
  <2>2. Abstract!ReadBack
    BY <1>6, <2>1 DEF Confirm, Abstract!ReadBack, NoBytes, Abstract!NoBytes
  <2> QED
    BY <2>2 DEF Abstract!Next
<1>7. CASE Return
  <2>1. op # NoOp /\ k = op.width
    BY <1>7 DEF Return, MmioInv, CallInv
  <2>2. Abstract!Return
    BY <1>7, <2>1 DEF Return, Abstract!Return, NoBytes, Abstract!NoBytes
  <2> QED
    BY <2>2 DEF Abstract!Next
<1> QED
  BY <1>2, <1>3, <1>4, <1>5, <1>6, <1>7 DEF HostStep

(* The device reads or writes the byte; the latch of a write is invisible. *)
LEMMA DeviceRefines ==
  ASSUME MmioInv, MmioInv', Latch \/ Store
  PROVE  [Abstract!Next]_(Abstract!vars)
<1> USE DEF Abstract!vars, Latched, Stored, callVars
<1>1. /\ pc \in {"get", "put", "putWait"} /\ adr = ByteAt(op, k) /\ k < op.width /\ op # NoOp
      /\ pc = "get" <=> Reading
      /\ job = "store" => pc = "putWait" /\ wdata = op.value[k]
      /\ job = "latch" => pc # "putWait"
  BY DEF Latch, Store, MmioInv, DeviceInv, CallInv, TypeOK
<1>2. CASE Latch /\ pc = "put"
  BY <1>2 DEF Latch
<1>3. CASE Latch /\ pc = "get"
  <2>1. Abstract!ReadByte
    BY <1>1, <1>3 DEF Latch, Abstract!ReadByte, Abstract!Reading, Reading
  <2> QED
    BY <2>1 DEF Abstract!Next
<1>4. CASE Store
  <2>1. Abstract!WriteByte
    BY <1>1, <1>4 DEF Store, Abstract!WriteByte, Abstract!Reading, Reading
  <2> QED
    BY <2>1 DEF Abstract!Next
<1> QED
  BY <1>1, <1>2, <1>3, <1>4 DEF Latch

(* Every behaviour of the window is one of MmioSpec: multi-byte accesses   *)
(* are sequences of atomic byte accesses, and a confirmed write returns    *)
(* only after it has read the value it wrote.                              *)
THEOREM WindowRefinement == Spec => ImplementsMmioSpec
<1>1. MmioInv /\ MmioInv' /\ [Next]_vars => [Abstract!Next]_(Abstract!vars)
  <2> SUFFICES ASSUME MmioInv, MmioInv', [Next]_vars
               PROVE  [Abstract!Next]_(Abstract!vars)
    OBVIOUS
  <2>1. CASE UNCHANGED vars
    BY <2>1 DEF vars, deviceVars, callVars, Abstract!vars, Latched, Stored
  <2>2. ASSUME NEW o \in Requests, Call(o) PROVE Abstract!Begin(o)
    <3>1. op = NoOp /\ pc = "idle" /\ pc' = "addr"
      BY <2>2 DEF Call, MmioInv, CallInv
    <3> QED
      BY <2>2, <3>1 DEF Call, deviceVars, Abstract!Begin, Latched, Stored, NoBytes,
                        Abstract!NoBytes
  <2>3. CASE CpuWrites
    <3>1. Abstract!CpuWrites
      BY <2>3 DEF CpuWrites, callVars, Abstract!CpuWrites, Latched, Stored
    <3> QED
      BY <3>1 DEF Abstract!Next
  <2> QED
    BY <2>1, <2>2, <2>3, HostRefines, DeviceRefines DEF Next, Abstract!Next
<1> QED
  BY <1>1, InitRefines, MmioInvariance, PTL DEF Spec, ImplementsMmioSpec, Abstract!Spec
=============================================================================
