---------------------------- MODULE ConsoleProofs ----------------------------
(***************************************************************************)
(* Proofs about Console, for every length of the line, every depth of the  *)
(* FIFOs, every command table and every alphabet of the terminal.          *)
(***************************************************************************)
EXTENDS Console, Lemmas, FiniteSetTheorems

USE LengthAssumption, FifoAssumption

(* A string in a buffer that ends with a NUL ends inside the buffer, and    *)
(* is made of its characters.                                               *)
LEMMA StringInBuffer ==
  ASSUME NEW buf \in [0 .. MaxCmdLen -> Char], NEW p \in 0 .. MaxCmdLen,
         buf[MaxCmdLen] = NUL
  PROVE  CString(buf, p) \in Seq(Char)
<1> DEFINE T == {e \in p .. MaxCmdLen : buf[e] = NUL}
           IsEnd(e) == /\ e = MaxCmdLen + 1 \/ buf[e] = NUL
                       /\ \A k \in p .. e - 1 : buf[k] # NUL
<1>1. PICK x \in T : \A y \in T : x <= y
  <2>1. T \subseteq Nat /\ MaxCmdLen \in T
    OBVIOUS
  <2> QED
    BY <2>1, LeastNat
<1>2. \A y \in T : ~ (y < x)
  BY <1>1
<1>3. x \in p .. MaxCmdLen + 1 /\ IsEnd(x)
  BY <1>2
<1> DEFINE end == CHOOSE e \in p .. MaxCmdLen + 1 : IsEnd(e)
<1>4. /\ end \in p .. MaxCmdLen + 1 /\ IsEnd(end)
      /\ CString(buf, p) = [k \in 1 .. end - p |-> buf[p + k - 1]]
  BY <1>3, Zenon DEF CString
<1> HIDE DEF end
<1>5. end - p \in Nat /\ \A k \in 1 .. end - p : buf[p + k - 1] \in Char
  BY <1>4
<1> QED
  BY <1>4, <1>5

LEMMA BannerType == Banner \in Seq(Printed)
<1> DEFINE s1 == <<LF, TEXT, LF, TEXT, TEXT>>
           s2 == <<TEXT, TEXT, TEXT, LF>>
<1>1. s1 \in Seq(Printed) /\ s2 \in Seq(Printed)
  BY DEF Printed
<1>2. Banner = s1 \o s2
  BY DEF Banner
<1> HIDE DEF s1, s2
<1> QED
  BY <1>1, <1>2, ConcatProperties

LEMMA NoScanType ==
  /\ NoScan \in [i : 0 .. MaxCmdLen + 1, argv : Seq(0 .. MaxCmdLen), open : 0 .. None]
  /\ Len(NoScan.argv) <= MaxArgs
<1>1. Len(<<>>) = 0 /\ <<>> \in Seq(0 .. MaxCmdLen)
  BY EmptySeq
<1> QED
  BY <1>1 DEF NoScan, None

LEMMA InitConsoleInv == Init => ConsoleInv
<1> SUFFICES ASSUME Init PROVE ConsoleInv
  OBVIOUS
<1>1. TypeOK
  <2>1. rx \in Seq(Char) /\ Len(rx) <= RxDepth /\ args \in Seq(Seq(Char)) /\ Len(args) <= MaxArgs
    BY EmptySeq DEF Init
  <2>2. out \in Seq(Printed) /\ pc \in Pcs /\ cmd_buf \in [0 .. MaxCmdLen -> Char]
    BY BannerType DEF Init, Pcs, Blank, Char
  <2>3. /\ scan \in [i : 0 .. MaxCmdLen + 1, argv : Seq(0 .. MaxCmdLen), open : 0 .. None]
        /\ Len(scan.argv) <= MaxArgs
    BY NoScanType, Zenon DEF Init
  <2>4. tx \in Nat /\ cmd_len \in 0 .. MaxCmdLen /\ modeNext \in {"rom", "ram"}
    BY DEF Init
  <2>5. crSent \in BOOLEAN
    BY Zenon DEF Init
  <2> QED
    BY <2>1, <2>2, <2>3, <2>4, <2>5 DEF TypeOK
<1>2. BufferTail /\ TxNeverOverflows /\ ~crSent
  BY DEF Init, Blank, BufferTail, TxNeverOverflows
<1> QED
  BY <1>1, <1>2 DEF ConsoleInv

(* getchar takes a character that the terminal sent. *)
LEMMA GetcharType ==
  ASSUME TypeOK, NEW c, Getchar(c)
  PROVE  c \in Char /\ rx' \in Seq(Char) /\ Len(rx') <= RxDepth
  BY DEF TypeOK, Getchar

(* The terminal and the UART on their own. *)
LEMMA UartStepInv ==
  ASSUME ConsoleInv, Transmit \/ \E c \in Keys : TerminalSends(c)
  PROVE  ConsoleInv'
<1> USE DEF ConsoleInv, TypeOK, TxNeverOverflows, BufferTail, putVars, lineVars
<1>1. CASE Transmit
  BY <1>1, SMTT(60) DEF Transmit
<1>2. CASE \E c \in Keys : TerminalSends(c)
  BY <1>2 DEF TerminalSends, Char
<1> QED
  BY <1>1, <1>2

(* putchar: what it writes fits. *)
LEMMA PutInv ==
  ASSUME ConsoleInv, PutChar \/ PutCR \/ PutLF
  PROVE  ConsoleInv'
<1> USE DEF ConsoleInv, TypeOK, TxNeverOverflows
<1>1. UNCHANGED <<rx, pc, lineVars, modeNext>> /\ BufferTail'
  BY DEF PutChar, PutCR, PutLF, BufferTail, lineVars
<1>2. out' \in Seq(Printed) /\ crSent' \in BOOLEAN
  <2>1. out # <<>> /\ (out' = Tail(out) \/ out' = out)
    BY DEF PutChar, PutCR, PutLF
  <2>2. Tail(out) \in Seq(Printed)
    BY <2>1, HeadTailProperties, Zenon
  <2> QED
    BY <2>1, <2>2, Zenon DEF PutChar, PutCR, PutLF
<1>3. tx' \in 0 .. TxDepth /\ (crSent' => out' # <<>> /\ Head(out') = LF /\ tx' < TxDepth)
  BY SMTT(60) DEF PutChar, PutCR, PutLF, WriteTHR, TxSpace
<1> QED
  BY <1>1, <1>2, <1>3 DEF lineVars

(* What a key that was read leaves to show. *)
LEMMA AfterGetchar ==
  ASSUME ConsoleInv, NEW c, Getchar(c),
         out' \in Seq(Printed), pc' \in Pcs,
         cmd_buf' \in [0 .. MaxCmdLen -> Char], cmd_len' \in 0 .. MaxCmdLen, BufferTail',
         UNCHANGED <<scan, args>>
  PROVE  ConsoleInv'
<1>1. ~crSent
  BY DEF ConsoleInv, Getchar
<1>2. UNCHANGED <<tx, crSent, modeNext>> /\ rx' \in Seq(Char) /\ Len(rx') <= RxDepth
  BY GetcharType DEF ConsoleInv, Getchar
<1> QED
  BY <1>1, <1>2 DEF ConsoleInv, TypeOK, TxNeverOverflows

LEMMA AfterPlainKey ==
  ASSUME ConsoleInv, NEW c, Getchar(c),
         out' \in Seq(Printed), pc' \in Pcs, UNCHANGED lineVars
  PROVE  ConsoleInv'
<1>1. /\ cmd_buf' \in [0 .. MaxCmdLen -> Char] /\ cmd_len' \in 0 .. MaxCmdLen
      /\ BufferTail' /\ UNCHANGED <<scan, args>>
  BY DEF ConsoleInv, TypeOK, BufferTail, lineVars
<1> QED
  BY <1>1, AfterGetchar

(* The line editor: the buffer stays NUL from the cursor on. *)
LEMMA PromptInv ==
  ASSUME ConsoleInv, Prompt
  PROVE  ConsoleInv'
<1>1. out' \in Seq(Printed) /\ ~crSent
  BY DEF Prompt, Printed, ConsoleInv
<1>2. BufferTail' /\ cmd_buf' \in [0 .. MaxCmdLen -> Char] /\ cmd_len' \in 0 .. MaxCmdLen
  BY DEF Prompt, Blank, BufferTail, Char
<1> QED
  BY <1>1, <1>2 DEF ConsoleInv, TypeOK, TxNeverOverflows, Prompt, uartVars, Pcs

LEMMA EnteredInv ==
  ASSUME ConsoleInv, EnterKey \/ ControlC
  PROVE  ConsoleInv'
<1>1. cmd_buf \in [0 .. MaxCmdLen -> Char] /\ cmd_len \in 0 .. MaxCmdLen /\ BufferTail
  BY DEF ConsoleInv, TypeOK
<1>2. cmd_buf' = [cmd_buf EXCEPT ![cmd_len] = NUL] \/ cmd_buf' = Blank
  BY DEF EnterKey, ControlC, Entered
<1>3. cmd_buf' \in [0 .. MaxCmdLen -> Char] /\ cmd_len' = cmd_len /\ BufferTail'
  BY <1>1, <1>2 DEF EnterKey, ControlC, Entered, Blank, BufferTail, Char
<1>4. out' \in Seq(Printed) /\ pc' \in Pcs /\ UNCHANGED <<scan, args>>
  <2>1. <<LF>> \in Seq(Printed) /\ "parse" \in Pcs
    BY DEF Printed, Pcs
  <2> QED
    BY <2>1 DEF EnterKey, ControlC, Entered
<1> QED
  BY <1>1, <1>3, <1>4, AfterGetchar DEF EnterKey, ControlC

LEMMA BackspaceInv ==
  ASSUME ConsoleInv, Backspace
  PROVE  ConsoleInv'
<1>1. cmd_buf \in [0 .. MaxCmdLen -> Char] /\ cmd_len \in 0 .. MaxCmdLen /\ BufferTail
  BY DEF ConsoleInv, TypeOK
<1>2. cmd_buf' \in [0 .. MaxCmdLen -> Char] /\ cmd_len' \in 0 .. MaxCmdLen
  BY <1>1 DEF Backspace, Char
<1>3. BufferTail'
  <2>1. CASE cmd_len = 0
    BY <1>1, <2>1 DEF Backspace, BufferTail
  <2>2. CASE cmd_len > 0
    BY <1>1, <2>2 DEF Backspace, BufferTail
  <2> QED
    BY <1>1, <2>1, <2>2
<1>4. <<BS, SP, BS>> \in Seq(Printed) /\ <<>> \in Seq(Printed)
  BY DEF Printed
<1>5. out' \in Seq(Printed) /\ pc' \in Pcs /\ UNCHANGED <<scan, args>>
  BY <1>4 DEF Backspace, Getchar, Pcs
<1> QED
  BY <1>2, <1>3, <1>5, AfterGetchar DEF Backspace

LEMMA OrdinaryInv ==
  ASSUME ConsoleInv, NEW c \in Char, Ordinary(c)
  PROVE  ConsoleInv'
<1>1. cmd_buf \in [0 .. MaxCmdLen -> Char] /\ cmd_len \in 0 .. MaxCmdLen /\ BufferTail
  BY DEF ConsoleInv, TypeOK
<1>2. cmd_buf' \in [0 .. MaxCmdLen -> Char] /\ cmd_len' \in 0 .. MaxCmdLen
  BY <1>1 DEF Ordinary
<1>3. BufferTail'
  BY <1>1 DEF Ordinary, BufferTail
<1>4. <<c>> \in Seq(Printed) /\ <<>> \in Seq(Printed)
  BY DEF Printed
<1>5. out' \in Seq(Printed) /\ pc' \in Pcs /\ UNCHANGED <<scan, args>>
  BY <1>4 DEF Ordinary, Getchar, Echo, Pcs
<1> QED
  BY <1>2, <1>3, <1>5, AfterGetchar DEF Ordinary

(* Escape sequences and binary mode leave the line alone. *)
LEMMA SwallowInv ==
  ASSUME ConsoleInv, NEW from, NEW set, NEW to \in Pcs, Swallow(from, set, to)
  PROVE  ConsoleInv'
<1>1. PICK c \in set : Getchar(c)
  BY DEF Swallow
<1>2. out' \in Seq(Printed) /\ pc' \in Pcs /\ UNCHANGED lineVars
  BY DEF Swallow, ConsoleInv, TypeOK
<1> QED
  BY <1>1, <1>2, AfterPlainKey

LEMMA RejectInv ==
  ASSUME ConsoleInv, NEW from, NEW known, NEW prefix \in Seq(Printed),
         Reject(from, known, prefix)
  PROVE  ConsoleInv'
<1>1. PICK c \in Char \ known : Getchar(c) /\ Echo(<<ESC>> \o prefix \o <<c>>)
  BY DEF Reject
<1>2. <<ESC>> \in Seq(Printed) /\ <<c>> \in Seq(Printed)
  BY DEF Printed
<1>3. out' \in Seq(Printed)
  BY <1>1, <1>2, ConcatProperties DEF Echo
<1>4. pc' \in Pcs /\ UNCHANGED lineVars
  BY DEF Reject, Pcs
<1> QED
  BY <1>1, <1>3, <1>4, AfterPlainKey

LEMMA EscapeInv ==
  ASSUME ConsoleInv, EscapeKey \/ Escape \/ BinaryMode
  PROVE  ConsoleInv'
<1>1. CASE EscapeKey
  <2>1. Getchar(ESC) /\ out' \in Seq(Printed) /\ pc' \in Pcs /\ UNCHANGED lineVars
    BY <1>1 DEF EscapeKey, ConsoleInv, TypeOK, Pcs
  <2> QED
    BY <2>1, AfterPlainKey
<1>2. CASE BinaryMode
  <2>1. <<>> \in Seq(Printed) /\ <<TEXT>> \in Seq(Printed)
    BY DEF Printed
  <2>2. PICK c \in Char : Getchar(c) /\ out' \in Seq(Printed) /\ pc' \in Pcs
    BY <1>2, <2>1 DEF BinaryMode, Pcs
  <2>3. UNCHANGED lineVars
    BY <1>2 DEF BinaryMode
  <2> QED
    BY <2>2, <2>3, AfterPlainKey
<1>3. CASE Escape
  <2>1. {"csi", "ss3", "page", "line"} \subseteq Pcs
    BY DEF Pcs
  <2>2. <<>> \in Seq(Printed) /\ <<"[">> \in Seq(Printed) /\ <<"O">> \in Seq(Printed)
    BY DEF Printed
  <2> QED
    BY <1>3, <2>1, <2>2, SwallowInv, RejectInv DEF Escape
<1> QED
  BY <1>1, <1>2, <1>3

(* The scan only turns separators into NULs. *)
LEMMA ScanInv ==
  ASSUME ConsoleInv, ScanByte
  PROVE  ConsoleInv'
<1>1. /\ cmd_buf \in [0 .. MaxCmdLen -> Char] /\ cmd_len \in 0 .. MaxCmdLen /\ BufferTail
      /\ scan \in [i : 0 .. MaxCmdLen + 1, argv : Seq(0 .. MaxCmdLen), open : 0 .. None]
      /\ Len(scan.argv) <= MaxArgs
  BY DEF ConsoleInv, TypeOK
<1>2. scan.i \in 0 .. MaxCmdLen
  BY <1>1 DEF ScanByte, Scanning
<1>3. cmd_buf' \in [0 .. MaxCmdLen -> Char] /\ cmd_len' = cmd_len /\ BufferTail'
  <2>1. cmd_buf' = cmd_buf \/ cmd_buf' = [cmd_buf EXCEPT ![scan.i] = NUL]
    BY DEF ScanByte
  <2>2. cmd_len' = cmd_len /\ NUL \in Char
    BY DEF ScanByte, Char
  <2>3. CASE cmd_buf' = cmd_buf
    BY <1>1, <2>2, <2>3 DEF BufferTail
  <2>4. CASE cmd_buf' = [cmd_buf EXCEPT ![scan.i] = NUL]
    BY <1>1, <1>2, <2>2, <2>4 DEF BufferTail
  <2> QED
    BY <2>1, <2>3, <2>4
<1>4. /\ scan' \in [i : 0 .. MaxCmdLen + 1, argv : Seq(0 .. MaxCmdLen), open : 0 .. None]
      /\ Len(scan'.argv) <= MaxArgs
  <2>1. scan.open # None => /\ Append(scan.argv, scan.open) \in Seq(0 .. MaxCmdLen)
                            /\ Len(Append(scan.argv, scan.open)) = Len(scan.argv) + 1
    BY <1>1, AppendProperties DEF None
  <2>2. \/ /\ scan.open # None
           /\ scan' = [i |-> scan.i + 1, argv |-> Append(scan.argv, scan.open), open |-> None]
        \/ scan' = [scan EXCEPT !.i = @ + 1, !.open = scan.i]
        \/ scan' = [scan EXCEPT !.i = @ + 1]
    BY DEF ScanByte
  <2>3. Len(scan.argv) < MaxArgs
    BY <1>1 DEF ScanByte, Scanning
  <2>4. /\ scan.argv \in Seq(0 .. MaxCmdLen) /\ scan.open \in 0 .. None
        /\ scan = [i |-> scan.i, argv |-> scan.argv, open |-> scan.open]
        /\ Len(scan.argv) \in Nat
    BY <1>1
  <2>5. CASE /\ scan.open # None
             /\ scan' = [i |-> scan.i + 1, argv |-> Append(scan.argv, scan.open), open |-> None]
    BY <1>2, <2>1, <2>3, <2>4, <2>5, SMTT(60) DEF None
  <2>6. CASE scan' = [scan EXCEPT !.i = @ + 1, !.open = scan.i]
    <3>1. scan' = [i |-> scan.i + 1, argv |-> scan.argv, open |-> scan.i]
      BY <2>4, <2>6
    <3> QED
      BY <1>2, <2>3, <2>4, <3>1 DEF None
  <2>7. CASE scan' = [scan EXCEPT !.i = @ + 1]
    <3>1. scan' = [i |-> scan.i + 1, argv |-> scan.argv, open |-> scan.open]
      BY <2>4, <2>7
    <3> QED
      BY <1>2, <2>3, <2>4, <3>1 DEF None
  <2> QED
    BY <2>2, <2>5, <2>6, <2>7
<1>5. UNCHANGED <<rx, tx, out, crSent, pc, args, modeNext>>
  BY DEF ScanByte, uartVars, putVars
<1> QED
  BY <1>3, <1>4, <1>5 DEF ConsoleInv, TypeOK, TxNeverOverflows

(* A handler is given strings, MaxArgs at most, and prints characters. *)
LEMMA CommandInv ==
  ASSUME ConsoleInv, HandleCommand
  PROVE  ConsoleInv'
<1>1. /\ cmd_buf \in [0 .. MaxCmdLen -> Char] /\ cmd_len \in 0 .. MaxCmdLen /\ BufferTail
      /\ scan.argv \in Seq(0 .. MaxCmdLen) /\ Len(scan.argv) <= MaxArgs
  BY DEF ConsoleInv, TypeOK
<1>7. ~crSent
  BY DEF ConsoleInv, HandleCommand
<1>2. args' \in Seq(Seq(Char)) /\ Len(args') <= MaxArgs
  <2>1. \A n \in 1 .. Len(scan.argv) : CString(cmd_buf, scan.argv[n]) \in Seq(Char)
    BY <1>1, StringInBuffer, SMTT(60) DEF BufferTail
  <2>2. args' = [n \in 1 .. Len(scan.argv) |-> CString(cmd_buf, scan.argv[n])]
    BY <1>1 DEF HandleCommand
  <2> QED
    BY <1>1, <2>1, <2>2
<1>3. out' \in Seq(Printed)
  <2> DEFINE h == Handler(args')
  <2>1. h \in {"none", "help", "print", "reset", "bmo", "unknown"}
    BY TableAssumption DEF Handler
  <2>2. out' = Reply(h, args')
    BY DEF HandleCommand
  <2>3. CASE h = "unknown"
    <3>1. args'[1] \in Seq(Printed)
      BY <1>2, <2>3 DEF Handler, Printed
    <3>2. <<TEXT>> \in Seq(Printed) /\ <<LF>> \in Seq(Printed)
      BY DEF Printed
    <3>3. out' = <<TEXT>> \o args'[1] \o <<LF>>
      BY <2>2, <2>3 DEF Reply
    <3> QED
      BY <3>1, <3>2, <3>3, ConcatProperties
  <2>4. CASE h # "unknown"
    <3> HIDE DEF h
    <3>1. /\ <<>> \in Seq(Printed) /\ <<TEXT, LF, TEXT, LF>> \in Seq(Printed)
          /\ <<TEXT, LF>> \in Seq(Printed) /\ <<TEXT, TEXT, LF>> \in Seq(Printed)
          /\ <<TEXT, TEXT, TEXT, LF>> \in Seq(Printed)
      BY DEF Printed
    <3> QED
      BY <2>1, <2>2, <2>4, <3>1 DEF Reply
  <2> QED
    BY <2>3, <2>4
<1>4. pc' \in Pcs
  BY DEF HandleCommand, Pcs
<1>5. /\ scan' \in [i : 0 .. MaxCmdLen + 1, argv : Seq(0 .. MaxCmdLen), open : 0 .. None]
      /\ Len(scan'.argv) <= MaxArgs
  BY DEF HandleCommand, NoScan, None
<1>6. UNCHANGED <<rx, tx, crSent, cmd_buf, cmd_len, modeNext>> /\ BufferTail'
  BY <1>1 DEF HandleCommand, uartVars, BufferTail
<1> QED
  BY <1>1, <1>2, <1>3, <1>4, <1>5, <1>6, <1>7 DEF ConsoleInv, TypeOK, TxNeverOverflows

LEMMA ResetInv ==
  ASSUME ConsoleInv, ResetChip \/ ChipResets
  PROVE  ConsoleInv'
<1>1. CASE ResetChip
  BY <1>1 DEF ResetChip, uartVars, putVars, lineVars, ConsoleInv, TypeOK,
              TxNeverOverflows, BufferTail, Pcs
<1>2. CASE ChipResets
  <2>1. BufferTail' /\ cmd_buf' \in [0 .. MaxCmdLen -> Char]
    BY <1>2 DEF ChipResets, Blank, BufferTail, Char
  <2>2. out' \in Seq(Printed) /\ "prompt" \in Pcs
    BY <1>2, BannerType DEF ChipResets, Pcs
  <2>3. /\ rx' \in Seq(Char) /\ Len(rx') <= RxDepth
        /\ args' \in Seq(Seq(Char)) /\ Len(args') <= MaxArgs
    BY <1>2, EmptySeq DEF ChipResets
  <2>4. /\ scan' \in [i : 0 .. MaxCmdLen + 1, argv : Seq(0 .. MaxCmdLen), open : 0 .. None]
        /\ Len(scan'.argv) <= MaxArgs
    BY <1>2, NoScanType, Zenon DEF ChipResets
  <2>5. TxNeverOverflows' /\ crSent' = FALSE
    BY <1>2 DEF ChipResets, TxNeverOverflows
  <2>6. /\ tx' \in Nat /\ pc' \in Pcs
        /\ cmd_len' \in 0 .. MaxCmdLen /\ modeNext' \in {"rom", "ram"}
    BY <1>2, <2>2 DEF ChipResets
  <2>7. TypeOK'
    BY <2>1, <2>2, <2>3, <2>6, <2>5, <2>4 DEF TypeOK
  <2> QED
    BY <2>1, <2>5, <2>7 DEF ConsoleInv
<1> QED
  BY <1>1, <1>2

-----------------------------------------------------------------------------
(* The invariant holds in every behaviour. *)
THEOREM ConsoleInvariance == Spec => []ConsoleInv
<1>1. ConsoleInv /\ [Next]_vars => ConsoleInv'
  <2> SUFFICES ASSUME ConsoleInv, [Next]_vars
               PROVE  ConsoleInv'
    OBVIOUS
  <2>1. CASE UNCHANGED vars
    BY <2>1 DEF vars, uartVars, putVars, lineVars, ConsoleInv, TypeOK, TxNeverOverflows,
                BufferTail
  <2>2. CASE Next
    BY <2>2, UartStepInv, PutInv, PromptInv, EnteredInv, BackspaceInv,
           OrdinaryInv, EscapeInv, ScanInv, CommandInv, ResetInv
    DEF Next, ConsoleStep
  <2> QED
    BY <2>1, <2>2
<1> QED
  BY <1>1, InitConsoleInv, PTL DEF Spec

(* Every variable has its type, for every size of the console. *)
THEOREM ConsoleTypes == Spec => []TypeOK
<1>1. ConsoleInv => TypeOK
  BY DEF ConsoleInv
<1> QED
  BY <1>1, ConsoleInvariance, PTL

(* putchar never writes into a full FIFO: waiting for two free bytes before *)
(* a '\r' is enough, and waiting for one would not be.                      *)
THEOREM FifoSafe == Spec => []TxNeverOverflows
<1>1. ConsoleInv => TxNeverOverflows
  BY DEF ConsoleInv
<1> QED
  BY <1>1, ConsoleInvariance, PTL

(* parse_cmdline never meets a byte that is not of the current line. *)
THEOREM TailClean == Spec => []BufferTail
<1>1. ConsoleInv => BufferTail
  BY DEF ConsoleInv
<1> QED
  BY <1>1, ConsoleInvariance, PTL

-----------------------------------------------------------------------------
(* The screen: what a byte does to the terminal's line.                    *)
ScreenType == [known : BOOLEAN, cells : Seq(Printed), col : Nat]

LEMMA NewLineType ==
  /\ NewLine \in ScreenType /\ NewLine.col = 0 /\ NewLine.known
  /\ NewLine.cells = <<>> /\ Len(NewLine.cells) = 0
  /\ Garbled \in ScreenType /\ Garbled.col = 0 /\ ~Garbled.known
  /\ Garbled.cells = <<>> /\ Len(Garbled.cells) = 0
  BY EmptySeq DEF NewLine, Garbled, ScreenType

(* A character that is printed where the cursor is, which may be just      *)
(* behind the last cell.                                                   *)
LEMMA PutCell ==
  ASSUME NEW cells \in Seq(Printed), NEW k \in 1 .. Len(cells) + 1, NEW c \in Printed
  PROVE  /\ Put(cells, k, c) \in Seq(Printed)
         /\ Len(Put(cells, k, c)) = IF k > Len(cells) THEN k ELSE Len(cells)
         /\ \A j \in 1 .. Len(Put(cells, k, c)) :
              Put(cells, k, c)[j] = IF j = k THEN c ELSE cells[j]
<1> DEFINE n == IF k > Len(cells) THEN k ELSE Len(cells)
<1>1. n \in Nat /\ Put(cells, k, c) = [j \in 1 .. n |-> IF j = k THEN c ELSE cells[j]]
  BY DEF Put
<1>2. \A j \in 1 .. n : (IF j = k THEN c ELSE cells[j]) \in Printed
  OBVIOUS
<1> HIDE DEF n
<1> QED
  BY <1>1, <1>2 DEF n

LEMMA PrintChar ==
  ASSUME ScreenInv, screen # Garbled, NEW c \in Printed, c \notin {LF, CR, BS},
         screen' = Displayed(c)
  PROVE  /\ ScreenInv' /\ screen'.known /\ screen'.col = screen.col + 1
         /\ screen'.cells = Put(screen.cells, screen.col + 1, c)
<1>1. /\ screen.known /\ screen.cells \in Seq(Printed) /\ screen.col \in 0 .. Len(screen.cells)
      /\ screen = [known |-> screen.known, cells |-> screen.cells, col |-> screen.col]
  BY DEF ScreenInv, ScreenType
<1>2. screen' = [screen EXCEPT !.cells = Put(screen.cells, screen.col + 1, c), !.col = screen.col + 1]
  BY DEF Displayed
<1>3. screen' = [known |-> TRUE, cells |-> Put(screen.cells, screen.col + 1, c),
                 col |-> screen.col + 1]
  BY <1>1, <1>2, Zenon
<1>4. /\ Put(screen.cells, screen.col + 1, c) \in Seq(Printed)
      /\ screen.col + 1 <= Len(Put(screen.cells, screen.col + 1, c))
  <2>1. screen.col + 1 \in 1 .. Len(screen.cells) + 1 /\ Len(screen.cells) \in Nat
    BY <1>1
  <2>2. /\ Put(screen.cells, screen.col + 1, c) \in Seq(Printed)
        /\ Len(Put(screen.cells, screen.col + 1, c)) =
             IF screen.col + 1 > Len(screen.cells) THEN screen.col + 1 ELSE Len(screen.cells)
    BY <1>1, <2>1, PutCell
  <2> QED
    BY <2>1, <2>2
<1> QED
  BY <1>1, <1>3, <1>4 DEF ScreenInv, ScreenType

LEMMA MoveCursor ==
  ASSUME ScreenInv, screen # Garbled, NEW c \in {CR, BS}, screen' = Displayed(c)
  PROVE  /\ ScreenInv' /\ screen'.known /\ screen'.cells = screen.cells
         /\ screen'.col = IF c = CR \/ screen.col = 0 THEN 0 ELSE screen.col - 1
<1>1. /\ screen.known /\ screen.cells \in Seq(Printed) /\ screen.col \in 0 .. Len(screen.cells)
      /\ screen = [known |-> screen.known, cells |-> screen.cells, col |-> screen.col]
  BY DEF ScreenInv, ScreenType
<1>2. CASE c = CR
  <2>1. screen' = [screen EXCEPT !.col = 0]
    BY <1>2 DEF Displayed, LF, CR
  <2> QED
    BY <1>1, <1>2, <2>1 DEF ScreenInv, ScreenType
<1>3. CASE c = BS
  <2>1. screen' = [screen EXCEPT !.col = IF screen.col = 0 THEN 0 ELSE screen.col - 1]
    BY <1>3 DEF Displayed, LF, CR, BS
  <2> DEFINE col == IF screen.col = 0 THEN 0 ELSE screen.col - 1
  <2>4. col \in 0 .. screen.col /\ screen' = [screen EXCEPT !.col = col]
    BY <1>1, <2>1
  <2> HIDE DEF col
  <2>2. /\ col \in 0 .. screen.col
        /\ screen' = [known |-> screen.known, cells |-> screen.cells, col |-> col]
    BY <1>1, <2>4
  <2> USE DEF col
  <2>3. c # CR
    BY <1>3 DEF CR, BS
  <2> QED
    BY <1>1, <2>2, <2>3 DEF ScreenInv, ScreenType
<1> QED
  BY <1>2, <1>3

LEMMA FeedLine ==
  ASSUME ScreenInv, screen # Garbled, screen' = Displayed(LF)
  PROVE  /\ ScreenInv' /\ screen'.known
         /\ screen.col = 0 => screen' = NewLine
<1>1. /\ screen.known /\ screen.cells \in Seq(Printed) /\ screen.col \in 0 .. Len(screen.cells)
      /\ screen = [known |-> screen.known, cells |-> screen.cells, col |-> screen.col]
  BY DEF ScreenInv, ScreenType
<1>2. screen' = [screen EXCEPT !.cells = [k \in 1 .. screen.col |-> SP]]
  BY DEF Displayed
<1>3. screen' = [known |-> TRUE, cells |-> [k \in 1 .. screen.col |-> SP], col |-> screen.col]
  BY <1>1, <1>2
<1>4. /\ [k \in 1 .. screen.col |-> SP] \in Seq(Printed)
      /\ Len([k \in 1 .. screen.col |-> SP]) = screen.col
  BY <1>1 DEF Printed
<1>5. screen.col = 0 => [k \in 1 .. screen.col |-> SP] = <<>>
  BY <1>4
<1>6. ScreenInv' /\ screen'.known
  <2> DEFINE spaces == [k \in 1 .. screen.col |-> SP]
  <2>1. spaces \in Seq(Printed) /\ Len(spaces) = screen.col /\ screen' =
        [known |-> TRUE, cells |-> spaces, col |-> screen.col]
    BY <1>3, <1>4
  <2> HIDE DEF spaces
  <2> QED
    BY <1>1, <2>1 DEF ScreenInv, ScreenType
<1> QED
  BY <1>3, <1>5, <1>6 DEF NewLine

(* A terminal that is not followed stays so. *)
LEMMA StaysGarbled ==
  ASSUME ScreenInv, screen = Garbled, NEW c, screen' = Displayed(c)
  PROVE  ScreenInv' /\ ~screen'.known
  BY NewLineType DEF ScreenInv, Displayed

LEMMA AnyByte ==
  ASSUME ScreenInv, NEW c \in Printed \cup {CR}, screen' = Displayed(c)
  PROVE  ScreenInv' /\ (screen'.known => screen # Garbled)
<1>1. CASE screen = Garbled
  BY <1>1, StaysGarbled
<1>2. CASE screen # Garbled
  BY <1>2, PrintChar, MoveCursor, FeedLine
<1> QED
  BY <1>1, <1>2

(* An echo is shown behind what the line already shows. *)
LEMMA EchoChar ==
  ASSUME ScreenInv, screen # Garbled, NEW c \in Printed, c \notin {LF, CR, BS},
         screen' = Displayed(c), cmd_buf' = cmd_buf,
         NEW n \in Nat, NEW free \in {n + 1, n + 2}, Displays(n, n, free)
  PROVE  /\ screen'.col = n + 1 /\ n + 1 <= Len(screen'.cells)
         /\ \A j \in 1 .. n : screen'.cells[j] = Shown(j)
         /\ screen'.cells[n + 1] = c
         /\ \A j \in n + 2 .. Len(screen'.cells) : screen'.cells[j] = SP
<1>1. /\ screen.col = n /\ n <= Len(screen.cells) /\ screen.cells \in Seq(Printed)
      /\ \A j \in 1 .. n : screen.cells[j] = Shown(j)
      /\ \A j \in free .. Len(screen.cells) : screen.cells[j] = SP
  BY DEF Displays, ScreenInv
<1>2. screen'.col = n + 1 /\ screen'.cells = Put(screen.cells, n + 1, c)
  BY <1>1, PrintChar
<1>3. /\ Len(screen'.cells) = IF n + 1 > Len(screen.cells) THEN n + 1 ELSE Len(screen.cells)
      /\ \A j \in 1 .. Len(screen'.cells) :
           screen'.cells[j] = IF j = n + 1 THEN c ELSE screen.cells[j]
  <2> DEFINE k == n + 1
  <2>1. k \in 1 .. Len(screen.cells) + 1
    BY <1>1
  <2> HIDE DEF k
  <2>4. screen.cells \in Seq(Printed)
    BY <1>1
  <2>2. \A s \in Seq(Printed) : k \in 1 .. Len(s) + 1 =>
          /\ Len(Put(s, k, c)) = IF k > Len(s) THEN k ELSE Len(s)
          /\ \A j \in 1 .. Len(Put(s, k, c)) : Put(s, k, c)[j] = IF j = k THEN c ELSE s[j]
    BY PutCell
  <2>3. screen'.cells = Put(screen.cells, k, c)
    BY <1>2 DEF k
  <2> QED
    BY <2>1, <2>2, <2>3, <2>4 DEF k
<1>4. Len(screen.cells) \in Nat
  BY <1>1
<1> QED
  BY <1>1, <1>2, <1>3, <1>4

(* putchar, while a line is edited: one more byte of the echo is shown.     *)
LEMMA EchoPrinted ==
  ASSUME ConsoleInv, EchoInv, PutChar, screen # Garbled, AtKeys
  PROVE  EchoPending'
<1>1. /\ out # <<>> /\ out' = Tail(out) /\ screen' = Displayed(Head(out))
      /\ cmd_buf' = cmd_buf /\ cmd_len' = cmd_len
  BY DEF PutChar, WriteTHR, lineVars
<1>2. cmd_len \in 0 .. MaxCmdLen /\ out \in Seq(Printed) /\ Head(out) \in Printed
  BY <1>1 DEF ConsoleInv, TypeOK
<1>3. ScreenInv /\ EchoPending /\ Len(screen.cells) \in Nat
  BY DEF EchoInv, ScreenInv
<1>4. \A j : Shown(j)' = Shown(j)
  BY <1>1 DEF Shown
<1>5. CASE out = <<">", SP>> /\ cmd_len = 0 /\ Displays(0, 0, 1)
  <2>1. Head(out) = ">" /\ out' = <<SP>> /\ ">" \notin {LF, CR, BS} /\ Shown(1) = ">"
        /\ Shown(2) = SP /\ SP \notin Control \cup {BS, CR}
    BY <1>1, <1>5 DEF LF, CR, BS, Shown, Control, SP, TAB, NUL
  <2>2. /\ screen'.col = 1 /\ 1 <= Len(screen'.cells) /\ screen'.cells[1] = ">"
        /\ \A j \in 2 .. Len(screen'.cells) : screen'.cells[j] = SP
    BY <1>1, <1>2, <1>3, <1>5, <2>1, EchoChar
  <2>3. Displays(1, 1, 2)'
    BY <1>4, <2>1, <2>2 DEF Displays
  <2>4. Plain' /\ out' = <<Shown(cmd_len + 2)'>>
    BY <1>1, <1>4, <1>5, <2>1 DEF Plain
  <2> QED
    BY <1>1, <1>4, <1>5, <2>3, <2>4 DEF EchoPending
<1>6. CASE out = <<Shown(cmd_len + 2)>> /\ Plain
           /\ Displays(cmd_len + 1, cmd_len + 1, cmd_len + 2)
  <2>1. Head(out) = Shown(cmd_len + 2) /\ out' = <<>> /\ Head(out) \notin {LF, CR, BS}
    BY <1>1, <1>6 DEF Plain, Control
  <2>2. /\ screen'.col = cmd_len + 2 /\ cmd_len + 2 <= Len(screen'.cells)
        /\ \A j \in 1 .. cmd_len + 1 : screen'.cells[j] = Shown(j)
        /\ screen'.cells[cmd_len + 2] = Shown(cmd_len + 2)
        /\ \A j \in cmd_len + 3 .. Len(screen'.cells) : screen'.cells[j] = SP
    <3> DEFINE n == cmd_len + 1
    <3>1. n \in Nat /\ n + 1 = cmd_len + 2 /\ n + 2 = cmd_len + 3 /\ Displays(n, n, n + 1)
      BY <1>2, <1>6
    <3> HIDE DEF n
    <3>2. /\ screen'.col = n + 1 /\ n + 1 <= Len(screen'.cells)
          /\ \A j \in 1 .. n : screen'.cells[j] = Shown(j)
          /\ screen'.cells[n + 1] = Head(out)
          /\ \A j \in n + 2 .. Len(screen'.cells) : screen'.cells[j] = SP
      BY <1>1, <1>2, <1>3, <2>1, <3>1, EchoChar
    <3> QED
      BY <2>1, <3>1, <3>2 DEF n
  <2>3. Displays(cmd_len + 2, cmd_len + 2, cmd_len + 3)'
    BY <1>1, <1>2, <1>4, <2>2 DEF Displays
  <2> QED
    BY <2>1, <2>3 DEF EchoPending
<1>7. CASE out = <<BS, SP, BS>> /\ Displays(cmd_len + 2, cmd_len + 3, cmd_len + 4)
  <2>1. Head(out) = BS /\ out' = <<SP, BS>>
    BY <1>1, <1>7
  <2>2. screen'.cells = screen.cells /\ screen'.col = cmd_len + 2
    <3>1. BS # CR /\ screen.col = cmd_len + 3
      BY <1>7 DEF BS, CR, Displays
    <3> QED
      BY <1>1, <1>2, <1>3, <2>1, <3>1, MoveCursor
  <2>3. Displays(cmd_len + 2, cmd_len + 2, cmd_len + 4)'
    BY <1>1, <1>4, <1>7, <2>2 DEF Displays
  <2> QED
    BY <2>1, <2>3 DEF EchoPending
<1>8. CASE out = <<SP, BS>> /\ Displays(cmd_len + 2, cmd_len + 2, cmd_len + 4)
  <2>1. Head(out) = SP /\ out' = <<BS>> /\ SP \notin {LF, CR, BS}
    BY <1>1, <1>8 DEF SP, LF, CR, BS
  <2>2. /\ screen'.col = cmd_len + 3 /\ cmd_len + 3 <= Len(screen'.cells)
        /\ \A j \in 1 .. cmd_len + 2 : screen'.cells[j] = Shown(j)
        /\ screen'.cells[cmd_len + 3] = SP
        /\ \A j \in cmd_len + 4 .. Len(screen'.cells) : screen'.cells[j] = SP
    <3> DEFINE n == cmd_len + 2
    <3>1. n \in Nat /\ n + 1 = cmd_len + 3 /\ n + 2 = cmd_len + 4 /\ Displays(n, n, n + 2)
      BY <1>2, <1>8
    <3> HIDE DEF n
    <3>2. /\ screen'.col = n + 1 /\ n + 1 <= Len(screen'.cells)
          /\ \A j \in 1 .. n : screen'.cells[j] = Shown(j)
          /\ screen'.cells[n + 1] = Head(out)
          /\ \A j \in n + 2 .. Len(screen'.cells) : screen'.cells[j] = SP
      BY <1>1, <1>2, <1>3, <2>1, <3>1, EchoChar
    <3> QED
      BY <2>1, <3>1, <3>2 DEF n
  <2>3. \A j \in cmd_len + 3 .. Len(screen'.cells) : screen'.cells[j] = SP
    BY <1>2, <2>2
  <2>4. Displays(cmd_len + 2, cmd_len + 3, cmd_len + 3)'
    BY <1>1, <1>2, <1>4, <2>2, <2>3 DEF Displays
  <2> QED
    BY <2>1, <2>4 DEF EchoPending
<1>9. CASE out = <<BS>> /\ Displays(cmd_len + 2, cmd_len + 3, cmd_len + 3)
  <2>1. Head(out) = BS /\ out' = <<>>
    BY <1>1, <1>9
  <2>2. screen'.cells = screen.cells /\ screen'.col = cmd_len + 2
    <3>1. BS # CR /\ screen.col = cmd_len + 3
      BY <1>9 DEF BS, CR, Displays
    <3> QED
      BY <1>1, <1>2, <1>3, <2>1, <3>1, MoveCursor
  <2>3. Displays(cmd_len + 2, cmd_len + 2, cmd_len + 3)'
    BY <1>1, <1>4, <1>9, <2>2 DEF Displays
  <2> QED
    BY <2>1, <2>3 DEF EchoPending
<1> QED
  BY <1>1, <1>3, <1>5, <1>6, <1>7, <1>8, <1>9 DEF EchoPending

LEMMA LastOfTail ==
  ASSUME NEW S, NEW s \in Seq(S), Len(s) > 1
  PROVE  Tail(s) # <<>> /\ Tail(s)[Len(Tail(s))] = s[Len(s)]
<1>1. /\ Len(Tail(s)) = Len(s) - 1
      /\ \A i \in 1 .. Len(Tail(s)) : Tail(s)[i] = s[i + 1]
  BY HeadTailProperties
<1>2. Len(s) \in Nat
  OBVIOUS
<1>3. Len(Tail(s)) \in 1 .. Len(Tail(s)) /\ Len(Tail(s)) + 1 = Len(s)
  BY <1>1, <1>2
<1> QED
  BY <1>1, <1>3

(* No echo that the terminal follows has a line feed in it.                *)
LEMMA EchoHasNoLF ==
  ASSUME EchoPending, out # <<>>
  PROVE  Head(out) # LF
<1>1. LF # BS /\ LF # SP /\ LF # ">" /\ LF \in Control
  BY DEF LF, BS, SP, Control
<1>2. CASE out = <<Shown(cmd_len + 2)>> /\ Plain
  BY <1>1, <1>2 DEF Plain
<1> QED
  BY <1>1, <1>2 DEF EchoPending

(* putchar at any time: an echo is shown, or the end of the output comes    *)
(* nearer, after which the terminal's line is empty.                        *)
LEMMA PutEcho ==
  ASSUME ConsoleInv, EchoInv, PutChar \/ PutCR \/ PutLF
  PROVE  EchoInv'
<1>1. /\ out # <<>> /\ out \in Seq(Printed) /\ Head(out) \in Printed
      /\ UNCHANGED <<pc, cmd_buf, cmd_len>>
      /\ AtKeys' = AtKeys
  BY DEF PutChar, PutCR, PutLF, ConsoleInv, TypeOK, lineVars, AtKeys
<1>2. PICK c \in Printed \cup {CR} : screen' = Displayed(c)
  BY <1>1 DEF PutChar, PutCR, PutLF, WriteTHR, Printed
<1>3. ScreenInv' /\ (screen'.known => screen # Garbled)
  BY <1>2, AnyByte DEF EchoInv
<1>4. SUFFICES ASSUME screen'.known
               PROVE  /\ crSent' => screen'.col = 0
                      /\ AtKeys => EchoPending'
                      /\ ~AtKeys => IF out' = <<>> THEN screen' = NewLine ELSE out'[Len(out')] = LF
  BY <1>1, <1>3 DEF EchoInv
<1>5. screen # Garbled /\ screen.known /\ ScreenInv
  BY <1>3, <1>4 DEF EchoInv, ScreenInv
<1>6. CASE PutChar
  <2>1. ~crSent' /\ Head(out) # LF /\ out' = Tail(out)
    BY <1>6 DEF PutChar, ConsoleInv
  <2>2. ~AtKeys => out' # <<>> /\ out'[Len(out')] = LF
    <3>1. SUFFICES ASSUME ~AtKeys PROVE out' # <<>> /\ out'[Len(out')] = LF
      OBVIOUS
    <3>2. out[Len(out)] = LF
      BY <1>1, <1>5, <3>1 DEF EchoInv
    <3>3. Len(out) # 1 /\ Len(out) \in Nat /\ Len(out) # 0
      BY <1>1, <2>1, <3>2
    <3> QED
      BY <1>1, <2>1, <3>2, <3>3, LastOfTail
  <2> QED
    BY <1>5, <1>6, <2>1, <2>2, EchoPrinted
<1>7. CASE PutCR
  <2>1. out' = out /\ screen' = Displayed(CR) /\ Head(out) = LF
    BY <1>7 DEF PutCR, WriteTHR
  <2>2. screen'.col = 0
    BY <1>5, <2>1, MoveCursor
  <2>3. ~AtKeys
    BY <1>1, <1>5, <2>1, EchoHasNoLF DEF EchoInv
  <2> QED
    BY <1>1, <1>5, <2>1, <2>2, <2>3 DEF EchoInv
<1>8. CASE PutLF
  <2>1. out' = Tail(out) /\ screen' = Displayed(LF) /\ Head(out) = LF /\ crSent /\ ~crSent'
    BY <1>8 DEF PutLF, WriteTHR, ConsoleInv
  <2>2. screen' = NewLine
    BY <1>5, <2>1, FeedLine DEF EchoInv
  <2>3. ~AtKeys
    BY <1>1, <1>5, <2>1, EchoHasNoLF DEF EchoInv
  <2>4. out' # <<>> => out'[Len(out')] = LF
    <3>1. out[Len(out)] = LF
      BY <1>1, <1>5, <2>3 DEF EchoInv
    <3>2. Len(out) \in Nat /\ (Len(out) <= 1 => Tail(out) = <<>>)
      BY <1>1
    <3> QED
      BY <1>1, <2>1, <3>1, <3>2, LastOfTail
  <2> QED
    BY <2>1, <2>2, <2>3, <2>4
<1> QED
  BY <1>6, <1>7, <1>8

(* Steps that leave the screen, the output and the line alone. *)
LEMMA QuietEcho ==
  ASSUME EchoInv, UNCHANGED <<screen, out, crSent, cmd_buf, cmd_len>>, AtKeys' = AtKeys
  PROVE  EchoInv'
<1>1. \A j : Shown(j)' = Shown(j)
  BY DEF Shown
<1>2. EchoPending' = EchoPending
  BY <1>1 DEF EchoPending, Displays, Plain
<1> QED
  BY <1>2 DEF EchoInv, ScreenInv

(* Outside the line editor the screen is empty once everything is printed, *)
(* and every output that begins then ends the line or is not followed.     *)
LEMMA OutputEcho ==
  ASSUME EchoInv, out = <<>>, ~AtKeys, ~AtKeys', ~crSent',
         screen' \in {screen, Garbled},
         screen' = screen => out' = <<>> \/ out'[Len(out')] = LF
  PROVE  EchoInv'
<1>1. ScreenInv'
  BY NewLineType DEF EchoInv, ScreenInv, ScreenType
<1>2. CASE screen' = Garbled
  BY <1>1, <1>2, NewLineType DEF EchoInv
<1>3. CASE screen' = screen
  BY <1>1, <1>3 DEF EchoInv
<1> QED
  BY <1>2, <1>3

(* A new prompt, on an empty line: of a terminal that was not followed, on  *)
(* the line that is followed from here.                                    *)
LEMMA PromptEcho ==
  ASSUME ConsoleInv, EchoInv, Prompt
  PROVE  EchoInv'
<1>1. screen' = NewLine /\ ~crSent'
  BY DEF Prompt, EchoInv, ScreenInv, ConsoleInv, AtKeys
<1>2. out' = <<">", SP>> /\ cmd_len' = 0 /\ AtKeys'
  BY DEF Prompt, AtKeys
<1>3. Displays(0, 0, 1)'
  BY <1>1, NewLineType DEF Displays
<1>4. ScreenInv'
  BY <1>1, NewLineType DEF ScreenInv, ScreenType
<1> QED
  BY <1>1, <1>2, <1>3, <1>4, NewLineType DEF EchoInv, EchoPending

(* A key that is echoed where the line ends, or too many to be echoed.      *)
LEMMA OrdinaryEcho ==
  ASSUME ConsoleInv, EchoInv, NEW c, Ordinary(c)
  PROVE  EchoInv'
<1>1. /\ pc = "line" /\ out = <<>> /\ c \notin {ESC, CR, BS, ETX}
      /\ pc' = pc /\ crSent' = crSent /\ AtKeys /\ AtKeys'
  BY DEF Ordinary, Getchar, AtKeys
<1>2. cmd_len \in 0 .. MaxCmdLen /\ cmd_buf \in [0 .. MaxCmdLen -> Char]
  BY DEF ConsoleInv, TypeOK
<1>3. CASE cmd_len >= MaxCmdLen
  BY <1>1, <1>2, <1>3, QuietEcho DEF Ordinary, Getchar
<1>4. CASE cmd_len < MaxCmdLen
  <2>1. /\ out' = <<c>> /\ cmd_buf' = [cmd_buf EXCEPT ![cmd_len] = c] /\ cmd_len' = cmd_len + 1
        /\ screen' = IF c \in Control \cup {BS, ESC} THEN Garbled ELSE screen
    BY <1>4 DEF Ordinary, Echo, Follow
  <2>2. CASE screen' = Garbled
    BY <1>1, <2>2, NewLineType DEF EchoInv, ScreenInv, ScreenType
  <2>3. CASE screen' # Garbled
    <3>1. screen' = screen /\ c \notin Control \cup {BS, CR}
      BY <1>1, <2>1, <2>3
    <3>2. SUFFICES ASSUME screen.known PROVE EchoPending'
      BY <1>1, <3>1 DEF EchoInv, ScreenInv
    <3>3. Displays(cmd_len + 2, cmd_len + 2, cmd_len + 3)
      BY <1>1, <3>2 DEF EchoInv, EchoPending
    <3>4. /\ \A j \in 1 .. cmd_len + 2 : (Shown(j))' = Shown(j)
          /\ Shown(cmd_len + 2)' = c
      BY <1>2, <2>1 DEF Shown
    <3>5. /\ screen.col = cmd_len + 2 /\ cmd_len + 2 <= Len(screen.cells)
          /\ \A j \in 1 .. cmd_len + 2 : screen.cells[j] = Shown(j)
          /\ \A j \in cmd_len + 3 .. Len(screen.cells) : screen.cells[j] = SP
      BY <3>3 DEF Displays
    <3>6. Displays(cmd_len + 1, cmd_len + 1, cmd_len + 2)'
      <4>1. cmd_len' + 1 = cmd_len + 2 /\ cmd_len' + 2 = cmd_len + 3
        BY <1>2, <2>1
      <4>2. \A j \in 1 .. cmd_len' + 1 : screen'.cells[j] = (Shown(j))'
        BY <3>1, <3>4, <3>5, <4>1
      <4> QED
        BY <3>1, <3>5, <4>1, <4>2 DEF Displays
    <3>7. out' = <<Shown(cmd_len + 2)>>' /\ Plain'
      BY <1>2, <2>1, <3>1, <3>4 DEF Plain
    <3> QED
      BY <2>1, <3>4, <3>6, <3>7 DEF EchoPending
  <2> QED
    BY <2>2, <2>3
<1> QED
  BY <1>2, <1>3, <1>4

(* Backspace takes the last character out of the line; its echo moves back *)
(* over it, blanks it and moves back again.                                *)
LEMMA BackspaceEcho ==
  ASSUME ConsoleInv, EchoInv, Backspace
  PROVE  EchoInv'
<1>1. /\ pc = "line" /\ out = <<>> /\ pc' = pc /\ UNCHANGED <<crSent, screen>>
      /\ AtKeys /\ AtKeys'
  BY DEF Backspace, Getchar, AtKeys
<1>2. cmd_len \in 0 .. MaxCmdLen /\ cmd_buf \in [0 .. MaxCmdLen -> Char]
  BY DEF ConsoleInv, TypeOK
<1>3. CASE cmd_len = 0
  BY <1>1, <1>3, QuietEcho DEF Backspace
<1>4. CASE cmd_len > 0
  <2>1. /\ out' = <<BS, SP, BS>> /\ cmd_len' = cmd_len - 1
        /\ cmd_buf' = [cmd_buf EXCEPT ![cmd_len - 1] = NUL]
    BY <1>4 DEF Backspace
  <2>2. SUFFICES ASSUME screen.known PROVE EchoPending'
    BY <1>1 DEF EchoInv, ScreenInv
  <2>3. Displays(cmd_len + 2, cmd_len + 2, cmd_len + 3)
    BY <1>1, <2>2 DEF EchoInv, EchoPending
  <2>4. /\ screen.col = cmd_len + 2 /\ cmd_len + 2 <= Len(screen.cells)
        /\ \A j \in 1 .. cmd_len + 2 : screen.cells[j] = Shown(j)
        /\ \A j \in cmd_len + 3 .. Len(screen.cells) : screen.cells[j] = SP
    BY <2>3 DEF Displays
  <2>5. \A j \in 1 .. cmd_len + 1 : (Shown(j))' = Shown(j)
    BY <1>2, <1>4, <2>1 DEF Shown
  <2>6. /\ cmd_len' + 2 = cmd_len + 1 /\ cmd_len' + 3 = cmd_len + 2
        /\ cmd_len' + 4 = cmd_len + 3 /\ screen.cells \in Seq(Printed)
    BY <1>2, <1>4, <2>1 DEF EchoInv, ScreenInv
  <2>7. Len(screen.cells) \in Nat
    BY <2>6
  <2>8. \A j \in 1 .. cmd_len' + 2 : screen'.cells[j] = (Shown(j))'
    BY <1>1, <1>2, <2>4, <2>5, <2>6
  <2>9. Displays(cmd_len + 2, cmd_len + 3, cmd_len + 4)'
    BY <1>1, <1>2, <2>4, <2>6, <2>7, <2>8 DEF Displays
  <2> QED
    BY <2>1, <2>9 DEF EchoPending
<1> QED
  BY <1>2, <1>3, <1>4

(* Enter and ^C leave the cursor where the line ends and start a new one.   *)
LEMMA EnteredEcho ==
  ASSUME ConsoleInv, EchoInv, EnterKey \/ ControlC
  PROVE  EchoInv'
<1>1. /\ out = <<>> /\ out' = <<LF>> /\ UNCHANGED <<screen, crSent>> /\ pc' = "parse"
  BY DEF EnterKey, ControlC, Entered, Getchar
<1>2. ~crSent /\ ~AtKeys'
  BY <1>1 DEF ConsoleInv, AtKeys
<1> QED
  BY <1>1, <1>2 DEF EchoInv, ScreenInv

(* Keys of an escape sequence show nothing, or an echo that is not followed.*)
LEMMA SwallowEcho ==
  ASSUME EchoInv, NEW from \in {"line", "esc", "csi", "ss3", "page"}, NEW set,
         NEW to \in {"line", "esc", "csi", "ss3", "page"}, Swallow(from, set, to)
  PROVE  EchoInv'
<1>1. UNCHANGED <<screen, out, crSent, cmd_buf, cmd_len>> /\ AtKeys /\ AtKeys'
  BY DEF Swallow, Getchar, lineVars, AtKeys
<1> QED
  BY <1>1, QuietEcho

LEMMA RejectEcho ==
  ASSUME EchoInv, NEW from \in {"line", "esc", "csi", "ss3", "page"}, NEW known,
         NEW prefix \in Seq(Printed), Reject(from, known, prefix)
  PROVE  EchoInv'
<1>1. PICK c \in Char \ known : Echo(<<ESC>> \o prefix \o <<c>>)
  BY DEF Reject
<1> DEFINE s == <<ESC>> \o prefix \o <<c>>
<1>2. <<ESC>> \in Seq(Printed) /\ <<c>> \in Seq(Printed)
  BY DEF Printed
<1>3. 1 \in DOMAIN s /\ s[1] = ESC
  <2>1. /\ <<ESC>> \o prefix \in Seq(Printed) /\ (<<ESC>> \o prefix)[1] = ESC
        /\ Len(<<ESC>> \o prefix) >= 1
    BY <1>2, ConcatProperties
  <2> DEFINE w == <<ESC>> \o prefix
  <2> HIDE DEF w
  <2>2. w \in Seq(Printed) /\ w[1] = ESC /\ Len(w) >= 1
    BY <2>1 DEF w
  <2>3. 1 \in DOMAIN (w \o <<c>>) /\ (w \o <<c>>)[1] = ESC
    BY <1>2, <2>2, ConcatProperties
  <2> QED
    BY <2>3 DEF w
<1>4. screen' = Garbled
  <2> HIDE DEF s
  <2> QED
    BY <1>1, <1>3 DEF Echo, Follow, s
<1>5. ScreenInv' /\ ~screen'.known
  BY <1>4, NewLineType DEF ScreenInv, ScreenType
<1> QED
  BY <1>5 DEF EchoInv

LEMMA EscapeEcho ==
  ASSUME EchoInv, EscapeKey \/ Escape
  PROVE  EchoInv'
<1>1. CASE EscapeKey
  <2>1. UNCHANGED <<screen, out, crSent, cmd_buf, cmd_len>> /\ AtKeys /\ AtKeys'
    BY <1>1 DEF EscapeKey, Getchar, lineVars, AtKeys
  <2> QED
    BY <2>1, QuietEcho
<1>2. CASE Escape
  <2>1. <<>> \in Seq(Printed) /\ <<"[">> \in Seq(Printed) /\ <<"O">> \in Seq(Printed)
    BY DEF Printed
  <2>2. CASE Swallow("esc", {"["}, "csi")
    BY <2>2, SwallowEcho
  <2>3. CASE Swallow("esc", {"O"}, "ss3")
    BY <2>3, SwallowEcho
  <2>4. CASE Reject("esc", {"[", "O"}, <<>>)
    BY <2>1, <2>4, RejectEcho
  <2>5. CASE Swallow("csi", Arrows, "line")
    BY <2>5, SwallowEcho
  <2>6. CASE Swallow("csi", Paging, "page")
    BY <2>6, SwallowEcho
  <2>7. CASE Reject("csi", Arrows \cup Paging, <<"[">>)
    BY <2>1, <2>7, RejectEcho
  <2>8. CASE Swallow("page", Char, "line")
    BY <2>8, SwallowEcho
  <2>9. CASE Swallow("ss3", {"F"}, "line")
    BY <2>9, SwallowEcho
  <2>10. CASE Reject("ss3", {"F"}, <<"O">>)
    BY <2>1, <2>10, RejectEcho
  <2> QED
    BY <1>2, <2>2, <2>3, <2>4, <2>5, <2>6, <2>7, <2>8, <2>9, <2>10 DEF Escape
<1> QED
  BY <1>1, <1>2

(* Every reply of a handler ends with a line feed. *)
LEMMA ReplyEnds ==
  ASSUME NEW argv \in Seq(Seq(Char)),
         NEW h \in {"none", "help", "print", "reset", "bmo", "unknown"},
         h = "unknown" => argv # <<>>
  PROVE  Reply(h, argv) = <<>> \/ Reply(h, argv)[Len(Reply(h, argv))] = LF
<1>1. CASE h = "unknown"
  <2>1. argv[1] \in Seq(Printed)
    BY <1>1 DEF Printed
  <2>2. <<TEXT>> \in Seq(Printed) /\ <<LF>> \in Seq(Printed)
    BY DEF Printed
  <2>3. PICK w \in Seq(Printed) : w = <<TEXT>> \o argv[1]
    BY <2>1, <2>2, ConcatProperties
  <2>4. Reply(h, argv) = w \o <<LF>>
    BY <1>1, <2>3 DEF Reply
  <2>5. Len(w \o <<LF>>) = Len(w) + 1 /\ (w \o <<LF>>)[Len(w) + 1] = LF
    BY <2>2
  <2> QED
    BY <2>4, <2>5
<1>2. CASE h # "unknown"
  BY <1>2 DEF Reply
<1> QED
  BY <1>1, <1>2

LEMMA CommandEcho ==
  ASSUME ConsoleInv, ConsoleInv', EchoInv, HandleCommand
  PROVE  EchoInv'
<1> DEFINE h == Handler(args')
<1>1. args' \in Seq(Seq(Char)) /\ ~crSent'
  BY DEF ConsoleInv, TypeOK, HandleCommand
<1>2. /\ h \in {"none", "help", "print", "reset", "bmo", "unknown"}
      /\ h = "unknown" => args' # <<>>
  BY TableAssumption DEF Handler
<1>3. /\ out = <<>> /\ ~AtKeys /\ ~AtKeys' /\ out' = Reply(h, args')
      /\ screen' \in {screen, Garbled}
  BY DEF HandleCommand, AtKeys, Follow
<1>4. out' = <<>> \/ out'[Len(out')] = LF
  <2> HIDE DEF h
  <2> QED
    BY <1>1, <1>2, <1>3, ReplyEnds
<1> QED
  BY <1>1, <1>3, <1>4, OutputEcho

LEMMA QuietOutputEcho ==
  ASSUME ConsoleInv, EchoInv, ScanByte \/ BinaryMode \/ ResetChip
  PROVE  EchoInv'
<1>1. out = <<>> /\ ~AtKeys /\ ~AtKeys' /\ crSent' = crSent
  BY DEF ScanByte, BinaryMode, ResetChip, Getchar, AtKeys, putVars
<1>2. ~crSent
  BY <1>1 DEF ConsoleInv
<1>3. \/ screen' = screen /\ out' = <<>>
      \/ screen' = Garbled /\ BinaryMode
  BY <1>1 DEF ScanByte, BinaryMode, ResetChip, putVars
<1>4. CASE screen' = screen /\ out' = <<>>
  BY <1>1, <1>2, <1>4, OutputEcho
<1>5. CASE screen' = Garbled /\ BinaryMode
  <2>1. ScreenInv' /\ ~screen'.known
    BY <1>5, NewLineType DEF ScreenInv, ScreenType
  <2> QED
    BY <2>1 DEF EchoInv
<1> QED
  BY <1>3, <1>4, <1>5

(* The banner is printed on an empty line, and leaves one. *)
LEMMA BannerEcho ==
  /\ Init => EchoInv
  /\ ChipResets => EchoInv'
<1>1. Banner # <<>> /\ Banner[Len(Banner)] = LF
  BY DEF Banner
<1>2. Init => EchoInv
  BY <1>1, NewLineType DEF Init, EchoInv, ScreenInv, ScreenType, AtKeys
<1>3. ChipResets => EchoInv'
  BY <1>1, NewLineType DEF ChipResets, EchoInv, ScreenInv, ScreenType, AtKeys
<1> QED
  BY <1>2, <1>3

LEMMA UartStepEcho ==
  ASSUME EchoInv, Transmit \/ (\E c \in Keys : TerminalSends(c)) \/ UNCHANGED vars
  PROVE  EchoInv'
<1>1. UNCHANGED <<screen, out, crSent, cmd_buf, cmd_len>> /\ AtKeys' = AtKeys
  BY DEF Transmit, TerminalSends, vars, putVars, lineVars, AtKeys
<1> QED
  BY <1>1, QuietEcho

(* The invariant of the screen holds in every behaviour. *)
THEOREM EchoInvariance == Spec => []EchoInv
<1>1. ConsoleInv /\ ConsoleInv' /\ EchoInv /\ [Next]_vars => EchoInv'
  <2> SUFFICES ASSUME ConsoleInv, ConsoleInv', EchoInv, [Next]_vars
               PROVE  EchoInv'
    OBVIOUS
  <2>1. CASE UNCHANGED vars
    BY <2>1, UartStepEcho
  <2>2. CASE Next
    BY <2>2, UartStepEcho, PutEcho, PromptEcho, EnteredEcho, BackspaceEcho,
           OrdinaryEcho, EscapeEcho, QuietOutputEcho, CommandEcho, BannerEcho
    DEF Next, ConsoleStep
  <2> QED
    BY <2>1, <2>2
<1> QED
  BY <1>1, BannerEcho, ConsoleInvariance, PTL DEF Spec

(* Whenever the monitor waits for a key of a line the user sees the line    *)
(* that Enter would run, behind the prompt, for every alphabet and length.  *)
THEOREM EchoCorrect == Spec => []EchoMatches
<1>1. ConsoleInv /\ EchoInv => EchoMatches
  <2> SUFFICES ASSUME ConsoleInv, EchoInv, pc = "line", out = <<>>, screen.known
               PROVE  LET shown == <<">", SP>> \o Line
                      IN  /\ screen.col = Len(shown)
                          /\ SubSeq(screen.cells, 1, screen.col) = shown
                          /\ \A k \in screen.col + 1 .. Len(screen.cells) :
                               screen.cells[k] = SP
    BY DEF EchoMatches
  <2>1. cmd_len \in 0 .. MaxCmdLen /\ cmd_buf \in [0 .. MaxCmdLen -> Char]
    BY DEF ConsoleInv, TypeOK
  <2>2. /\ screen.col = cmd_len + 2 /\ cmd_len + 2 <= Len(screen.cells)
        /\ \A j \in 1 .. cmd_len + 2 : screen.cells[j] = Shown(j)
        /\ \A j \in cmd_len + 3 .. Len(screen.cells) : screen.cells[j] = SP
    BY DEF EchoInv, EchoPending, AtKeys, Displays
  <2>3. Line \in Seq(Char) /\ Len(Line) = cmd_len
        /\ \A k \in 1 .. cmd_len : Line[k] = cmd_buf[k - 1]
    BY <2>1 DEF Line
  <2> HIDE DEF Line
  <2> DEFINE prompt == <<">", SP>>
             shown == prompt \o Line
  <2>4. prompt \in Seq({">", SP} \cup Char) /\ Line \in Seq({">", SP} \cup Char)
    BY <2>3
  <2>5. /\ shown \in Seq({">", SP} \cup Char) /\ Len(shown) = cmd_len + 2
        /\ \A j \in 1 .. cmd_len + 2 : shown[j] = Shown(j)
    BY <2>1, <2>3, <2>4 DEF Shown
  <2>6. screen.cells \in Seq(Printed) /\ screen.col \in Nat
    BY <2>1, <2>2 DEF EchoInv, ScreenInv
  <2>7. SubSeq(screen.cells, 1, screen.col) = shown
    <3> DEFINE front == SubSeq(screen.cells, 1, screen.col)
    <3>1. /\ front \in Seq(Printed) /\ Len(front) = cmd_len + 2
          /\ \A j \in 1 .. cmd_len + 2 : front[j] = screen.cells[j]
      BY <2>1, <2>2, <2>6, SubSeqProperties
    <3> HIDE DEF front, shown
    <3>2. \A j \in 1 .. Len(front) : front[j] = shown[j]
      BY <2>2, <2>5, <3>1
    <3>3. front = shown
      BY <2>5, <3>1, <3>2, SeqEqual
    <3> QED
      BY <3>3 DEF front, shown
  <2>8. \A k \in screen.col + 1 .. Len(screen.cells) : screen.cells[k] = SP
    BY <2>1, <2>2
  <2>9. screen.col = Len(shown)
    BY <2>2, <2>5
  <2> QED
    BY <2>7, <2>8, <2>9
<1> QED
  BY <1>1, ConsoleInvariance, EchoInvariance, PTL

-----------------------------------------------------------------------------
(* The scan of parse_cmdline.                                              *)
LEMMA NothingParsed ==
  ASSUME NEW buf
  PROVE  Parsed(buf, NoScan.i, NoScan.argv, NoScan.open)
<1>1. NoScan.i = 0 /\ NoScan.argv = <<>> /\ NoScan.open = None
  BY DEF NoScan
<1>2. DOMAIN NoScan.argv = {}
  BY <1>1
<1>3. \A p \in WordStarts(buf) : ~ (p < NoScan.i)
  BY <1>1 DEF WordStarts
<1> QED
  BY <1>1, <1>2, <1>3 DEF Parsed, InOrder

LEMMA NotScanning ==
  ASSUME scan' = NoScan
  PROVE  ParseInv'
BY NothingParsed DEF ParseInv

LEMMA SameScan ==
  ASSUME ParseInv, UNCHANGED <<pc, cmd_buf, scan>>
  PROVE  ParseInv'
BY DEF ParseInv

LEMMA InitParse == Init => ParseInv
BY NothingParsed DEF Init, ParseInv

(* A turn of the scan writes no NUL but over a separator, so that words     *)
(* start and end where they did.                                           *)
LEMMA ScanKeepsWords ==
  ASSUME NEW buf \in [0 .. MaxCmdLen -> Char], NEW i \in 0 .. MaxCmdLen, NEW new,
         \/ new = buf
         \/ buf[i] \in Separator /\ new = [buf EXCEPT ![i] = NUL]
  PROVE  /\ WordStarts(new) = WordStarts(buf)
         /\ \A p \in 0 .. MaxCmdLen, e \in 0 .. MaxCmdLen + 1 : Solid(buf, p, e) => Solid(new, p, e)
         /\ \A p \in 0 .. MaxCmdLen : CutWord(buf, p, i) => CutWord(new, p, i + 1)
         /\ \A j \in 0 .. MaxCmdLen : new[j] \in Separator <=> buf[j] \in Separator
<1>1. \A j \in 0 .. MaxCmdLen :
        /\ new[j] \in Separator <=> buf[j] \in Separator
        /\ buf[j] = NUL => new[j] = NUL
  BY DEF Separator
<1>2. WordStarts(new) = WordStarts(buf)
  BY <1>1 DEF WordStarts
<1>3. \A p \in 0 .. MaxCmdLen, e \in 0 .. MaxCmdLen + 1 : Solid(buf, p, e) => Solid(new, p, e)
  BY <1>1 DEF Solid
<1>4. ASSUME NEW p \in 0 .. MaxCmdLen, CutWord(buf, p, i) PROVE CutWord(new, p, i + 1)
  <2>1. PICK e \in p + 1 .. i - 1 : buf[e] = NUL /\ Solid(buf, p, e)
    BY <1>4 DEF CutWord
  <2>2. e \in p + 1 .. (i + 1) - 1 /\ e \in 0 .. MaxCmdLen /\ e \in 0 .. MaxCmdLen + 1
    OBVIOUS
  <2>3. new[e] = NUL /\ Solid(new, p, e)
    BY <1>1, <1>3, <2>1, <2>2
  <2> QED
    BY <2>2, <2>3 DEF CutWord
<1> QED
  BY <1>1, <1>2, <1>3, <1>4

(* The three branches of a turn: a word ends, a word begins, or neither.   *)
LEMMA WordEnds ==
  ASSUME NEW buf \in [0 .. MaxCmdLen -> Char], NEW i \in 0 .. MaxCmdLen,
         NEW argv \in Seq(0 .. MaxCmdLen), NEW open \in 0 .. MaxCmdLen,
         Parsed(buf, i, argv, open), buf[i] \in Separator
  PROVE  Parsed([buf EXCEPT ![i] = NUL], i + 1, Append(argv, open), None)
<1> DEFINE new == [buf EXCEPT ![i] = NUL]
           a == Append(argv, open)
           c == Len(argv)
<1>1. /\ WordStarts(new) = WordStarts(buf)
      /\ \A p \in 0 .. MaxCmdLen, e \in 0 .. MaxCmdLen + 1 : Solid(buf, p, e) => Solid(new, p, e)
      /\ \A p \in 0 .. MaxCmdLen : CutWord(buf, p, i) => CutWord(new, p, i + 1)
      /\ \A j \in 0 .. MaxCmdLen : new[j] \in Separator <=> buf[j] \in Separator
  BY ScanKeepsWords
<1>2. new[i] = NUL /\ (i + 1) - 1 = i /\ i \in 0 .. MaxCmdLen + 1 /\ NUL \in Separator
  BY DEF Separator
<1> HIDE DEF new
<1>3. /\ c \in Nat /\ DOMAIN argv = 1 .. c /\ DOMAIN a = 1 .. c + 1 /\ a[c + 1] = open
      /\ \A n \in 1 .. c : a[n] = argv[n] /\ argv[n] \in 0 .. MaxCmdLen
  OBVIOUS
<1> HIDE DEF a, c
<1>4. open # None
  BY DEF None
<1>5. /\ \A n \in 1 .. c : argv[n] \in WordStarts(buf) /\ CutWord(buf, argv[n], i) /\ argv[n] < open
      /\ \A m, n \in 1 .. c : m < n => argv[m] < argv[n]
      /\ \A p \in WordStarts(buf) : p < i => p = open \/ \E n \in 1 .. c : p = argv[n]
      /\ open \in WordStarts(buf) /\ open < i /\ Solid(buf, open, i)
  BY <1>3, <1>4 DEF Parsed, InOrder
<1>6. CutWord(new, open, i + 1)
  <2>1. Solid(new, open, i) /\ i \in open + 1 .. (i + 1) - 1
    BY <1>1, <1>2, <1>5
  <2> QED
    BY <1>2, <2>1 DEF CutWord
<1>7. \A n \in 1 .. c + 1 : n \in 1 .. c \/ n = c + 1
  BY <1>3
<1>8. \A n \in DOMAIN a : a[n] \in WordStarts(new) /\ CutWord(new, a[n], i + 1)
  <2> SUFFICES ASSUME NEW n \in 1 .. c + 1
               PROVE  a[n] \in WordStarts(new) /\ CutWord(new, a[n], i + 1)
    BY <1>3
  <2>1. CASE n = c + 1
    BY <1>1, <1>3, <1>5, <1>6, <2>1
  <2>2. CASE n \in 1 .. c
    BY <1>1, <1>3, <1>5, <2>2
  <2> QED
    BY <1>7, <2>1, <2>2
<1>9. InOrder(a)
  BY <1>3, <1>5 DEF InOrder
<1>10. ASSUME NEW p \in WordStarts(new), p < i + 1 PROVE \E n \in DOMAIN a : p = a[n]
  <2>1. p \in WordStarts(buf) /\ p \in 0 .. MaxCmdLen /\ p # i
    BY <1>1, <1>10 DEF WordStarts
  <2>2. p < i
    BY <1>10, <2>1
  <2>3. p = open \/ \E n \in 1 .. c : p = argv[n]
    BY <1>5, <2>1, <2>2
  <2>4. c + 1 \in DOMAIN a /\ 1 .. c \subseteq DOMAIN a
    BY <1>3
  <2> QED
    BY <1>3, <2>3, <2>4
<1>11. new[(i + 1) - 1] \in Separator
  BY <1>2
<1> QED
  BY <1>8, <1>9, <1>10, <1>11 DEF Parsed, new, a

LEMMA WordBegins ==
  ASSUME NEW buf \in [0 .. MaxCmdLen -> Char], NEW i \in 0 .. MaxCmdLen,
         NEW argv \in Seq(0 .. MaxCmdLen), Parsed(buf, i, argv, None), buf[i] \notin Separator
  PROVE  Parsed(buf, i + 1, argv, i)
<1> DEFINE c == Len(argv)
<1>1. /\ WordStarts(buf) = WordStarts(buf)
      /\ \A p \in 0 .. MaxCmdLen : CutWord(buf, p, i) => CutWord(buf, p, i + 1)
  BY ScanKeepsWords
<1>2. DOMAIN argv = 1 .. c /\ \A n \in 1 .. c : argv[n] \in 0 .. MaxCmdLen
  OBVIOUS
<1> HIDE DEF c
<1>3. /\ \A n \in 1 .. c : argv[n] \in WordStarts(buf) /\ CutWord(buf, argv[n], i)
      /\ InOrder(argv)
      /\ \A p \in WordStarts(buf) : p < i => p = None \/ \E n \in 1 .. c : p = argv[n]
      /\ i = 0 \/ buf[i - 1] \in Separator
  BY <1>2 DEF Parsed
<1>4. i \in WordStarts(buf) /\ i < i + 1 /\ i # None
  BY <1>3 DEF WordStarts, None
<1>5. Solid(buf, i, i + 1)
  <2>1. \A j \in i .. (i + 1) - 1 : j = i
    OBVIOUS
  <2> QED
    BY <2>1 DEF Solid
<1>6. \A n \in 1 .. c : argv[n] < i
  <2> TAKE n \in 1 .. c
  <2>1. PICK e \in argv[n] + 1 .. i - 1 : TRUE
    BY <1>3 DEF CutWord
  <2> QED
    BY <1>2, <2>1
<1>7. ASSUME NEW p \in WordStarts(buf), p < i + 1 PROVE p = i \/ \E n \in 1 .. c : p = argv[n]
  <2>1. p \in 0 .. MaxCmdLen /\ p # None
    BY DEF WordStarts, None
  <2> QED
    BY <1>3, <1>7, <2>1
<1> QED
  BY <1>1, <1>2, <1>3, <1>4, <1>5, <1>6, <1>7 DEF Parsed

LEMMA WordGoesOn ==
  ASSUME NEW buf \in [0 .. MaxCmdLen -> Char], NEW i \in 0 .. MaxCmdLen,
         NEW argv \in Seq(0 .. MaxCmdLen), NEW open \in 0 .. MaxCmdLen + 1,
         Parsed(buf, i, argv, open), buf[i] \in Separator <=> open = None
  PROVE  Parsed(buf, i + 1, argv, open)
<1> DEFINE c == Len(argv)
<1>1. \A p \in 0 .. MaxCmdLen : CutWord(buf, p, i) => CutWord(buf, p, i + 1)
  BY ScanKeepsWords
<1>2. DOMAIN argv = 1 .. c /\ \A n \in 1 .. c : argv[n] \in 0 .. MaxCmdLen
  OBVIOUS
<1> HIDE DEF c
<1>3. /\ \A n \in 1 .. c : argv[n] \in WordStarts(buf) /\ CutWord(buf, argv[n], i)
      /\ InOrder(argv)
      /\ \A p \in WordStarts(buf) : p < i => p = open \/ \E n \in 1 .. c : p = argv[n]
      /\ open # None =>
           /\ open \in WordStarts(buf) /\ open < i /\ Solid(buf, open, i)
           /\ \A n \in 1 .. c : argv[n] < open
  BY <1>2 DEF Parsed
<1>4. (i + 1) - 1 = i /\ (open # None => open \in 0 .. i - 1)
  BY <1>3 DEF None
<1>5. i \notin WordStarts(buf)
  <2>1. CASE open = None
    BY <2>1 DEF WordStarts
  <2>2. CASE open # None
    <3>1. i - 1 \in open .. i - 1 /\ i # 0
      BY <1>4, <2>2
    <3>2. buf[i - 1] \notin Separator
      BY <1>3, <2>2, <3>1 DEF Solid
    <3> QED
      BY <3>1, <3>2 DEF WordStarts
  <2> QED
    BY <2>1, <2>2
<1>6. ASSUME NEW p \in WordStarts(buf), p < i + 1 PROVE p = open \/ \E n \in 1 .. c : p = argv[n]
  <2>1. p \in 0 .. MaxCmdLen /\ p # i
    BY <1>5 DEF WordStarts
  <2>2. p < i
    BY <1>6, <2>1
  <2> QED
    BY <1>3, <2>2
<1>7. open # None => open < i + 1 /\ Solid(buf, open, i + 1)
  <2> SUFFICES ASSUME open # None PROVE open < i + 1 /\ Solid(buf, open, i + 1)
    OBVIOUS
  <2>1. \A j \in open .. (i + 1) - 1 : j = i \/ j \in open .. i - 1
    BY <1>4
  <2>2. Solid(buf, open, i + 1)
    BY <1>3, <2>1 DEF Solid
  <2> QED
    BY <1>4, <2>2
<1> QED
  BY <1>1, <1>2, <1>3, <1>4, <1>6, <1>7 DEF Parsed

LEMMA ScanParse ==
  ASSUME ConsoleInv, ParseInv, ScanByte
  PROVE  ParseInv'
<1> DEFINE i == scan.i
           argv == scan.argv
           open == scan.open
<1>1. /\ cmd_buf \in [0 .. MaxCmdLen -> Char]
      /\ i \in 0 .. MaxCmdLen /\ argv \in Seq(0 .. MaxCmdLen) /\ open \in 0 .. MaxCmdLen + 1
      /\ scan = [i |-> i, argv |-> argv, open |-> open]
  BY DEF ScanByte, Scanning, ConsoleInv, TypeOK, None
<1>2. pc' = "parse"
  BY DEF ScanByte
<1>3. Parsed(cmd_buf, i, argv, open)
  BY DEF ParseInv
<1>4. CASE /\ cmd_buf[i] \in Separator /\ open # None
           /\ cmd_buf' = [cmd_buf EXCEPT ![i] = NUL]
           /\ scan' = [i |-> i + 1, argv |-> Append(argv, open), open |-> None]
  <2>1. open \in 0 .. MaxCmdLen
    BY <1>1, <1>4 DEF None
  <2>2. Parsed([cmd_buf EXCEPT ![i] = NUL], i + 1, Append(argv, open), None)
    BY <1>1, <1>3, <1>4, <2>1, WordEnds
  <2>3. scan'.i = i + 1 /\ scan'.argv = Append(argv, open) /\ scan'.open = None
    BY <1>4
  <2> HIDE DEF i, argv, open
  <2> QED
    BY <1>2, <1>4, <2>2, <2>3 DEF ParseInv
<1>5. CASE /\ cmd_buf[i] \notin Separator /\ open = None
           /\ scan' = [scan EXCEPT !.i = @ + 1, !.open = i] /\ UNCHANGED cmd_buf
  <2>1. scan'.i = i + 1 /\ scan'.argv = argv /\ scan'.open = i
    BY <1>1, <1>5
  <2>2. Parsed(cmd_buf, i + 1, argv, i)
    BY <1>1, <1>3, <1>5, WordBegins
  <2> HIDE DEF i, argv, open
  <2> QED
    BY <1>2, <1>5, <2>1, <2>2 DEF ParseInv
<1>6. CASE /\ (cmd_buf[i] \in Separator) = (open = None)
           /\ scan' = [scan EXCEPT !.i = @ + 1] /\ UNCHANGED cmd_buf
  <2>1. scan'.i = i + 1 /\ scan'.argv = argv /\ scan'.open = open
    BY <1>1, <1>6
  <2>2. Parsed(cmd_buf, i + 1, argv, open)
    BY <1>1, <1>3, <1>6, WordGoesOn
  <2> HIDE DEF i, argv, open
  <2> QED
    BY <1>2, <1>6, <2>1, <2>2 DEF ParseInv
<1> QED
  BY <1>4, <1>5, <1>6 DEF ScanByte

(* How far the scan of parse_cmdline is: what is in argv are the words that *)
(* start before the place it has reached, in order and each cut off.       *)
THEOREM ParseInvariance == Spec => []ParseInv
<1>1. ConsoleInv /\ ParseInv /\ [Next]_vars => ParseInv'
  <2> SUFFICES ASSUME ConsoleInv, ParseInv, [Next]_vars PROVE ParseInv'
    OBVIOUS
  <2>1. CASE ScanByte
    BY <2>1, ScanParse
  <2>2. CASE scan' = NoScan
    BY <2>2, NotScanning
  <2>3. CASE UNCHANGED <<pc, cmd_buf, scan>>
    BY <2>3, SameScan
  <2>4. CASE pc # "parse" /\ UNCHANGED scan
    BY <2>2, <2>4 DEF ParseInv
  <2>5. CASE UNCHANGED vars
    BY <2>3, <2>5 DEF vars, lineVars
  <2>6. CASE (\E c \in Keys : TerminalSends(c)) \/ Transmit \/ PutChar \/ PutCR \/ PutLF
    BY <2>3, <2>6 DEF TerminalSends, Transmit, PutChar, PutCR, PutLF, lineVars
  <2>7. CASE ChipResets \/ HandleCommand
    BY <2>2, <2>7 DEF ChipResets, HandleCommand
  <2>8. CASE Prompt \/ EnterKey \/ ControlC \/ Backspace \/ EscapeKey \/ \E c \in Char : Ordinary(c)
    BY <2>4, <2>8 DEF Prompt, EnterKey, ControlC, Entered, Backspace, EscapeKey, Ordinary, lineVars
  <2>9. CASE Escape \/ BinaryMode \/ ResetChip
    BY <2>4, <2>9 DEF Escape, Swallow, Reject, BinaryMode, ResetChip, lineVars
  <2> QED
    BY <2>1, <2>5, <2>6, <2>7, <2>8, <2>9 DEF Next, ConsoleStep
<1> QED
  BY <1>1, InitParse, ConsoleInvariance, PTL DEF Spec

-----------------------------------------------------------------------------
(* LineSpec counts with the same operator. *)
LEMMA SameCardinality == \A S : Edited!Cardinality(S) = Cardinality(S)
BY DEF Edited!Cardinality, Cardinality

(* The words of a line: what the abstract specification chooses is what the *)
(* scan has found.  First, a list without repetitions has as many members  *)
(* as it is long.                                                          *)
Increasing(a, n) ==
  /\ n \in Nat /\ a \in [1 .. n -> Int]
  /\ \A j, k \in 1 .. n : j < k => a[j] < a[k]

LEMMA CountList ==
  ASSUME NEW a, NEW n, Increasing(a, n), NEW m \in 0 .. n
  PROVE  /\ IsFiniteSet({a[k] : k \in 1 .. m})
         /\ Cardinality({a[k] : k \in 1 .. m}) = m
<1> DEFINE S == {a[k] : k \in 1 .. m}
           f == [k \in 1 .. m |-> a[k]]
<1>1. n \in Nat /\ m \in Nat /\ a \in [1 .. n -> Int] /\ \A k \in 1 .. m : k \in 1 .. n
  BY DEF Increasing
<1>2. \A j, k \in 1 .. m : a[j] = a[k] => j = k
  <2> SUFFICES ASSUME NEW j \in 1 .. m, NEW k \in 1 .. m, j # k PROVE a[j] # a[k]
    OBVIOUS
  <2>1. j \in 1 .. n /\ k \in 1 .. n /\ (j < k \/ k < j) /\ a[j] \in Int /\ a[k] \in Int
    BY <1>1
  <2>2. a[j] < a[k] \/ a[k] < a[j]
    BY <2>1 DEF Increasing
  <2> QED
    BY <2>1, <2>2
<1>3. f \in Bijection(1 .. m, S)
  <2>1. f \in [1 .. m -> S]
    OBVIOUS
  <2>2. \A j, k \in 1 .. m : f[j] = f[k] => j = k
    BY <1>2
  <2>3. \A y \in S : \E k \in 1 .. m : f[k] = y
    OBVIOUS
  <2> HIDE DEF f, S
  <2> QED
    BY <2>1, <2>2, <2>3 DEF Bijection, Injection, Surjection, IsInjective
<1>4. ExistsBijection(1 .. m, S)
  BY <1>3 DEF ExistsBijection
<1>5. IsFiniteSet(1 .. m) /\ Cardinality(1 .. m) = m
  BY <1>1, FS_Interval
<1> DEFINE I == 1 .. m
<1>6. IsFiniteSet(I) /\ ExistsBijection(I, S) /\ Cardinality(I) = m
  BY <1>4, <1>5
<1> HIDE DEF S, I
<1>7. IsFiniteSet(S) /\ Cardinality(S) = Cardinality(I)
  BY <1>6, FS_Bijection
<1> QED
  BY <1>6, <1>7 DEF S

(* Starts that are listed in order, none of them left out before the last,  *)
(* are the first ones.                                                     *)
Leading(l, a, n) ==
  /\ l \in Seq(Char) /\ Increasing(a, n)
  /\ \A k \in 1 .. n : a[k] \in Edited!Starts(l)
  /\ \A p \in Edited!Starts(l) : (\E k \in 1 .. n : p <= a[k]) => \E k \in 1 .. n : p = a[k]

LEMMA StartsAreFinite ==
  ASSUME NEW l \in Seq(Char)
  PROVE  /\ IsFiniteSet(Edited!Starts(l)) /\ Cardinality(Edited!Starts(l)) \in Nat
         /\ Edited!Starts(l) \subseteq 1 .. Len(l)
<1>1. Edited!Starts(l) \in SUBSET (1 .. Len(l))
  BY DEF Edited!Starts
<1>2. IsFiniteSet(1 .. Len(l))
  BY FS_Interval
<1>3. IsFiniteSet(Edited!Starts(l))
  BY <1>1, <1>2, FS_Subset
<1> QED
  BY <1>1, <1>3, FS_CardinalityType

LEMMA UpToStart ==
  ASSUME NEW l, NEW a, NEW n, Leading(l, a, n), NEW m \in 1 .. n
  PROVE  Cardinality({p \in Edited!Starts(l) : p <= a[m]}) = m
<1> DEFINE T == {p \in Edited!Starts(l) : p <= a[m]}
           S == {a[k] : k \in 1 .. m}
<1>1. n \in Nat /\ a \in [1 .. n -> Int] /\ \A j, k \in 1 .. n : j < k => a[j] < a[k]
  BY DEF Leading, Increasing
<1>2. /\ \A k \in 1 .. n : a[k] \in Edited!Starts(l)
      /\ \A p \in Edited!Starts(l) : (\E k \in 1 .. n : p <= a[k]) => \E k \in 1 .. n : p = a[k]
  BY DEF Leading
<1>3. S \subseteq T
  <2> SUFFICES ASSUME NEW k \in 1 .. m PROVE a[k] \in T
    OBVIOUS
  <2>1. k \in 1 .. n /\ (k = m \/ k < m) /\ a[k] \in Int /\ a[m] \in Int
    BY <1>1
  <2>2. a[k] <= a[m]
    BY <1>1, <2>1
  <2> QED
    BY <1>2, <2>1, <2>2
<1>4. T \subseteq S
  <2> SUFFICES ASSUME NEW p \in Edited!Starts(l), p <= a[m] PROVE p \in S
    OBVIOUS
  <2>1. PICK k \in 1 .. n : p = a[k]
    BY <1>2
  <2>2. ~ (m < k)
    <3> SUFFICES ASSUME m < k PROVE FALSE
      OBVIOUS
    <3>1. a[m] < a[k] /\ a[m] \in Int /\ a[k] \in Int
      BY <1>1
    <3> QED
      BY <2>1, <3>1
  <2>3. k \in 1 .. m
    BY <1>1, <2>2
  <2> QED
    BY <2>1, <2>3
<1>5. m \in 0 .. n /\ Increasing(a, n)
  BY <1>1 DEF Leading
<1>6. Cardinality(S) = m
  BY <1>5, CountList
<1> HIDE DEF S, T
<1>7. S = T
  BY <1>3, <1>4
<1> QED
  BY <1>6, <1>7 DEF T

LEMMA NthIs ==
  ASSUME NEW l, NEW a, NEW n, Leading(l, a, n), NEW m \in 1 .. n
  PROVE  Edited!Nth(l, m) = a[m]
<1> DEFINE Upto(p) == {j \in Edited!Starts(l) : j <= p}
<1>1. /\ n \in Nat /\ a \in [1 .. n -> Int] /\ a[m] \in Edited!Starts(l) /\ l \in Seq(Char)
      /\ \A p \in Edited!Starts(l) : (\E k \in 1 .. n : p <= a[k]) => \E k \in 1 .. n : p = a[k]
  BY DEF Leading, Increasing
<1>2. IsFiniteSet(Edited!Starts(l)) /\ Edited!Starts(l) \subseteq Int
  BY <1>1, StartsAreFinite
<1>3. \A k \in 1 .. n : Cardinality(Upto(a[k])) = k
  BY UpToStart
<1>4. ASSUME NEW p \in Edited!Starts(l), Cardinality(Upto(p)) = m PROVE p = a[m]
  <2>1. p \in Int /\ a[m] \in Int /\ m \in Int
    BY <1>1, <1>2
  <2>2. CASE p <= a[m]
    <3>1. PICK k \in 1 .. n : p = a[k]
      BY <1>1, <2>2
    <3>2. Cardinality(Upto(a[k])) = k
      BY <1>3
    <3> QED
      BY <1>4, <3>1, <3>2
  <2>3. CASE a[m] < p
    <3>1. Upto(a[m]) \subseteq Upto(p)
      BY <1>1, <1>2, <2>1, <2>3
    <3>2. p \in Upto(p) /\ p \notin Upto(a[m])
      BY <2>1, <2>3
    <3>3. IsFiniteSet(Upto(p))
      <4>1. Upto(p) \in SUBSET Edited!Starts(l)
        OBVIOUS
      <4> QED
        BY <1>2, <4>1, FS_Subset
    <3> DEFINE U == Upto(p)
               V == Upto(a[m])
    <3>4. Cardinality(U) = m /\ Cardinality(V) = m
      BY <1>3, <1>4
    <3>5. V \in SUBSET U /\ IsFiniteSet(U) /\ U # V
      BY <3>1, <3>2, <3>3
    <3> HIDE DEF U, V
    <3>6. Cardinality(U) = Cardinality(V)
      BY <3>4
    <3> QED
      BY <3>5, <3>6, FS_Subset
  <2> QED
    BY <2>1, <2>2, <2>3
<1>5. a[m] \in Edited!Starts(l) /\ Cardinality(Upto(a[m])) = m
  BY <1>1, <1>3
<1>6. Edited!Nth(l, m) = CHOOSE p \in Edited!Starts(l) : Cardinality(Upto(p)) = m
  BY SameCardinality, Zenon DEF Edited!Nth
<1> HIDE DEF Upto
<1> QED
  BY <1>4, <1>5, <1>6

LEMMA WordIs ==
  ASSUME NEW l \in Seq(Char), NEW p \in 1 .. Len(l), NEW e \in p .. Len(l),
         \A j \in p .. e : l[j] # NUL, e = Len(l) \/ l[e + 1] = NUL
  PROVE  Edited!Word(l, p) = SubSeq(l, p, e)
<1> DEFINE IsEnd(x) == /\ \A j \in p .. x : l[j] # NUL
                       /\ x = Len(l) \/ l[x + 1] = NUL
<1>1. IsEnd(e)
  OBVIOUS
<1>2. ASSUME NEW x \in p .. Len(l), IsEnd(x) PROVE x = e
  <2>1. CASE x < e
    <3>1. x + 1 \in p .. e /\ x # Len(l)
      BY <2>1
    <3> QED
      BY <1>2, <3>1
  <2>2. CASE e < x
    <3>1. e + 1 \in p .. x /\ e # Len(l)
      BY <2>2
    <3> QED
      BY <1>2, <3>1
  <2> QED
    BY <2>1, <2>2
<1>3. Edited!Word(l, p) = LET x == CHOOSE x \in p .. Len(l) : IsEnd(x) IN SubSeq(l, p, x)
  BY DEF Edited!Word
<1> HIDE DEF IsEnd
<1>4. (CHOOSE x \in p .. Len(l) : IsEnd(x)) = e
  BY <1>1, <1>2
<1> QED
  BY <1>3, <1>4

LEMMA CStringIs ==
  ASSUME NEW buf, NEW p \in 0 .. MaxCmdLen, NEW e \in p .. MaxCmdLen + 1,
         e = MaxCmdLen + 1 \/ buf[e] = NUL, \A k \in p .. e - 1 : buf[k] # NUL
  PROVE  CString(buf, p) = [k \in 1 .. e - p |-> buf[p + k - 1]]
<1> DEFINE IsEnd(x) == /\ x = MaxCmdLen + 1 \/ buf[x] = NUL
                       /\ \A k \in p .. x - 1 : buf[k] # NUL
<1>1. IsEnd(e)
  OBVIOUS
<1>2. ASSUME NEW x \in p .. MaxCmdLen + 1, IsEnd(x) PROVE x = e
  <2>1. CASE x < e
    <3>1. x \in p .. e - 1 /\ x # MaxCmdLen + 1
      BY <2>1
    <3> QED
      BY <1>2, <3>1
  <2>2. CASE e < x
    <3>1. e \in p .. x - 1 /\ e # MaxCmdLen + 1
      BY <2>2
    <3> QED
      BY <1>2, <3>1
  <2> QED
    BY <2>1, <2>2
<1> DEFINE end == CHOOSE x \in p .. MaxCmdLen + 1 : IsEnd(x)
<1>3. CString(buf, p) = [k \in 1 .. end - p |-> buf[p + k - 1]]
  BY DEF CString
<1>4. end = e
  <2> HIDE DEF IsEnd
  <2> QED
    BY <1>1, <1>2
<1> HIDE DEF end
<1> QED
  BY <1>3, <1>4

(* The line as LineSpec has it. *)
Normal(buf, len) == [k \in 1 .. len |-> IF buf[k - 1] \in Separator THEN NUL ELSE buf[k - 1]]

LEMMA NormalIs ==
  ASSUME NEW buf \in [0 .. MaxCmdLen -> Char], NEW len \in 0 .. MaxCmdLen
  PROVE  /\ Normal(buf, len) \in Seq(Char) /\ Len(Normal(buf, len)) = len
         /\ \A k \in 1 .. len : /\ Normal(buf, len)[k] = NUL <=> buf[k - 1] \in Separator
                                /\ buf[k - 1] \notin Separator => Normal(buf, len)[k] = buf[k - 1]
<1> DEFINE F(k) == IF buf[k - 1] \in Separator THEN NUL ELSE buf[k - 1]
           l == [k \in 1 .. len |-> F(k)]
<1>1. \A k \in 1 .. len : F(k) \in Char
  BY DEF Char
<1>2. \A k \in 1 .. len : l[k] = F(k)
  OBVIOUS
<1>3. \A k \in 1 .. len : /\ F(k) = NUL <=> buf[k - 1] \in Separator
                          /\ buf[k - 1] \notin Separator => F(k) = buf[k - 1]
  BY DEF Separator
<1> HIDE DEF F
<1>4. l \in Seq(Char) /\ Len(l) = len
  BY <1>1
<1>5. Normal(buf, len) = l
  BY DEF Normal, F
<1> HIDE DEF l
<1> QED
  BY <1>2, <1>3, <1>4, <1>5

LEMMA LineIsNormal ==
  [k \in DOMAIN Line |-> IF Line[k] \in Separator THEN NUL ELSE Line[k]]
    = Normal(cmd_buf, cmd_len)
<1>1. DOMAIN Line = 1 .. cmd_len /\ \A k \in 1 .. cmd_len : Line[k] = cmd_buf[k - 1]
  BY DEF Line
<1> QED
  BY <1>1 DEF Normal

LEMMA StartsAre ==
  ASSUME NEW buf \in [0 .. MaxCmdLen -> Char], NEW len \in 0 .. MaxCmdLen,
         \A k \in len .. MaxCmdLen : buf[k] = NUL
  PROVE  Edited!Starts(Normal(buf, len)) = {p + 1 : p \in WordStarts(buf)}
<1> DEFINE l == Normal(buf, len)
<1>5. /\ l \in Seq(Char) /\ Len(l) = len
      /\ \A k \in 1 .. len : /\ l[k] = NUL <=> buf[k - 1] \in Separator
                             /\ buf[k - 1] \notin Separator => l[k] = buf[k - 1]
  BY NormalIs
<1> HIDE DEF l
<1>1. /\ l \in Seq(Char) /\ Len(l) = len /\ DOMAIN l = 1 .. len
      /\ \A k \in 1 .. len : l[k] = NUL <=> buf[k - 1] \in Separator
  BY <1>5
<1>2. ASSUME NEW k \in Edited!Starts(l) PROVE k \in {p + 1 : p \in WordStarts(buf)}
  <2>1. k \in 1 .. len /\ l[k] # NUL /\ (k = 1 \/ l[k - 1] = NUL)
    BY <1>1 DEF Edited!Starts
  <2>2. k - 1 \in 0 .. MaxCmdLen /\ buf[k - 1] \notin Separator /\ (k - 1) + 1 = k
    BY <1>1, <2>1
  <2>3. k # 1 => buf[(k - 1) - 1] \in Separator
    <3> SUFFICES ASSUME k # 1 PROVE buf[(k - 1) - 1] \in Separator
      OBVIOUS
    <3>1. k - 1 \in 1 .. len
      BY <2>1
    <3> QED
      BY <1>1, <2>1, <3>1
  <2>4. k - 1 \in WordStarts(buf)
    BY <2>1, <2>2, <2>3 DEF WordStarts
  <2> QED
    BY <2>2, <2>4
<1>3. ASSUME NEW p \in WordStarts(buf) PROVE p + 1 \in Edited!Starts(l)
  <2>1. p \in 0 .. MaxCmdLen /\ buf[p] \notin Separator /\ (p = 0 \/ buf[p - 1] \in Separator)
    BY DEF WordStarts
  <2>2. p < len
    BY <2>1 DEF Separator
  <2>3. p + 1 \in 1 .. len /\ (p + 1) - 1 = p
    BY <2>1, <2>2
  <2>4. l[p + 1] # NUL
    BY <1>1, <2>1, <2>3
  <2>5. p # 0 => l[p] = NUL
    BY <1>1, <2>1, <2>3
  <2> QED
    BY <1>1, <2>1, <2>3, <2>4, <2>5 DEF Edited!Starts
<1>4. Edited!Starts(l) = {p + 1 : p \in WordStarts(buf)}
  BY <1>2, <1>3
<1> QED
  BY <1>4 DEF l

(* A word that the scan has cut off is the word of the line.               *)
LEMMA CutWordIs ==
  ASSUME NEW buf \in [0 .. MaxCmdLen -> Char], NEW len \in 0 .. MaxCmdLen,
         \A k \in len .. MaxCmdLen : buf[k] = NUL,
         NEW i \in 0 .. MaxCmdLen + 1, NEW p \in 0 .. MaxCmdLen, CutWord(buf, p, i)
  PROVE  Edited!Word(Normal(buf, len), p + 1) = CString(buf, p)
<1> DEFINE l == Normal(buf, len)
<1>1. /\ l \in Seq(Char) /\ Len(l) = len
      /\ \A k \in 1 .. len : /\ l[k] = NUL <=> buf[k - 1] \in Separator
                             /\ buf[k - 1] \notin Separator => l[k] = buf[k - 1]
  BY NormalIs
<1> HIDE DEF l
<1>2. PICK e \in p + 1 .. i - 1 : buf[e] = NUL /\ \A j \in p .. e - 1 : buf[j] \notin Separator
  BY DEF CutWord, Solid
<1>3. e \in p .. MaxCmdLen + 1 /\ e \in 0 .. MaxCmdLen /\ NUL \in Separator
  BY <1>2 DEF Separator
<1>4. CString(buf, p) = [k \in 1 .. e - p |-> buf[p + k - 1]]
  BY <1>2, <1>3, CStringIs
<1>5. e - 1 < len
  <2>1. e - 1 \in p .. e - 1 /\ e - 1 \in 0 .. MaxCmdLen
    BY <1>2, <1>3
  <2>2. buf[e - 1] \notin Separator
    BY <1>2, <2>1
  <2> QED
    BY <1>3, <2>1, <2>2
<1>6. p + 1 \in 1 .. Len(l) /\ e \in p + 1 .. Len(l)
  BY <1>1, <1>2, <1>3, <1>5
<1>7. \A j \in p + 1 .. e : l[j] # NUL /\ l[j] = buf[j - 1]
  <2> TAKE j \in p + 1 .. e
  <2>1. j \in 1 .. len /\ j - 1 \in p .. e - 1
    BY <1>2, <1>3, <1>5
  <2> QED
    BY <1>1, <1>2, <2>1
<1>8. e = Len(l) \/ l[e + 1] = NUL
  <2> SUFFICES ASSUME e # len PROVE l[e + 1] = NUL
    BY <1>1
  <2>1. e + 1 \in 1 .. len /\ (e + 1) - 1 = e
    BY <1>3, <1>5
  <2> QED
    BY <1>1, <1>2, <1>3, <2>1
<1>9. Edited!Word(l, p + 1) = SubSeq(l, p + 1, e)
  BY <1>1, <1>6, <1>7, <1>8, WordIs
<1>10. SubSeq(l, p + 1, e) = [k \in 1 .. e - p |-> buf[p + k - 1]]
  <2>1. SubSeq(l, p + 1, e) = [k \in 1 .. e - p |-> l[p + k]]
    BY <1>1, <1>3, <1>6
  <2>2. \A k \in 1 .. e - p : l[p + k] = buf[p + k - 1]
    <3> TAKE k \in 1 .. e - p
    <3>1. p + k \in p + 1 .. e
      BY <1>3
    <3> QED
      BY <1>7, <3>1
  <2> QED
    BY <2>1, <2>2
<1> QED
  BY <1>4, <1>9, <1>10 DEF l

(* What a handler is given. *)
LEMMA CommandWords ==
  ASSUME ConsoleInv, ParseInv, HandleCommand
  PROVE  args' = Edited!FirstWords(Normal(cmd_buf, cmd_len))
<1> DEFINE i == scan.i
           argv == scan.argv
           open == scan.open
           c == Len(argv)
           l == Normal(cmd_buf, cmd_len)
           a == [n \in 1 .. c |-> argv[n] + 1]
           starts == Edited!Starts(l)
<1>1. /\ cmd_buf \in [0 .. MaxCmdLen -> Char] /\ cmd_len \in 0 .. MaxCmdLen
      /\ \A k \in cmd_len .. MaxCmdLen : cmd_buf[k] = NUL
      /\ i \in 0 .. MaxCmdLen + 1 /\ argv \in Seq(0 .. MaxCmdLen) /\ open \in 0 .. MaxCmdLen + 1
      /\ c \in Nat /\ c <= MaxArgs /\ DOMAIN argv = 1 .. c
      /\ \A n \in 1 .. c : argv[n] \in 0 .. MaxCmdLen
  BY SMTT(60) DEF ConsoleInv, TypeOK, BufferTail, None
<1>2. i = MaxCmdLen + 1 \/ c = MaxArgs
  BY <1>1 DEF HandleCommand, Scanning
<1>3. args' = [n \in DOMAIN argv |-> CString(cmd_buf, argv[n])]
  BY DEF HandleCommand
<1>4. Parsed(cmd_buf, i, argv, open)
  BY DEF ParseInv
<1> HIDE DEF i, argv, open
<1>5. /\ \A n \in 1 .. c : argv[n] \in WordStarts(cmd_buf) /\ CutWord(cmd_buf, argv[n], i)
      /\ \A m, n \in 1 .. c : m < n => argv[m] < argv[n]
      /\ \A p \in WordStarts(cmd_buf) : p < i => p = open \/ \E n \in 1 .. c : p = argv[n]
      /\ open # None =>
           /\ open < i /\ Solid(cmd_buf, open, i)
           /\ \A n \in 1 .. c : argv[n] < open
  BY <1>1, <1>4 DEF Parsed, InOrder
<1>6. starts = {p + 1 : p \in WordStarts(cmd_buf)} /\ WordStarts(cmd_buf) \subseteq 0 .. MaxCmdLen
  BY <1>1, StartsAre DEF WordStarts
<1>7. l \in Seq(Char)
  BY <1>1, NormalIs
<1> HIDE DEF l, starts, c
<1>8. \A n \in 1 .. c : a[n] = argv[n] + 1 /\ a[n] \in starts
  BY <1>5, <1>6
<1>9. Increasing(a, c)
  BY <1>1, <1>5 DEF Increasing
<1> HIDE DEF a
<1>10. \A n \in 1 .. c : argv[n] < i
  <2> TAKE n \in 1 .. c
  <2>1. PICK e \in argv[n] + 1 .. i - 1 : TRUE
    BY <1>5 DEF CutWord
  <2> QED
    BY <1>1, <2>1
<1>11. Leading(l, a, c)
  <2>1. ASSUME NEW p \in starts, NEW k \in 1 .. c, p <= a[k] PROVE \E n \in 1 .. c : p = a[n]
    <3>1. PICK q \in WordStarts(cmd_buf) : p = q + 1
      BY <1>6
    <3>2. q \in 0 .. MaxCmdLen /\ q <= argv[k] /\ argv[k] \in 0 .. MaxCmdLen /\ q < i
      BY <1>1, <1>6, <1>8, <1>10, <2>1, <3>1, SMTT(60)
    <3>3. q # open
      <4> SUFFICES ASSUME q = open PROVE FALSE
        OBVIOUS
      <4>1. open # None
        BY <3>2 DEF None
      <4>2. argv[k] < open
        BY <1>5, <4>1
      <4> QED
        BY <3>2, <4>2
    <3>4. PICK n \in 1 .. c : q = argv[n]
      BY <1>5, <3>2, <3>3
    <3> QED
      BY <1>8, <3>1, <3>4
  <2> QED
    BY <1>7, <1>8, <1>9, <2>1 DEF Leading, starts
<1>12. \A n \in 1 .. c : Edited!Nth(l, n) = a[n] /\ Edited!Word(l, a[n]) = CString(cmd_buf, argv[n])
  <2> TAKE n \in 1 .. c
  <2>1. Edited!Nth(l, n) = a[n]
    BY <1>11, NthIs
  <2>2. Edited!Word(l, argv[n] + 1) = CString(cmd_buf, argv[n])
    <3>1. argv[n] \in 0 .. MaxCmdLen /\ CutWord(cmd_buf, argv[n], i)
      BY <1>1, <1>5
    <3> QED
      BY <1>1, <3>1, CutWordIs DEF l
  <2> QED
    BY <1>8, <2>1, <2>2
<1>13. c = IF Cardinality(starts) < MaxArgs THEN Cardinality(starts) ELSE MaxArgs
  <2> DEFINE S == {a[k] : k \in 1 .. c}
  <2>1. c \in 0 .. c
    BY <1>1
  <2>2. IsFiniteSet(S) /\ Cardinality(S) = c
    BY <1>9, <2>1, CountList
  <2>3. IsFiniteSet(starts) /\ Cardinality(starts) \in Nat
    BY <1>7, StartsAreFinite DEF starts
  <2>4. S \in SUBSET starts
    BY <1>8
  <2>5. i = MaxCmdLen + 1 => starts = S
    <3> SUFFICES ASSUME i = MaxCmdLen + 1, NEW p \in starts PROVE p \in S
      BY <2>4
    <3>1. PICK q \in WordStarts(cmd_buf) : p = q + 1
      BY <1>6
    <3>2. q < i /\ q # None
      BY <1>6 DEF None
    <3>3. open = None
      <4> SUFFICES ASSUME open # None PROVE FALSE
        OBVIOUS
      <4>1. open < i /\ Solid(cmd_buf, open, i) /\ MaxCmdLen \in open .. i - 1
        BY <1>1, <1>5
      <4>2. cmd_buf[MaxCmdLen] \notin Separator /\ cmd_buf[MaxCmdLen] = NUL
        BY <1>1, <4>1 DEF Solid
      <4> QED
        BY <4>2 DEF Separator
    <3>4. PICK n \in 1 .. c : q = argv[n]
      BY <1>5, <3>2, <3>3
    <3> QED
      BY <1>8, <3>1, <3>4
  <2> HIDE DEF S
  <2>6. c <= Cardinality(starts)
    BY <2>2, <2>3, <2>4, FS_Subset
  <2>7. CASE i = MaxCmdLen + 1
    BY <1>1, <2>2, <2>5, <2>7
  <2>8. CASE c = MaxArgs
    BY <1>1, <2>3, <2>6, <2>8
  <2> QED
    BY <1>2, <2>7, <2>8
<1>14. Edited!FirstWords(l) = [n \in 1 .. c |-> Edited!Word(l, Edited!Nth(l, n))]
  <2> DEFINE W(k) == [n \in 1 .. k |-> Edited!Word(l, Edited!Nth(l, n))]
             k == Cardinality(starts)
  <2>1. Edited!FirstWords(l) = W(IF k < MaxArgs THEN k ELSE MaxArgs)
    BY SameCardinality, Zenon DEF Edited!FirstWords, starts
  <2> HIDE DEF W, k
  <2>2. Edited!FirstWords(l) = W(c)
    BY <1>13, <2>1 DEF k
  <2> QED
    BY <2>2 DEF W
<1>15. \A n \in 1 .. c : Edited!Word(l, Edited!Nth(l, n)) = CString(cmd_buf, argv[n])
  BY <1>12
<1> QED
  BY <1>1, <1>3, <1>14, <1>15 DEF l

-----------------------------------------------------------------------------
(* The refinement.  The line of LineSpec is the normalised buffer while it *)
(* is edited or scanned, and empty otherwise.                              *)
EditedLine == IF Editing THEN Normal(cmd_buf, cmd_len) ELSE <<>>

LEMMA EditedLineIs ==
  (IF Editing
     THEN [k \in DOMAIN Line |-> IF Line[k] \in Separator THEN NUL ELSE Line[k]]
     ELSE <<>>) = EditedLine
  BY LineIsNormal DEF EditedLine

(* The keys. *)
LEMMA TypeStep ==
  ASSUME ConsoleInv, NEW c \in Char, Ordinary(c)
  PROVE  \/ /\ Len(EditedLine) < MaxCmdLen /\ UNCHANGED args
            /\ \E x \in Char : EditedLine' = Append(EditedLine, x)
         \/ UNCHANGED <<EditedLine, args>>
<1>1. /\ cmd_buf \in [0 .. MaxCmdLen -> Char] /\ cmd_len \in 0 .. MaxCmdLen
      /\ pc = "line" /\ pc' = "line" /\ Editing /\ Editing' /\ UNCHANGED args
  BY DEF ConsoleInv, TypeOK, Ordinary, Editing
<1>2. EditedLine = Normal(cmd_buf, cmd_len) /\ EditedLine' = Normal(cmd_buf', cmd_len')
  BY <1>1 DEF EditedLine
<1>3. CASE UNCHANGED <<cmd_buf, cmd_len>>
  BY <1>1, <1>2, <1>3
<1>4. CASE /\ cmd_len < MaxCmdLen
           /\ cmd_buf' = [cmd_buf EXCEPT ![cmd_len] = c]
           /\ cmd_len' = cmd_len + 1
  <2> DEFINE x == IF c \in Separator THEN NUL ELSE c
             l == Normal(cmd_buf, cmd_len)
             new == Normal(cmd_buf', cmd_len')
  <2>1. x \in Char /\ l \in Seq(Char) /\ Len(l) = cmd_len
    BY <1>1, NormalIs DEF Char
  <2>2. new = [k \in 1 .. cmd_len + 1 |-> IF k = cmd_len + 1 THEN x ELSE l[k]]
    <3>1. \A k \in 1 .. cmd_len + 1 :
            IF k = cmd_len + 1 THEN cmd_buf'[k - 1] = c
                               ELSE k \in 1 .. cmd_len /\ cmd_buf'[k - 1] = cmd_buf[k - 1]
      BY <1>1, <1>4
    <3> QED
      BY <1>4, <3>1 DEF Normal
  <2>3. new = Append(l, x)
    <3> HIDE DEF x, l, new
    <3>1. Append(l, x) = [k \in 1 .. cmd_len + 1 |-> IF k = cmd_len + 1 THEN x ELSE l[k]]
      BY <1>1, <2>1
    <3> QED
      BY <2>2, <3>1
  <2> HIDE DEF x
  <2> QED
    BY <1>1, <1>2, <1>4, <2>1, <2>3
<1> QED
  BY <1>3, <1>4 DEF Ordinary

LEMMA EraseStep ==
  ASSUME ConsoleInv, Backspace
  PROVE  \/ /\ EditedLine # <<>> /\ UNCHANGED args
            /\ EditedLine' = SubSeq(EditedLine, 1, Len(EditedLine) - 1)
         \/ UNCHANGED <<EditedLine, args>>
<1>1. /\ cmd_buf \in [0 .. MaxCmdLen -> Char] /\ cmd_len \in 0 .. MaxCmdLen
      /\ pc = "line" /\ pc' = "line" /\ Editing /\ Editing' /\ UNCHANGED args
  BY DEF ConsoleInv, TypeOK, Backspace, Editing
<1>2. EditedLine = Normal(cmd_buf, cmd_len) /\ EditedLine' = Normal(cmd_buf', cmd_len')
  BY <1>1 DEF EditedLine
<1>3. CASE UNCHANGED <<cmd_buf, cmd_len>>
  BY <1>1, <1>2, <1>3
<1>4. CASE /\ cmd_len > 0
           /\ cmd_buf' = [cmd_buf EXCEPT ![cmd_len - 1] = NUL]
           /\ cmd_len' = cmd_len - 1
  <2> DEFINE l == Normal(cmd_buf, cmd_len)
             new == Normal(cmd_buf', cmd_len')
  <2>1. l \in Seq(Char) /\ Len(l) = cmd_len
    BY <1>1, NormalIs
  <2>2. new = [k \in 1 .. cmd_len - 1 |-> l[k]]
    <3>1. \A k \in 1 .. cmd_len - 1 : k \in 1 .. cmd_len /\ cmd_buf'[k - 1] = cmd_buf[k - 1]
      BY <1>1, <1>4
    <3> QED
      BY <1>4, <3>1 DEF Normal
  <2>3. new = SubSeq(l, 1, Len(l) - 1) /\ l # <<>>
    <3> HIDE DEF l, new
    <3>1. SubSeq(l, 1, cmd_len - 1) = [k \in 1 .. cmd_len - 1 |-> l[k]]
      BY <1>1, <1>4, <2>1
    <3>2. l = <<>> => Len(l) = 0
      OBVIOUS
    <3> QED
      BY <1>1, <1>4, <2>1, <2>2, <3>1, <3>2
  <2> QED
    BY <1>1, <1>2, <2>3
<1> QED
  BY <1>3, <1>4 DEF Backspace

LEMMA EnterStep ==
  ASSUME ConsoleInv, EnterKey
  PROVE  UNCHANGED <<EditedLine, args>>
<1>1. /\ cmd_buf \in [0 .. MaxCmdLen -> Char] /\ cmd_len \in 0 .. MaxCmdLen
      /\ Editing /\ Editing' /\ UNCHANGED <<args, cmd_len>>
      /\ cmd_buf' = [cmd_buf EXCEPT ![cmd_len] = NUL]
  BY DEF ConsoleInv, TypeOK, EnterKey, Entered, Editing
<1>2. \A k \in 1 .. cmd_len : cmd_buf'[k - 1] = cmd_buf[k - 1]
  BY <1>1
<1>3. Normal(cmd_buf', cmd_len) = Normal(cmd_buf, cmd_len)
  BY <1>2 DEF Normal
<1> QED
  BY <1>1, <1>3 DEF EditedLine

LEMMA CancelStep ==
  ASSUME ConsoleInv, ControlC
  PROVE  EditedLine' = [k \in DOMAIN EditedLine |-> NUL] /\ UNCHANGED args
<1>1. /\ cmd_len \in 0 .. MaxCmdLen /\ Editing /\ Editing' /\ UNCHANGED <<args, cmd_len>>
      /\ cmd_buf' = Blank
  BY DEF ConsoleInv, TypeOK, ControlC, Entered, Editing
<1>2. \A k \in 1 .. cmd_len : k - 1 \in 0 .. MaxCmdLen /\ Blank[k - 1] = NUL
  BY <1>1 DEF Blank
<1>3. Normal(Blank, cmd_len) = [k \in 1 .. cmd_len |-> NUL]
  BY <1>2 DEF Normal
<1>4. DOMAIN Normal(cmd_buf, cmd_len) = 1 .. cmd_len
  BY DEF Normal
<1> QED
  BY <1>1, <1>3, <1>4 DEF EditedLine

LEMMA ScanStep ==
  ASSUME ConsoleInv, ScanByte
  PROVE  UNCHANGED <<EditedLine, args>>
<1>1. /\ cmd_buf \in [0 .. MaxCmdLen -> Char] /\ cmd_len \in 0 .. MaxCmdLen
      /\ Editing /\ Editing' /\ UNCHANGED <<args, cmd_len>> /\ scan.i \in 0 .. MaxCmdLen
      /\ \/ UNCHANGED cmd_buf
         \/ cmd_buf[scan.i] \in Separator /\ cmd_buf' = [cmd_buf EXCEPT ![scan.i] = NUL]
  BY SMTT(60) DEF ConsoleInv, TypeOK, ScanByte, Scanning, Editing
<1>2. \A k \in 1 .. cmd_len :
        \/ cmd_buf'[k - 1] = cmd_buf[k - 1]
        \/ cmd_buf'[k - 1] \in Separator /\ cmd_buf[k - 1] \in Separator
  BY <1>1 DEF Separator
<1>3. Normal(cmd_buf', cmd_len) = Normal(cmd_buf, cmd_len)
  BY <1>2 DEF Normal
<1> QED
  BY <1>1, <1>3 DEF EditedLine

(* Everything that leaves the line, and whether it is edited, as they are. *)
LEMMA OtherStep ==
  ASSUME ConsoleInv, UNCHANGED lineVars, Editing' = Editing
  PROVE  UNCHANGED <<EditedLine, args>>
  BY DEF EditedLine, lineVars

LEMMA NothingEdited ==
  /\ ~Editing => EditedLine = <<>>
  /\ cmd_len = 0 => EditedLine = <<>>
<1>1. cmd_len = 0 => Normal(cmd_buf, cmd_len) = <<>>
  BY DEF Normal
<1> QED
  BY <1>1 DEF EditedLine

LEMMA StepEdits ==
  ASSUME ConsoleInv, ParseInv, [Next]_vars
  PROVE  \/ UNCHANGED <<EditedLine, args>>
         \/ /\ Len(EditedLine) < MaxCmdLen /\ UNCHANGED args
            /\ \E x \in Char : EditedLine' = Append(EditedLine, x)
         \/ /\ EditedLine # <<>> /\ UNCHANGED args
            /\ EditedLine' = SubSeq(EditedLine, 1, Len(EditedLine) - 1)
         \/ EditedLine' = [k \in DOMAIN EditedLine |-> NUL] /\ UNCHANGED args
         \/ EditedLine' = <<>> /\ args' = Edited!FirstWords(EditedLine)
         \/ args' = <<>> /\ UNCHANGED EditedLine
         \/ EditedLine' = <<>> /\ args' = <<>>
<1>1. CASE UNCHANGED vars
  BY <1>1, OtherStep DEF vars, lineVars, Editing
<1>2. CASE (\E c \in Keys : TerminalSends(c)) \/ Transmit \/ PutChar \/ PutCR \/ PutLF
  BY <1>2, OtherStep DEF TerminalSends, Transmit, PutChar, PutCR, PutLF, Editing
<1>3. CASE EscapeKey \/ BinaryMode \/ ResetChip
  BY <1>3, OtherStep DEF EscapeKey, BinaryMode, ResetChip, Editing
<1>4. CASE Escape
  BY <1>4, OtherStep DEF Escape, Swallow, Reject, Editing
<1>5. CASE Prompt
  <2>1. pc = "prompt" /\ cmd_len' = 0 /\ args' = <<>>
    BY <1>5 DEF Prompt
  <2>2. EditedLine = <<>>
    BY <2>1, NothingEdited DEF Editing
  <2>3. EditedLine' = <<>>
    <3>1. Normal(cmd_buf', cmd_len') = <<>>
      BY <2>1 DEF Normal
    <3> QED
      BY <3>1 DEF EditedLine
  <2> QED
    BY <2>1, <2>2, <2>3
<1>6. CASE ChipResets
  <2>1. ~Editing' /\ args' = <<>>
    BY <1>6 DEF ChipResets, Editing
  <2> QED
    BY <2>1 DEF EditedLine
<1>7. CASE HandleCommand
  <2>1. Editing /\ ~Editing'
    BY <1>7 DEF HandleCommand, Editing
  <2>2. EditedLine = Normal(cmd_buf, cmd_len) /\ EditedLine' = <<>>
    BY <2>1 DEF EditedLine
  <2> QED
    BY <1>7, <2>2, CommandWords
<1>8. CASE \E c \in Char : Ordinary(c)
  BY <1>8, TypeStep
<1>9. CASE Backspace \/ EnterKey \/ ControlC \/ ScanByte
  BY <1>9, EraseStep, EnterStep, CancelStep, ScanStep
<1> QED
  BY <1>1, <1>2, <1>3, <1>4, <1>5, <1>6, <1>7, <1>8, <1>9 DEF Next, ConsoleStep

(* The console implements the line editor of LineSpec: a handler gets the   *)
(* first MaxArgs words of exactly the line that was edited.                *)
THEOREM LineRefinement == Spec => ImplementsLineSpec
<1>1. Init => Edited!Init
  <2> SUFFICES ASSUME Init PROVE Edited!Init
    OBVIOUS
  <2>1. ~Editing /\ args = <<>>
    BY DEF Init, Editing
  <2> QED
    BY <2>1 DEF Edited!Init
<1>2. ConsoleInv /\ ParseInv /\ [Next]_vars => [Edited!Next]_(Edited!vars)
  <2> SUFFICES ASSUME ConsoleInv, ParseInv, [Next]_vars
               PROVE  [Edited!Next]_(Edited!vars)
    OBVIOUS
  <2> DEFINE line == IF Editing
                       THEN [k \in DOMAIN Line |-> IF Line[k] \in Separator THEN NUL ELSE Line[k]]
                       ELSE <<>>
  <2>1. line = EditedLine
    BY EditedLineIs
  <2>2. line' = EditedLine'
    <3>1. DOMAIN Line' = 1 .. cmd_len' /\ \A k \in 1 .. cmd_len' : Line'[k] = cmd_buf'[k - 1]
      BY DEF Line
    <3> QED
      BY <3>1 DEF EditedLine, Normal
  <2> QED
    BY StepEdits, <2>1, <2>2 DEF Edited!Next, Edited!vars, Edited!Type, Edited!Erase,
       Edited!Cancel, Edited!Enter, Edited!Return, Edited!Restart
<1> QED
  BY <1>1, <1>2, ConsoleInvariance, ParseInvariance, PTL DEF Spec, ImplementsLineSpec, Edited!Spec
==============================================================================
