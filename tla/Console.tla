------------------------------ MODULE Console ------------------------------
(***************************************************************************)
(* The command line of the monitor firmware (monitor/main.c): the UART and *)
(* its FIFOs, putchar and getchar on top of them, the line editor of       *)
(* cmdloop, parse_cmdline, and the commands as far as the console sees     *)
(* them.  The terminal types, and the UART transmits, at any time.         *)
(*                                                                         *)
(* Text that a command prints is one character, TEXT, per print; what the  *)
(* memory commands and binary mode do to memory is not visible here.       *)
(***************************************************************************)
EXTENDS Naturals, Sequences

CONSTANTS
  MaxCmdLen,   \* MAX_CMD_LEN (80)
  MaxArgs,     \* MAX_ARGS (3)
  RxDepth,     \* bytes in the UART's receive FIFO
  TxDepth,     \* bytes in its transmit FIFO (16)
  TxReady,     \* free bytes putchar waits for (8)
  Drained,     \* free bytes reset_handler waits for (15)
  Keys,        \* the characters the terminal may send
  Table        \* cmd_table: a function from names to handlers

NUL == "nul"  SP == "sp"  TAB == "tab"  LF == "lf"  CR == "cr"
BS == "bs"    ESC == "esc"  ETX == "etx"  TEXT == "text"

Separator == {NUL, SP, TAB}
Control == {NUL, TAB, LF}
Arrows == {"A", "B", "C", "D"}
Paging == {"1", "2", "3", "4", "5", "6"}
Char == Keys \cup {NUL}

ASSUME LengthAssumption == MaxCmdLen \in Nat \ {0} /\ MaxArgs \in Nat \ {0}
ASSUME FifoAssumption ==
  /\ RxDepth \in Nat \ {0}
  /\ TxDepth \in Nat /\ TxReady \in 2 .. TxDepth /\ Drained \in 1 .. TxDepth
ASSUME TableAssumption ==
  \A name \in DOMAIN Table : Table[name] \in {"help", "print", "reset", "bmo"}

VARIABLES
  rx,        \* the receive FIFO
  tx,        \* the number of bytes in the transmit FIFO
  out,       \* what print and putchar still have to write
  crSent,    \* inside putchar('\n'), the '\r' is written
  pc,        \* where cmdloop, or the handler it called, is
  cmd_buf, cmd_len,
  scan,      \* the locals of parse_cmdline: i, argv and what it builds
  args,      \* argv as strings, while a handler runs
  modeNext,  \* CPU_MODE_NEXT.CODE_LOCATION
  screen     \* the terminal's current line

uartVars == <<rx, tx>>
putVars  == <<out, crSent>>
lineVars == <<cmd_buf, cmd_len, scan, args>>
vars     == <<uartVars, putVars, pc, lineVars, modeNext, screen>>

Pcs == {"prompt", "line", "esc", "csi", "ss3", "page", "parse", "bmo", "drain", "hung"}
Blank == [k \in 0 .. MaxCmdLen |-> NUL]

-----------------------------------------------------------------------------
(* The terminal.  Its line is followed from a prompt as long as only       *)
(* printable characters are echoed on it.                                  *)
NewLine == [known |-> TRUE, cells |-> <<>>, col |-> 0]
Garbled == [known |-> FALSE, cells |-> <<>>, col |-> 0]
Put(cells, k, c) ==
  [j \in 1 .. (IF k > Len(cells) THEN k ELSE Len(cells)) |-> IF j = k THEN c ELSE cells[j]]

Displayed(c) ==
  IF screen = Garbled THEN Garbled
  ELSE IF c = LF
    THEN [screen EXCEPT !.cells = [k \in 1 .. screen.col |-> SP]]
  ELSE IF c = CR THEN [screen EXCEPT !.col = 0]
  ELSE IF c = BS THEN [screen EXCEPT !.col = IF @ = 0 THEN 0 ELSE @ - 1]
  ELSE [screen EXCEPT !.cells = Put(@, screen.col + 1, c), !.col = @ + 1]

(* A byte that arrives while the receive FIFO is full is lost. *)
TerminalSends(c) ==
  /\ Len(rx) < RxDepth
  /\ rx' = Append(rx, c)
  /\ UNCHANGED <<tx, putVars, pc, lineVars, modeNext, screen>>

Transmit ==
  /\ tx > 0
  /\ tx' = tx - 1
  /\ UNCHANGED <<rx, putVars, pc, lineVars, modeNext, screen>>

-----------------------------------------------------------------------------
(* Mutant: putchar waits for one free byte. *)
TxSpace_OneByte == TxDepth - tx >= 1

(* putchar: wait for 8 free bytes; a '\n' first calls putchar('\r'), which *)
(* waits again, and is then written without another wait.                  *)
TxSpace == TxDepth - tx >= TxReady

WriteTHR(c) == tx' = tx + 1 /\ screen' = Displayed(c)

PutChar ==
  /\ out # <<>> /\ Head(out) # LF
  /\ TxSpace
  /\ WriteTHR(Head(out))
  /\ out' = Tail(out)
  /\ UNCHANGED <<rx, crSent, pc, lineVars, modeNext>>

PutCR ==
  /\ out # <<>> /\ Head(out) = LF /\ ~crSent
  /\ TxSpace
  /\ WriteTHR(CR)
  /\ crSent' = TRUE
  /\ UNCHANGED <<rx, out, pc, lineVars, modeNext>>

PutLF ==
  /\ out # <<>> /\ crSent
  /\ WriteTHR(LF)
  /\ out' = Tail(out)
  /\ crSent' = FALSE
  /\ UNCHANGED <<rx, pc, lineVars, modeNext>>

(* getchar, called once everything is printed. *)
Getchar(c) ==
  /\ out = <<>>
  /\ rx # <<>>
  /\ c = Head(rx)
  /\ rx' = Tail(rx)
  /\ UNCHANGED <<tx, crSent, modeNext>>

(* Characters that move the cursor in their own way: the terminal's line   *)
(* is not followed beyond them.                                            *)
Follow(s) ==
  screen' = IF \E k \in DOMAIN s : s[k] \in Control \cup {BS, ESC} THEN Garbled ELSE screen
Echo(s) == out' = s /\ Follow(s)

-----------------------------------------------------------------------------
(* cmdloop: the last command has returned; a prompt, an empty line ... *)
Prompt ==
  /\ pc = "prompt"
  /\ out = <<>>
  /\ out' = <<">", SP>>
  /\ cmd_buf' = Blank
  /\ cmd_len' = 0
  /\ pc' = "line"
  /\ screen' = IF screen = Garbled THEN NewLine ELSE screen
  /\ args' = <<>>
  /\ UNCHANGED <<uartVars, crSent, scan, modeNext>>

(* ... its keys ... *)
Entered(buf) ==
  /\ cmd_buf' = buf
  /\ out' = <<LF>>
  /\ pc' = "parse"
  /\ UNCHANGED <<cmd_len, scan, args, screen>>

EnterKey == pc = "line" /\ Getchar(CR) /\ Entered([cmd_buf EXCEPT ![cmd_len] = NUL])
ControlC == pc = "line" /\ Getchar(ETX) /\ Entered(Blank)

(* Mutants: the rubbed-out character stays in the buffer, or on the screen. *)
Backspace_KeepsByte ==
  /\ pc = "line" /\ Getchar(BS)
  /\ IF cmd_len > 0
       THEN out' = <<BS, SP, BS>> /\ cmd_len' = cmd_len - 1
       ELSE UNCHANGED <<out, cmd_len>>
  /\ UNCHANGED <<cmd_buf, pc, scan, args, screen>>

Backspace_KeepsEcho ==
  /\ pc = "line" /\ Getchar(BS)
  /\ IF cmd_len > 0
       THEN /\ out' = <<BS>>
            /\ cmd_len' = cmd_len - 1
            /\ cmd_buf' = [cmd_buf EXCEPT ![cmd_len - 1] = NUL]
       ELSE UNCHANGED <<out, cmd_len, cmd_buf>>
  /\ UNCHANGED <<pc, scan, args, screen>>

Backspace ==
  /\ pc = "line" /\ Getchar(BS)
  /\ IF cmd_len > 0
       THEN /\ out' = <<BS, SP, BS>>
            /\ cmd_len' = cmd_len - 1
            /\ cmd_buf' = [cmd_buf EXCEPT ![cmd_len - 1] = NUL]
       ELSE UNCHANGED <<out, cmd_len, cmd_buf>>
  /\ UNCHANGED <<pc, scan, args, screen>>

(* Mutant: a line may fill the whole buffer. *)
Ordinary_FillsBuffer(c) ==
  /\ pc = "line" /\ Getchar(c)
  /\ c \notin {ESC, CR, BS, ETX}
  /\ IF cmd_len <= MaxCmdLen
       THEN /\ Echo(<<c>>)
            /\ cmd_buf' = [cmd_buf EXCEPT ![cmd_len] = c]
            /\ cmd_len' = cmd_len + 1
       ELSE UNCHANGED <<out, screen, cmd_buf, cmd_len>>
  /\ UNCHANGED <<pc, scan, args>>

Ordinary(c) ==
  /\ pc = "line" /\ Getchar(c)
  /\ c \notin {ESC, CR, BS, ETX}
  /\ IF cmd_len < MaxCmdLen
       THEN /\ Echo(<<c>>)
            /\ cmd_buf' = [cmd_buf EXCEPT ![cmd_len] = c]
            /\ cmd_len' = cmd_len + 1
       ELSE UNCHANGED <<out, screen, cmd_buf, cmd_len>>
  /\ UNCHANGED <<pc, scan, args>>

(* ... and escape sequences: arrows, paging and End are swallowed, and     *)
(* anything else is echoed after "^[", without becoming part of the line.  *)
EscapeKey ==
  /\ pc = "line" /\ Getchar(ESC)
  /\ pc' = "esc"
  /\ UNCHANGED <<out, lineVars, screen>>

Swallow(from, set, to) ==
  /\ pc = from
  /\ \E c \in set : Getchar(c)
  /\ pc' = to
  /\ UNCHANGED <<out, lineVars, screen>>

Reject(from, known, prefix) ==
  /\ pc = from
  /\ \E c \in Char \ known : Getchar(c) /\ Echo(<<ESC>> \o prefix \o <<c>>)
  /\ pc' = "line"
  /\ UNCHANGED lineVars

Escape ==
  \/ Swallow("esc", {"["}, "csi")
  \/ Swallow("esc", {"O"}, "ss3")
  \/ Reject("esc", {"[", "O"}, <<>>)
  \/ Swallow("csi", Arrows, "line")
  \/ Swallow("csi", Paging, "page")
  \/ Reject("csi", Arrows \cup Paging, <<"[">>)
  \/ Swallow("page", Char, "line")
  \/ Swallow("ss3", {"F"}, "line")
  \/ Reject("ss3", {"F"}, <<"O">>)

-----------------------------------------------------------------------------
(* parse_cmdline: a scan over all MaxCmdLen + 1 bytes of the buffer,       *)
(* whatever the length of the line, that puts a NUL after each word and    *)
(* stops at MaxArgs words.  scan.open is argv[argc], None while not set.   *)
None == MaxCmdLen + 1
NoScan == [i |-> 0, argv |-> <<>>, open |-> None]
Scanning == scan.i <= MaxCmdLen /\ Len(scan.argv) # MaxArgs

(* Mutant: a word is not cut from the rest of the line. *)
ScanByte_Uncut ==
  /\ pc = "parse" /\ out = <<>>
  /\ Scanning
  /\ scan' = IF cmd_buf[scan.i] \in Separator
               THEN IF scan.open # None
                      THEN [i |-> scan.i + 1, argv |-> Append(scan.argv, scan.open), open |-> None]
                      ELSE [scan EXCEPT !.i = @ + 1]
               ELSE [scan EXCEPT !.i = @ + 1, !.open = IF @ = None THEN scan.i ELSE @]
  /\ UNCHANGED <<uartVars, putVars, pc, cmd_buf, cmd_len, args, modeNext, screen>>

ScanByte ==
  /\ pc = "parse" /\ out = <<>>
  /\ Scanning
  /\ \/ /\ cmd_buf[scan.i] \in Separator /\ scan.open # None
        /\ cmd_buf' = [cmd_buf EXCEPT ![scan.i] = NUL]
        /\ scan' = [i |-> scan.i + 1, argv |-> Append(scan.argv, scan.open), open |-> None]
     \/ /\ cmd_buf[scan.i] \notin Separator /\ scan.open = None
        /\ scan' = [scan EXCEPT !.i = @ + 1, !.open = scan.i]
        /\ UNCHANGED cmd_buf
     \/ /\ (cmd_buf[scan.i] \in Separator) = (scan.open = None)
        /\ scan' = [scan EXCEPT !.i = @ + 1]
        /\ UNCHANGED cmd_buf
  /\ UNCHANGED <<uartVars, putVars, pc, cmd_len, args, modeNext, screen>>

(* The string at offset p: the bytes up to the first NUL. *)
CString(buf, p) ==
  LET end == CHOOSE e \in p .. MaxCmdLen + 1 :
               /\ e = MaxCmdLen + 1 \/ buf[e] = NUL
               /\ \A k \in p .. e - 1 : buf[k] # NUL
  IN  [k \in 1 .. end - p |-> buf[p + k - 1]]

(* handle_command: the handler that the first word names.  What it prints: *)
(* help lists the table, print stands for version and the memory commands. *)
Handler(argv) ==
  IF argv = <<>> THEN "none"
  ELSE IF argv[1] \in DOMAIN Table THEN Table[argv[1]]
  ELSE "unknown"

Reply(handler, argv) ==
  CASE handler = "none"    -> <<>>
    [] handler = "unknown" -> <<TEXT>> \o argv[1] \o <<LF>>
    [] handler = "help"    -> <<TEXT, LF, TEXT, LF>>
    [] handler = "print"   -> <<TEXT, LF>>
    [] handler = "bmo"     -> <<TEXT, LF>>
    [] handler = "reset"   -> IF Len(argv) > 1 THEN <<TEXT, TEXT, TEXT, LF>>
                                              ELSE <<TEXT, TEXT, LF>>

HandleCommand ==
  /\ pc = "parse" /\ out = <<>>
  /\ ~Scanning
  /\ args' = [n \in DOMAIN scan.argv |-> CString(cmd_buf, scan.argv[n])]
  /\ LET handler == Handler(args')
     IN  /\ out' = Reply(handler, args')
         /\ Follow(IF handler = "unknown" THEN args'[1] ELSE <<>>)
         /\ pc' = CASE handler = "bmo"   -> "bmo"
                    [] handler = "reset" -> "drain"
                    [] OTHER             -> "prompt"
  /\ scan' = NoScan
  /\ UNCHANGED <<uartVars, crSent, cmd_buf, cmd_len, modeNext>>

(* bmo_handler, up to what its requests do: a byte is a request, or part   *)
(* of one, and may be answered with binary bytes; a '\r' that is not part  *)
(* of a request leaves binary mode.                                        *)
BinaryMode ==
  /\ pc = "bmo"
  /\ \E c \in Char :
       /\ Getchar(c)
       /\ \/ out' = <<>> /\ pc' = "bmo" /\ UNCHANGED screen
          \/ out' = <<TEXT>> /\ pc' = "bmo" /\ screen' = Garbled
          \/ c = CR /\ out' = <<>> /\ pc' = "prompt" /\ UNCHANGED screen
  /\ UNCHANGED lineVars

(* Mutant: the wait is for one byte more than the FIFO has. *)
ResetChip_OneMore ==
  /\ pc = "drain"
  /\ out = <<>>
  /\ TxDepth - tx > TxDepth
  /\ pc' = "hung"
  /\ UNCHANGED <<uartVars, putVars, lineVars, modeNext, screen>>

(* reset_handler: "wait for the UART to finish printing", trigger the      *)
(* reset, and loop until the chip resets and boots the monitor again.      *)
ResetChip ==
  /\ pc = "drain"
  /\ out = <<>>
  /\ TxDepth - tx >= Drained
  /\ pc' = "hung"
  /\ modeNext' = IF Len(args) > 1 THEN "rom" ELSE modeNext
  /\ UNCHANGED <<uartVars, putVars, lineVars, screen>>

(* main: init clears the FIFOs, and the banner comes before the first      *)
(* prompt.  The monitor runs from CODE RAM, reloaded from flash or not.    *)
Banner == <<LF, TEXT, LF, TEXT, TEXT, TEXT, TEXT, TEXT, LF>>

Init ==
  /\ rx = <<>> /\ tx = 0
  /\ out = Banner /\ crSent = FALSE
  /\ pc = "prompt"
  /\ cmd_buf = Blank /\ cmd_len = 0 /\ scan = NoScan /\ args = <<>>
  /\ modeNext = "ram"
  /\ screen = NewLine

ChipResets ==
  /\ pc = "hung"
  /\ rx' = <<>> /\ tx' = 0
  /\ out' = Banner /\ crSent' = FALSE
  /\ pc' = "prompt"
  /\ cmd_buf' = Blank /\ cmd_len' = 0 /\ scan' = NoScan /\ args' = <<>>
  /\ modeNext' = "ram"
  /\ screen' = NewLine

ConsoleStep ==
  \/ PutChar \/ PutCR \/ PutLF
  \/ Prompt \/ EnterKey \/ ControlC \/ Backspace \/ EscapeKey \/ Escape
  \/ \E c \in Char : Ordinary(c)
  \/ ScanByte \/ HandleCommand \/ BinaryMode \/ ResetChip

Next ==
  \/ \E c \in Keys : TerminalSends(c)
  \/ Transmit
  \/ ConsoleStep
  \/ ChipResets

Spec == Init /\ [][Next]_vars

(* The UART transmits and the 8051 executes; nobody has to type, and the   *)
(* chip is not trusted to come back from a reset.                          *)
FairSpec == Spec /\ WF_vars(Transmit) /\ WF_vars(ConsoleStep)

-----------------------------------------------------------------------------
(* Every variable has its type. *)
Printed == Char \cup {">", TEXT, LF, SP, BS, ESC, "[", "O"}

TypeOK ==
  /\ rx \in Seq(Char) /\ Len(rx) <= RxDepth
  /\ tx \in Nat
  /\ out \in Seq(Printed)
  /\ crSent \in BOOLEAN
  /\ pc \in Pcs
  /\ cmd_buf \in [0 .. MaxCmdLen -> Char]
  /\ cmd_len \in 0 .. MaxCmdLen
  /\ scan \in [i : 0 .. MaxCmdLen + 1, argv : Seq(0 .. MaxCmdLen), open : 0 .. None]
  /\ Len(scan.argv) <= MaxArgs
  /\ args \in Seq(Seq(Char)) /\ Len(args) <= MaxArgs
  /\ modeNext \in {"rom", "ram"}

(* No byte is ever written into a full transmit FIFO, although the '\n'    *)
(* that putchar writes after its own '\r' is written without waiting.      *)
TxNeverOverflows == tx <= TxDepth

(* The buffer is all NUL from the cursor on, whatever was typed, rubbed     *)
(* out or cancelled before: parse_cmdline reads those bytes too, and the    *)
(* last of them ends the last word of a full line.                          *)
BufferTail == \A k \in cmd_len .. MaxCmdLen : cmd_buf[k] = NUL

(* The inductive invariant of the two: a '\n' that follows its '\r' still   *)
(* has a free byte.                                                         *)
ConsoleInv ==
  /\ TypeOK
  /\ TxNeverOverflows
  /\ BufferTail
  /\ crSent => out # <<>> /\ Head(out) = LF /\ tx < TxDepth

(* What the user sees behind the prompt is the line that Enter will run:    *)
(* the echoes of typing, of rubbing out and of a full line agree with the   *)
(* buffer.                                                                  *)
Line == [k \in 1 .. cmd_len |-> cmd_buf[k - 1]]

EchoMatches ==
  pc = "line" /\ out = <<>> /\ screen.known =>
    LET shown == <<">", SP>> \o Line
    IN  /\ screen.col = Len(shown)
        /\ SubSeq(screen.cells, 1, screen.col) = shown
        /\ \A k \in screen.col + 1 .. Len(screen.cells) : screen.cells[k] = SP

(* Its inductive invariant.  While a line is edited the screen shows it up  *)
(* to the echo that is still in out; at any other time what is still in    *)
(* out ends the terminal's line, or nothing is on it.                      *)
Shown(j) == IF j = 1 THEN ">" ELSE IF j = 2 THEN SP ELSE cmd_buf[j - 3]

(* The first n cells are those of the prompt and the line, the ones from   *)
(* free on are blank.                                                      *)
Displays(n, col, free) ==
  /\ screen.col = col /\ n <= Len(screen.cells)
  /\ \A j \in 1 .. n : screen.cells[j] = Shown(j)
  /\ \A j \in free .. Len(screen.cells) : screen.cells[j] = SP

Plain == Shown(cmd_len + 2) \notin Control \cup {BS, CR}

EchoPending ==
  \/ out = <<>>              /\ Displays(cmd_len + 2, cmd_len + 2, cmd_len + 3)
  \/ out = <<">", SP>>       /\ cmd_len = 0 /\ Displays(0, 0, 1)
  \/ out = <<Shown(cmd_len + 2)>> /\ Plain
                             /\ Displays(cmd_len + 1, cmd_len + 1, cmd_len + 2)
  \/ out = <<BS, SP, BS>>    /\ Displays(cmd_len + 2, cmd_len + 3, cmd_len + 4)
  \/ out = <<SP, BS>>        /\ Displays(cmd_len + 2, cmd_len + 2, cmd_len + 4)
  \/ out = <<BS>>            /\ Displays(cmd_len + 2, cmd_len + 3, cmd_len + 3)

AtKeys == pc \in {"line", "esc", "csi", "ss3", "page"}

ScreenInv ==
  /\ screen \in [known : BOOLEAN, cells : Seq(Printed), col : Nat]
  /\ screen.col <= Len(screen.cells)
  /\ ~screen.known => screen = Garbled

EchoInv ==
  /\ ScreenInv
  /\ screen.known /\ crSent => screen.col = 0
  /\ screen.known /\ AtKeys => EchoPending
  /\ screen.known /\ ~AtKeys => IF out = <<>> THEN screen = NewLine ELSE out[Len(out)] = LF

(* A handler gets the first MaxArgs words of the line as it was edited:     *)
(* the scan of a fixed-size buffer, words cut by NULs, a full line, keys    *)
(* that are swallowed and lines that are cancelled included.  Any character *)
(* that separates words is a Gap.                                           *)
Editing == pc \in {"line", "esc", "csi", "ss3", "page", "parse"}
Edited == INSTANCE LineSpec WITH
  Gap    <- NUL,
  MaxLen <- MaxCmdLen,
  line   <- IF Editing
              THEN [k \in DOMAIN Line |-> IF Line[k] \in Separator THEN NUL ELSE Line[k]]
              ELSE <<>>
ImplementsLineSpec == Edited!Spec

(* How far the scan is: the words that start before scan.i are in argv, in *)
(* order and each cut off, but for the last one when it has not ended.      *)
WordStarts(buf) ==
  {p \in 0 .. MaxCmdLen : buf[p] \notin Separator /\ (p = 0 \/ buf[p - 1] \in Separator)}

Solid(buf, p, e) == \A j \in p .. e - 1 : buf[j] \notin Separator

(* The word that starts at p is followed by a NUL in front of i. *)
CutWord(buf, p, i) == \E e \in p + 1 .. i - 1 : buf[e] = NUL /\ Solid(buf, p, e)

InOrder(argv) == \A m, n \in DOMAIN argv : m < n => argv[m] < argv[n]

(* What the locals say of the buffer. *)
Parsed(buf, i, argv, open) ==
  /\ \A n \in DOMAIN argv : argv[n] \in WordStarts(buf) /\ CutWord(buf, argv[n], i)
  /\ InOrder(argv)
  /\ \A p \in WordStarts(buf) : p < i => p = open \/ \E n \in DOMAIN argv : p = argv[n]
  /\ IF open = None
       THEN i = 0 \/ buf[i - 1] \in Separator
       ELSE /\ open \in WordStarts(buf) /\ open < i /\ Solid(buf, open, i)
            /\ \A n \in DOMAIN argv : argv[n] < open

ParseInv ==
  /\ pc # "parse" => scan = NoScan
  /\ Parsed(cmd_buf, scan.i, scan.argv, scan.open)

(* A line that was entered comes back to a prompt with everything printed,  *)
(* or ends in binary mode or in a reset: no wait for FIFO space lasts.      *)
CommandEnds ==
  (pc = "parse") ~> (pc = "line" /\ out = <<>>) \/ pc \in {"bmo", "hung"}

=============================================================================
