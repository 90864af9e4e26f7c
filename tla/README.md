# TLA+ models of asmedia-xhc-re

Specifications, model checks and proofs for the parts of this repository that
keep state: the host tools that load and inspect ASMedia USB 3 host controllers
(`tools/`) and the monitor firmware that runs on their 8051 (`monitor/`).
Line numbers are those of the sources; `PROJECT.json` maps every definition to
the lines it stands for.

## 1. The system

| component | state | operations | interacts with |
|---|---|---|---|
| **Firmware loading**: `AsmDev.hw_code_write`, `hw_code_load_exec` (`tools/asm_tool.py`), `load_fw.py`, `bug_demo.py` | loop counters and buffers of one call; on the chip CODE RAM, `CODE_RAM_ADDR`, the posted data word, the latched read data, the write enable, `CODE_ACCESS`, `CPU_MODE_*`, `CPU_EXEC_CTRL` | halt, open, write loop, readback loop, assert, close, choose boot mode, release | the chip through PCI configuration space and BAR0; the 8051, which may store into CODE RAM, choose a boot mode and reset itself; other runs of the tools through the state the chip keeps |
| **MMIO window**: `hw_mmio_reg_read`, `hw_mmio_reg_write` | the byte being accessed; address, write-data and latched read-data registers, busy bit | read, write, confirmed write of 1, 2 or 4 bytes | used by loading; races with the 8051 on the same registers |
| **Monitor console**: `cmdloop`, `parse_cmdline`, `putchar`, `getchar`, `handle_command`, `reset_handler` (`monitor/main.c`) | line buffer and length, scan position, argv, UART FIFOs | a key, an escape sequence, Enter, a command, reset | a terminal that types at any time, a UART that transmits at its own pace |
| **Monitor memory**: `readb` .. `writel`, `mr*`/`mw*`, `bmo_handler`, `get_sfr`, `set_sfr` | `DPX`, `PCON.MEMSEL`, four memories and the SFRs; the request being received | read, write, binary requests | the console, which uses the same accessors for the UART |
| **Monitor start-up**: `init`, `get_chip_type`, `vectors.S` | register bases | once per boot | console |
| **PCI access**: `PciDev` | open files, the mapping of BAR0 | read, write, confirmed write, unbind | all host tools |
| **Image tools**: `make_image.py`, `validate_fw.py`, `*.ksy` | none; the files they leave | stamp and build, parse, check, extract | each other through the image; the boot ROM, which performs the writes in a header and loads the code behind it |
| **Extraction**: `extract_promontory_fw.py`, `validate_brom.py` | a scan offset | find, check, write | `validate_fw.py`, which reads what the scan writes |
| **Trace**: `asmedia-xhc-trace` | how it reaches the device, samples taken | detect a driver, unbind, open, set and clear the reset flag, sample | the chip, which keeps the reset flag; the system, which binds drivers |
| **Documentation**: `generate_docs.py`, `generate_labels.py` | none | bit tables, labels | YAML files |
| **Ghidra helper** | none | backward walks over instructions | the Ghidra program |

What is hard: the host, the chip's window and the 8051 are three concurrent
actors on the same memory, the window is *posted* (it acts after the host's
write has returned), a tool may be killed anywhere and the chip remembers; the
console interleaves with a terminal and a transmitter; lines, images and banks
have boundaries where tests are rare. There are no tests in the repository.

What makes each part correct: the 8051 never executes an incomplete image and
never runs under the loader's hands; every polling loop ends; an MMIO read is a
recent and untorn value; the command that runs is the line the user sees, and
nothing of an earlier one; no byte is written into a full FIFO; what one tool
makes another reads as the same thing, and a damaged file is not read as a
different one; a scan ends and misses nothing; a trace does not leave the chip
in reset.
`PROJECT.json` lists these as hazards, at their lines, with the properties that
cover them and the ones nothing covers yet.

## 2. Modules

```
LoadSpec  <--refines--  FwLoader  EXTENDS HwCodeWrite      MmioSpec <--refines-- MmioWindow
                           |                                LineSpec <--refines-- Console
                       FwLoaderInv -- FwLoaderProofs        MemServer <--refines-- Bmo
                           |
                       MCFwLoader    MCHwCodeWrite   MCMmioWindow   MCConsole   MCBmo   MCMonitorMem

MmioWindow -- MmioProofs     Console -- ConsoleProofs

Lemmas <--+-- BmoProofs --------> Bmo
          +-- MonitorMemProofs -> MonitorMem
          +-- ImageProofs ------> FwImage
          +-- HostProofs -------> HostTools, ImageProofs

FwImage <-- DumpTools <--+
             BitTable <--+-- HostTools -- MCHostTools
            TraceTool <--+
```

**HwCodeWrite** is one call of `hw_code_write` and the chip's CODE RAM window.
`wpc` is the statement the call is at, one action per transaction: `WriteAddr`
(300, 282), `WriteData` (301, 283), `WriteWait` (the poll at 302, 284 together
with the loop increment), `ReadAddr`/`ReadTrigger`/`ReadData` for the readback,
and the actions that open and close the window. `DeviceStore` is the chip: it
takes the posted word, stores both lanes or latches the four read lanes, and
moves `CODE_RAM_ADDR`. Addresses count 16-bit words and `Q` is the number of
words in a 16 KiB bank, so that `2Q`, `4Q` and `6Q` are the 32 KiB, 64 KiB and
96 KiB of the code; `Masked`, `NextWrite`, `NextRead` are its bit operations on
such offsets.

**FwLoader** adds `hw_code_load_exec`, the two tools, interruption (`Interrupt`,
a process that is gone) and the 8051 (`CpuStoresCode`, `CpuSetsMode`,
`CpuResets`, whenever it is not held in reset). `CpuEdge` says what leaving
reset does: the boot mode is latched and `booted` records what it started on,
the whole image or `Corrupt`. **LoadSpec** is what the documentation promises:
stop, start on a complete image, reboot by itself. **FwLoaderInv** is the
inductive invariant.

**MmioWindow** takes one register access apart into address, latch, store and
polling of the busy bit; on generation 1 the sleeps of 0.1 ms are waits for the
same condition. `parked` says whether the 8051 may change registers. **MmioSpec**
is the abstract access: a sequence of atomic byte reads or writes and, for a
confirmed write, reads until the value is seen.

**Console** is `cmdloop` with `putchar`/`getchar` under it. Whatever is to be
printed is in `out`; `PutChar`, `PutCR`, `PutLF` write it byte by byte when the
FIFO has the space that `putchar` waits for, and every other step waits until it
is empty, as the code does. `Escape` has one disjunct per case of the nested
switch; `ScanByte` is an iteration of `parse_cmdline`; `HandleCommand` its end
and the dispatch. Help, version and the memory commands are printers here; a
request of binary mode is a byte that may be answered. `screen` follows the
terminal's line for `EchoMatches`. **LineSpec** is the abstract editor: a stack
of characters, and commands that get the first three words of it.

**Bmo** is binary mode with both ends of the serial line. The handler's loops
are actions of one byte: `AddrByte`, `LenByte`, `WriteByte`, and `ReadByte`
followed by `PutByte`, because the byte is fetched before `putbyte` waits for
space. At the other end is a program with up to `Ahead` unanswered requests
(`bmo.py`, which the repository names and does not contain), or a user who types
anything and then only Enter. A byte is a digit of base `Base`, an address has
`AddrBytes` of them; which cell of memory an address selects is a constant. So is
`Fatal`: the handler runs on the memory that it gives access to, and a write that
sets MEMSEL in `PCON`, or goes over its stack, variables or UART, leaves it
`"lost"`. The model ends there. It is for good: with MEMSEL set `getchar` reads the
same bytes of CODE RAM for ever.
**MemServer** is the abstract memory: requests in order, each byte at an instant.

**MonitorMem** is the `mr*` and `mw*` commands on the accessors `readb` ..
`writel`. `ParseHex` and `PrintHex` are the conversions, digit by digit; `Region`
and `Bank` take an address apart, `Pointed` says which location a pointer reaches
under the `DPX` and `PCON` in memory (the compiler and the core, external), and
`Read` and `Write` are the accessors with the context they set and restore. A
handler is `Command`, `ParseAddress`, `ReadAndPrint` and, for a write,
`ParseValue`, `WriteMemory` and `ReadAndPrint` again. All memories are one
function `mem` from locations to bytes; the SFRs are in it, so that a command may
write `DPX` and `PCON`. `shown` is what has been printed.

**FwImage** is the image formats as their writer and their readers see them.
`gen_header`, `gen_body` and `add_fw_meta` are `make_image.py`; `HeaderLen` ..
`XhcCode` are where the parser generated from `asm_fw.ksy` finds the parts, and
`XhcAccepts` is `validate_fw.xhc` with everything that makes the parser raise
before it; `PromAccepts` is the same for Promontory images. `RomRuns` is what
the ROM does with the writes in a header. A file is a sequence of cells, one per
byte but one only for a magic string; 16 and 32 bit fields have two and four
cells, so that offsets are computed and fields overflow as in the code. `Total`,
the sum of the bytes, is a function of the two ends of a part of the file, halved
until it is one byte, so that long files are within TLC's reach.
**DumpTools** is the scan of `extract_promontory_fw.py` (`Candidate` are its
three conditions, `Wanted` its checksum, `NextOffset` where it goes on) and
`validate_brom.py`. **BitTable** is the table `generate_docs.py` draws for a
register: `Part` cuts a field at the blocks, `bit_spans` is the dictionary of
that name, `Table` the rows; `IsRegister` says what the descriptions in `data/`
are like. **TraceTool** is `asmedia-xhc-trace`, one action
per operation on the device, any of which may fail or be the last before an
interruption (`Fail`); it may be run again on the device as it was left.

**HostTools** composes the four. A session is at one `desk`, which is chosen
once and keeps the state spaces apart: tools that work on the same file meet
there (`MakeBinary`, `MakeImage`, `Validate`), and `Harm` may come between them,
one changed byte or a file cut short. The scan and the trace, which loop, take a
step per turn (`ScanStep`, `TraceRuns`); the others are one step each, because
they read a whole file before they write one.

## 3. What is checked

| run | instance | what it shows |
|---|---|---|
| `gen1` | `MCFwLoader`, generation 1, Q = 2, images of 0, 3, 5, 8 (full) and 9 (too long) words, the demo's loop | types, `HeldWhileLoading`, `WindowClosedWhileRunning`, `NoCorruptBoot`, the refinement of `LoadSpec`, `ToolEnds` |
| `gen2` | generation 2, Q = 2, images of 10 and 5 words (a third bank half filled, an odd bank partly filled) and one of 13 (too long) | `LoaderInv`, `ReadbackMatches` and the liveness with the four-bank readback; the other safety properties follow from `LoaderInv` (section 4) and are checked in `gen1` |
| `mmio` | three registers, two byte values, accesses of one and two bytes everywhere, also across the end of the space | `IdleAtAddress`, `ReadIsRecent`, `WholeValue`, `AccessEnds`, the refinement of `MmioSpec` |
| `console` | a buffer of 5 characters, 2 words, FIFOs of 1 and 4 bytes | `TxNeverOverflows`, `BufferTail`, `EchoMatches`, the refinement of `LineSpec`, `CommandEnds` |
| `keys` | a buffer of 2, all kinds of control and escape keys | the refinement of `LineSpec` |
| `bmo` | bytes 0..4 (each also a command), addresses of two bytes, words of two, a volatile read-only cell, two requests ahead, FIFOs of 2 and 3 | `InStep`, the refinement of `MemServer`, `Served` |
| `enter` | bytes 0..5, all of them typed in any order before; addresses of one byte, of which the upper half are SFRs by their low digit, `PCON` among them | `EnterLeaves`: Enter gets out, unless what was typed has set MEMSEL |
| `memory` | bytes of one digit in base 4, two banks of four bytes, pages of four, four SFRs; any two commands | `ChangesOnlyNamed`, `ShowsWhatItWrote`, `Undoable`, `TypedBack` |
| `tools` | bytes of 16 values; 6 binaries, all chips; 4 Promontory images; about 75 dumps; 8 boot ROM files; registers of 1, 2, 4 and 8 bytes in blocks of 4 bits with every choice of up to two fields; traces of two samples, run twice | `MadeValidates`, `NoDamageAccepted`, `BypassLoadsCode`, `NothingMissed`, `CellsUnderBits`, `ResetReleased`, `ToolsEnd` |
| `prom` | the same, a violation | `ValidImagesExtracted` does not hold: see below |
| `demo` | a violation | `DemoReloads` does not hold: see below |
| `addr` | a violation | `WrittenAtAddr` does not hold: see below |

Bounds. Q = 2 words makes every bank boundary a place where an offset is inside,
at, and past it; lengths on both sides of each take every branch of `NextWrite`,
`NextRead` and `Unpacked`. The words of an image are all different and differ
from what the 8051 stores, so a word at the wrong address is always seen. The
window and the loops do not depend on Q, which the proofs leave free. Two images
and the demo's are enough to load over one another. One access at a time is all
that a Python process makes. The console's line is bounded by its own buffer: 5
characters hold three words and a full line; the two depths of FIFO are the
smallest where `putchar`'s check for space and the extra `\n` matter. All waits
are for conditions, so nothing counts without bound; no bound is in a guard.

In `bmo` two bytes make an address or a length as four do, with a carry between
them, reads and writes run over the top of the address space, and a length of 0
occurs; two requests ahead are one being served and one arriving.

In `memory` every region and bank occurs, with accesses that start at and before
the end of a bank or page; a word has as many digits as `parse_hex` takes, as on
the chip. Two commands are an SFR write that sets `DPX` or MEMSEL and an access
under it. `MaxRuns` bounds their number, in the guard of `Command`.

In `tools` the binaries are too short for a version, too short to be stamped,
whole, ending in zeros, longer than `DATA_LEN` and of the first length that
overflows 16 bits. The dumps have an image between every pair of a bare magic, a
truncated header, a length that is too small or too large and a candidate with a
wrong sum, and an image inside the claimed length of one. Every cell of every
image is changed by 1, 8 and -1, and every shorter file occurs; the CRC is a
weighted sum that notices any change of one byte and has no collision among the
other inputs of the run. Block boundaries are crossed by fields of every length.
`Runs` bounds the traces, in the guard of `StartTrace`.

Fairness. `FwLoader`: the tool that runs takes its next step and the window
stores what it was given; nobody must start a tool or interrupt one, and the
8051 owes nothing. `MmioWindow`: the host polls, the chip latches and stores.
`Console`: the UART transmits and the 8051 executes; nobody must type, and the
chip is not trusted to come back from a reset (`ChipResets` is not fair). `Bmo`:
the 8051 and the UART run, a program finishes the request it has begun to send,
and a user who has decided to press only Enter goes on pressing it. `HostTools`:
a scan or a trace that runs takes its next step, and the user owes nothing. Weak
fairness is what a running process and a clocked device give.

Deadlock checking is off: all tools may be idle, a monitor in reset waits
for a chip that need not come back, `MonitorMem` stops after `MaxRuns` commands,
and a session of `HostTools` is over when its tool is done.

### Where code and text disagree

* `demo`: `bug_demo.py` ends, under the comments "Reload firmware from flash."
  and "Reset the CPU." (78, 83), by writing 2 to `CPU_EXEC_CTRL`. That is HALT:
  the 8051 stays in reset, and the boot mode chosen before is never latched.
* `addr`: `hw_code_write` accepts every even address up to 0xFFFE (247), but on
  generation 2 its lanes and masks are right for 0 only: bit 15 of `addr + i` is
  dropped, and the readback drops it as well, so that it compares equal. No tool
  here passes anything but 0.
* `prom`: the extractor sums `fw_image[12 : length & 0xFFFFFF00]` (59): the last
  12 bytes of the firmware are missing, where `prom_fw.ksy` (21) has "32-bit sum
  of all the bytes in body.firmware." and `validate_fw.py` checks that. It goes
  unnoticed as long as the firmware is padded with zeros; an image that is not is
  valid and not extracted. With `-i` it is extracted.
* `asmedia-xhc-trace --reset`, "Trigger a device reset before tracing" (96), does
  nothing when the samples are read from BAR0, which is whenever no driver is
  bound (216 is in the other branch). `OpenDevice` has it so; there is no run for
  it.
* `monitor/README.md` (116): "If you accidentally run this command and enter binary
  mode, press "Enter" to exit it". So it is when one presses it often enough
  (`EnterLeaves`), but not after `w` or `W` and a few more keys. Their ASCII makes an
  address above 0xC00000, what follows is written to SFRs (142, 812), `PCON` is not
  protected (`gen_sfr_c.py`, 45), and a key with bit 4 set there sets MEMSEL.
  `Bmo` has such writes (`Fatal`), and `EnterLeaves` makes an exception for them;
  there is no run for the unconditional claim.
* Also seen, and not a disagreement: code beyond 32 KiB in an image with the
  signature bypass is not loaded (`BypassLoadsCode` has the condition); a ROM file
  shorter than 64 KiB whose CRC is wrong ends `validate_brom.py` with `struct.error`
  (62) instead of its message; registers of 3, 5, 6 or 7 bytes, which no
  description has, would get rows with shifted cells.

## 4. What is proved

For every value of the constants that satisfies the named assumptions.

**FwLoaderProofs.** `Invariance` proves `Spec => []LoaderInv`; `TypeCorrect`,
`Held8051`, `WindowClosed`, `ReadbackCorrect` and `CompleteImage` follow, and
`Refinement` proves `Spec => Abstract!Spec`. None of the properties is inductive
alone. That the 8051 starts on a whole image needs to know, in the middle of the
write loop, which words are already stored (`LoaderInv` has the set of words the
loop has covered, two banks at a time, and the posted word with the address it
is for); that nothing disturbs them needs that the 8051 is held, which in turn
depends on where the tool is; that an interrupted tool leaves nothing behind
that runs needs the relation of window, `CODE_ACCESS` and HALT when no tool is
there. For the readback it also needs which words the read loop has taken, four
banks at a time. Assumptions: `GenAssumption`, `QAssumption`, `WordAssumption`,
`ImagesAssumption`, `CpuStoreAssumption`, `ParkAssumption`, `BootedAssumption`.

**ConsoleProofs.** `ConsoleInvariance` proves `Spec => []ConsoleInv` for every
buffer length, number of words, FIFO depth and command table; `ConsoleTypes`,
`FifoSafe` and `TailClean` follow. `TxNeverOverflows` is not inductive: it needs
that a `\n` whose `\r` was just written still finds a byte, which is what a check
for two or more free bytes gives (`TxReady >= 2`; the code has 8). Assumptions:
`LengthAssumption`, `FifoAssumption`, `TableAssumption`.
`EchoInvariance` and `EchoCorrect` prove `EchoMatches`. That the terminal shows
the line is true only when nothing is left to transmit; `EchoInv` says at every
moment what the screen, the bytes in the transmit FIFO and those still to be put
amount to together, with an erasure (`\b`, space, `\b`) at each of its three
bytes, a `\r` that `putchar` has already sent for its `\n`, and the help page or
prompt that replaces the line.
`LineRefinement` proves `Spec => Edited!Spec`. All its steps but one are plain
once the buffer is read with every separator as a gap; the one is
`HandleCommand`, where the words that the code has cut off one by one have to be
the ones `LineSpec` chooses by counting starts. `ParseInv` says how far the scan
is: the starts before `scan.i` are in `argv`, in order, each followed by its NUL,
but for a last word that has not ended (`ParseInvariance`, by the three branches
of a turn: `WordEnds`, `WordBegins`, `WordGoesOn`). `NthIs` and `WordIs` then find
the words, and at the end of the scan either the whole buffer has been read, whose
last byte is NUL, or `argv` is full.

**MmioProofs.** `MmioInvariance` proves `Spec => []MmioInv` for every size of the
register space, every set of bytes and every set of accesses, in both
generations; `MmioTypes`, `NoStoreRedirected`, `ReadsRecent` and `ReadsWhole`
follow. `MmioInv` says which latch or store the device owes at each statement of
a call (`DeviceInv`), that what it has latched, and the bytes gathered before,
are among the values those registers have had since the call began (`SeenInv`),
and that with the 8051 parked the bytes done so far are in their registers still
(`ParkedInv`), which makes a value whole. `WindowRefinement` proves
`Spec => Abstract!Spec`: of the steps of a call only the device's latch of a read
and its store of a write are visible. Assumptions: `GenAssumption`,
`SizeAssumption`, `ByteAssumption`, `RequestAssumption`.

**BmoProofs.** `WidthInv`, which `BmoTypes` rests on, holds whatever arrives on
the line: the numbers built from its bytes stay below `Base ^ AddrBytes`, the
index below the number of digits and neither FIFO is overfull. `BmoInStep` and
`BmoRefinement` are about a program alone on the line, and have `Stray = {}` as
their hypothesis for that reason: bytes typed before the program began are taken
for a request, and nothing can be in step after them. The program's requests
write nothing of `Fatal` (in `RequestAssumption`): the promise is one about memory
other than the monitor's own. `WrittenIs` is what this rests on: every byte goes to
the cell it was meant for, so that a harmless request stays harmless. `BmoInv` relates what
the handler has consumed of the first request to its locals (the high digits of
address or length are those digits of the request) and says that the receive
FIFO followed by what is still to be sent is the rest of that request followed by
the others. It is what makes `InStep` inductive, and it is the whole of the
refinement: a byte that `ReadByte` fetches is the one at the address of the
request, at the instant at which it fetches it. Assumptions: `WidthAssumption`,
`PowerAssumption`, `CommandAssumption` (the five command bytes differ),
`CellAssumption`, `FifoAssumption`, `RequestAssumption`, `AheadAssumption`.

**MonitorMemProofs.** `MemInvariance` proves `Spec => []MemInv` for every base,
every width, every size of banks, pages and SFR space, every set of commands and
all contents of memory. `FlowInv` says how far a command is from what it has
printed, and `EffectInv` what memory and the printed numbers are in terms of
memory before the command: it is needed because each property compares the end
of a command with its beginning, five steps earlier. The rest are facts about the
accessors. `WriteIs` is what a write of 1, 2 or 4 bytes does to every location:
the bytes of the number at the named place, unless the place is an SFR that is
protected, and `DPX` and `PCON` as before, however the address wraps;
`ReadIs` is what a read returns, and `WriteThenRead` and `WriteBack` put them
together for all five regions. `ReadIsSum`, `ParseHexIs` and `PrintHexIs` say that
bytes and digits are the base-b expansion of a number, from which `PrintedIsTyped`
follows. Assumptions: `ScaleAssumption` (a bank, a page and the SFR space hold
four bytes or more, the memories fill the address space evenly), `SfrAssumption`
(`DPX` and `PCON` are SFRs that can be written), `PowerAssumption`,
`LineAssumption`, `ContentsAssumption`.

**Lemmas** has what these and HostProofs need of numbers: base-b digits,
division, clearing and setting one bit, sums with remainders; and of sequences:
what a join, a part or `FlattenSeq` of equally long parts holds at each place.
The provers know nothing of `^` on unknown numbers, so that each `PowerAssumption`
states its two equations for the exponents in use; TLC evaluates them for the
instances. Induction is by the least counterexample (`LeastNat`), since the
library's induction theorems have an operator parameter; so are the facts about
`FlattenSeq` and `upTo[n]`, whose recursive functions are first shown to exist
(`FlatExists`, `RecursionExists`) before `CHOOSE` gives them.

**ImageProofs** is about the formats, for every file and every size of byte.

Its first part says that what is written is read. `HeaderRead` and `BodyRead` say
what the parser finds at each offset: `LE` gives the digits of a number and
`ReadsOne`, `ReadsTwo`, `ReadsFour` get the number back; `BodyIs` and
`ImageIs` place every part. `MadeIsAccepted` goes through the conditions of
`XhcAccepts`. The checksums agree because both programs take them over the same
cells (`SliceIs`), so that nothing about sums is needed. `ConfigWordsAre` and
`WritesRead` say that the parser finds the words `gen_header` wrote, and `RomLoads`
follows the ROM through the writes of `BypassWrites`: the address it loads from is
where `BodyRead` finds the code, however many writes of delay come between.

Its second part says that damage is seen. `TotalIs` proves that the halved sum
is that of the bytes one by one, and `SumSees` that two parts which differ in one
byte have sums that differ modulo the size of a byte. `CutSeen` is about a file
that has lost its end, and holds of every file: the part that is left is refused,
or it is read as the whole would be, because each offset the parser computes
comes from bytes before it (`PlacesOf`, `AlikeIsRead`, `PromAlikeIsRead`).
`ChangeSeen` is about one changed byte: a change in a part that is read leaves
the offsets where they were, so the same sum is compared over the same part and
is another one (`XhcChange`, `PromChange`); a change in the sum itself no longer
agrees with the part; any other is not read. The exception is named by `Steers`:
the length of the header, the length of the body with the cells up to the code,
and magic and length of a Promontory image. Such a change moves what is summed.

**HostProofs** is about the sessions at all of the desks.

`ScanComplete` proves `Spec => []NothingMissed` for every file. `NothingMissed` is
about the end of the scan and is not inductive; `ScanInv` says of every offset
that what is wanted before it is written, unless it is claimed, and that what is
written ends before it. A turn keeps it because no magic lies between the offset
and the magic it finds, and those that `NextOffset` jumps over lie in what the
candidate claims.

`MadeIsValid` proves `Spec => []MadeValidates` and `BypassRuns`
`Spec => []BypassLoadsCode`, for every chip, every binary whose length fits its
field, and every size of byte (from 16 values on), signature and header, from the
first part of ImageProofs; `RomIs` is the same for `validate_brom.py`. The
invariant, `FilesInv`, only says that an unharmed file is still what was made of
the binary, and a verdict the one on this file: it is needed because `verdict`,
`file`, `binary` and `original` are set in different steps. `HostTypes`
proves `Spec => []TypeOK` from it, with `ScanInv` for the scan.

`DamageIsSeen` carries the second part into the sessions: an image that was
harmed and is accepted gives the code and the writes of the one it was, or its
lengths were harmed (`LengthHarmed`). `WholeInv` is the invariant: there is a whole
image of which the file is what harm has left, and `original` is its reading.

`FieldsUnderBits` proves `Spec => []CellsUnderBits`, for every register that
`IsRegister` describes and every width of block. A row is written from its
highest bit down, and a field's cell is written with its full span when its highest
bit in the block is reached. So what is true after k bits is not that k columns
are right: they are right down to the lowest bit of the field that the last of
them is in. `RowStep` has one case for a bit that begins a cell, one for a bit
within a cell and one for a bit of no field; `CellAtTop` and `PartOf` say that the
cases of `Part` give the span that the block leaves of the field. `TableRows` and
`TableWhole` then put the rows together: they part the bits of the register.

`ResetSafe` proves `TraceSpec => []ResetReleased`, which is inductive as it
stands, and `TraceWithin` that `Spec => TraceSpec`.

Assumptions: `ImageAssumption`; `PowerAssumption` (the equations of `^`);
`BypassAssumption` (the values that are written fit a byte and the addresses two,
the delay writes fit the header they fill up, `DATA_LEN` has 24 bits: so it is
with bytes of 256 values, `0x400` and `0x8000`); `FilesAssumption` (files are
sequences of numbers; a ROM fills one of `BromSizes`, and no smaller size matches
it by chance); `HarmsAssumption` (a harmed byte is another byte);
`RegistersAssumption` (registers of 1, 2, 4, 8 or more than 8 bytes, no bit of two
fields, as all of `data/` is); `BlockAssumption`; `BromAssumption`;
`TraceAssumption`.

**Only model-checked**: liveness (`ToolEnds`, `AccessEnds`, `CommandEnds`, `Served`,
`EnterLeaves`, `ToolsEnd`; TLAPS has no fairness or ENABLED reasoning); and
`NoDamageAccepted` where `DamageIsSeen` does not reach: images with a harmed length
or magic, and boot ROM files. There the validator compares the sum of one
part with that of another, and that these differ is true of an instance and
not of every value of the constants.

## 5. What is left out

* A byte access to an MMIO register is one step of `FwLoader`; `MmioWindow`
  shows that such accesses behave so while the 8051 is held.
* The clock divider, debug output, sysfs and mmap.
* Between two processes the window finishes the store it owes (`CallLoad`'s
  guard): a Python start is long against it. The same is assumed of `MmioWindow`,
  where no tool is killed between a store and its end.
* A byte arrives only while the receive FIFO has room. In the console a lost one
  is one never typed; in binary mode nothing would hold after a loss. The
  terminal's line is not followed through control characters or unknown escape
  sequences, which the code echoes without putting them into the line.
* `MonitorMem` has the memory that the monitor itself does not use; its variables,
  stack and UART registers are not in it. SFRs are plain storage, a multi-byte
  access stays in its bank or page, and MEMSEL does not change what an access to
  IDATA or PDATA reaches. Once the user has set MEMSEL the console's own accesses
  would reach CODE: the properties say so by assuming that it is clear.
* `Bmo` ends at a write to what the monitor itself lives on (`Fatal`): what the
  8051 does afterwards is not followed. Its cells are inert to reads, so a request
  that reads the receive register and takes a byte from the line with it is not in it.
* Of the host tools: the names of chips and registers, the printed version, the
  format of reports, hashes and CSV. A change of one byte cannot turn another
  cell into `_PT_`, which has four. The `bits` of a register have both ends, do
  not overlap and lie in the register, as in all of `data/`; `generate_docs.py`'s check of YAML
  keys and the rest of its page, and `generate_labels.py`, format one value each.
  In `TraceTool` a driver may be bound at any time, also after the tool has
  looked for one (208): it then only reads beside it.
* `PciDev`: files of sysfs, seek and read; its unbinding and confirm loops are
  part of the steps of `FwLoader` and `MmioWindow` that use them.
* The boot ROM and vendor firmware have no source here: they are the 8051 steps
  of `FwLoader`.

## 6. Plan

1. *(done)* CODE RAM window, loading, the 8051; its abstract specification,
   invariant and proofs.
2. *(done)* MMIO window and its abstract specification.
3. *(done)* Console, its abstract specification, invariant and proofs.
   *(done)* Binary mode and its abstract specification.
4. *(done)* `MonitorMem`: regions, `DPX`, `PCON.MEMSEL`, SFRs and the accessors
   under the `mr*` and `mw*` commands. Open: as the cells of `Bmo`.
5. *(done)* `TraceTool`, `FwImage`, `DumpTools`, `BitTable` and their composition.
6. *(done)* Proofs: invariant and refinement of `MmioWindow` and of `Bmo`; the echo
   of `Console` and that it implements `LineSpec`; `MonitorMem` changes only what
   it has named; `validate_fw.py` accepts what `make_image.py` makes, and the ROM runs
   it; damage to an image is seen; the table of bits.
7. `PciDev`'s lazy mapping and unbinding; `GhidraWalk` (termination of the
   backward walk).
