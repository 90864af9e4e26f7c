------------------------------ MODULE HostTools ------------------------------
(***************************************************************************)
(* The tools beside the loader, at work.  A session is at one desk: with a *)
(* binary that is made into an image, with an image or a dump to validate, *)
(* with a dump to scan, with a register to document, or with a device to   *)
(* trace.  A tool reads and writes whole files, so that a run of one is a  *)
(* step, except for the two that loop, the scan and the trace.  Between    *)
(* two tools a file may come to harm: one byte of it changes, or the write *)
(* of it was cut short.                                                    *)
(***************************************************************************)
EXTENDS DumpTools, BitTable, TraceTool, FiniteSetsExt

CONSTANTS Binaries,      \* the firmware that is made into images
          PromImages,    \* well-formed Promontory images
          Containers,    \* files to scan
          Roms,          \* boot ROMs, each of one of the sizes
          Registers,     \* registers to document
          Harms          \* what damage adds to a byte

VARIABLES desk,
          binary,        \* the firmware, while there is no image of it
          stamped,       \* add_fw_meta has been applied to it
          file,          \* the file the tools read
          original,      \* what a reader of the undamaged file should find
          intact,        \* the file has not come to harm
          verdict,       \* of the last validation, or Unread
          offset, scanning, ignore, written,   \* the scan
          reg, table     \* the register, and its table once it is written

fileVars == <<binary, stamped, file, original, intact, verdict>>
scanVars == <<offset, scanning, ignore, written>>
docVars  == <<reg, table>>
vars     == <<desk, fileVars, scanVars, docVars, traceVars>>

OnlyFile  == UNCHANGED <<desk, scanVars, docVars, traceVars>>
OnlyScan  == UNCHANGED <<desk, fileVars, docVars, traceVars>>
OnlyDoc   == UNCHANGED <<desk, fileVars, scanVars, traceVars>>
OnlyTrace == UNCHANGED <<desk, fileVars, scanVars, docVars>>

Unread  == [ok |-> FALSE, code |-> <<PT>>, writes |-> <<>>]
Rom(content) == content \o LE(4, crc32(content))

(* The files are sequences of cells.  The Promontory images are well-formed*)
(* ones; a boot ROM fills its size, and none of the smaller ones that are  *)
(* tried before has its checksum by chance.                                *)
ASSUME FilesAssumption ==
    /\ UNION {Binaries, PromImages, Containers, Roms} \subseteq Seq(Nat)
    /\ \A f \in PromImages : IsProm(f) /\ PromAccepts(f)
    /\ \A r \in Roms : \E k \in DOMAIN BromSizes :
          /\ Len(r) = BromSizes[k] - 4
          /\ \A j \in 1..k - 1 : BromSizes[j] <= Len(r) /\ ~BromCrcAt(r, BromSizes[j])

(* A harmed byte is another one.                                           *)
ASSUME HarmsAssumption == Harms \subseteq 1..Base - 1

ASSUME RegistersAssumption == \A r \in Registers : IsRegister(r)

AtDesk(d, f, o) ==
    /\ desk = d /\ file = f /\ original = o
    /\ scanning = (d = "scan")
    /\ d # "scan" => ignore = FALSE

Init ==
    /\ \/ AtDesk("image", <<>>, Unread) /\ binary \in Binaries
       \/ binary = <<>> /\ (\/ \E f \in PromImages : AtDesk("file", f, Good(PromCode(f), <<>>))
                            \/ \E r \in Roms, tail \in {<<>>, <<0, 1>>} :
                                 AtDesk("rom", Rom(r) \o tail, Good(Rom(r), <<>>))
                            \/ \E f \in Containers : AtDesk("scan", f, Unread)
                            \/ \E d \in {"register", "trace"} : AtDesk(d, <<>>, Unread))
    /\ stamped = FALSE /\ intact = TRUE /\ verdict = Unread
    /\ offset = 0 /\ ignore \in BOOLEAN /\ written = {}
    /\ IF desk = "register" THEN reg \in Registers ELSE reg = [bytes |-> 0, bits |-> <<>>]
    /\ table = <<>>
    /\ TraceInit
    /\ desk # "trace" => info = [config |-> FALSE, mmio |-> FALSE] /\ ~bound

(* make_image.py -t bin: nothing is written when the binary is too short.  *)
MakeBinary(chip) ==
    /\ desk = "image" /\ file = <<>> /\ ~stamped
    /\ Stampable(binary)
    /\ binary' = add_fw_meta(chip, binary) /\ stamped' = TRUE
    /\ UNCHANGED <<file, original, intact, verdict>> /\ OnlyFile

(* make_image.py -t image: the image is complete before the output file is *)
(* opened, and an exception leaves no file.                                *)
MakeImage(chip, bypass) ==
    /\ desk = "image" /\ file = <<>>
    /\ Fits(chip, binary)
    /\ file' = gen_header(chip, bypass) \o gen_body(chip, binary)
    /\ original' = Good(binary, Writes(file'))
    /\ UNCHANGED <<binary, stamped, intact, verdict>> /\ OnlyFile

Harm ==
    /\ desk \in {"image", "file", "rom"} /\ intact /\ file # <<>>
    /\ \/ \E k \in DOMAIN file, h \in Harms :
            file' = [file EXCEPT ![k] = (file[k] + h) % Base]
       \/ \E n \in 0..Len(file) - 1 : file' = SubSeq(file, 1, n)
    /\ intact' = FALSE /\ verdict' = Unread
    /\ UNCHANGED <<binary, stamped, original>> /\ OnlyFile

(* validate_fw.py, for the images of both formats, and validate_brom.py.   *)
Validate ==
    /\ \/ desk = "image" /\ original # Unread /\ verdict' = Validated(file)
       \/ desk = "file" /\ verdict' = Validated(file)
       \/ desk = "rom" /\ verdict' = BromValidated(file)
    /\ UNCHANGED <<binary, stamped, file, original, intact>> /\ OnlyFile

(* One turn of the loop of find_and_extract_embedded_files: pos is where   *)
(* the next magic is.                                                      *)
ScanStep ==
    /\ scanning
    /\ \/ Magics(file, offset) = {} /\ scanning' = FALSE /\ UNCHANGED <<offset, written>>
       \/ \E pos \in Magics(file, offset) :
            /\ \A q \in Magics(file, offset) : pos <= q
            /\ offset' = NextOffset(file, pos)
            /\ written' = IF Candidate(file, pos) /\ Wanted(file, pos, ignore)
                            THEN written \union {pos} ELSE written
            /\ UNCHANGED scanning
    /\ UNCHANGED ignore /\ OnlyScan

Document ==
    /\ desk = "register" /\ table = <<>>
    /\ table' = Table(reg) /\ UNCHANGED reg /\ OnlyDoc

(* The trace at its desk: what its user and the system do, and the tool.   *)
TraceBegins == desk = "trace" /\ (StartTrace \/ Bind) /\ OnlyTrace
TraceRuns   == desk = "trace" /\ TraceStep /\ OnlyTrace

Next ==
    \/ \E chip \in DOMAIN CHIP_INFO :
         MakeBinary(chip) \/ \E bypass \in BOOLEAN : MakeImage(chip, bypass)
    \/ Harm
    \/ Validate
    \/ ScanStep
    \/ Document
    \/ TraceBegins
    \/ TraceRuns

(* The scan and the trace are programs that run: each takes its next step. *)
Fairness == WF_vars(ScanStep) /\ WF_vars(TraceRuns)
Spec == Init /\ [][Next]_vars /\ Fairness
-----------------------------------------------------------------------------
(* The verdicts are what the validators can give, the scan stays in its    *)
(* file, and the trace takes the samples it was asked for.                 *)
TypeOK ==
    /\ verdict.ok \in BOOLEAN /\ (~verdict.ok => verdict \in {Unread, Refused})
    /\ offset \in 0..Len(file) + 1 /\ written \subseteq 0..Len(file) - 1
    /\ step \in {"off", "driver", "open", "set", "clear", "sample"}
    /\ path \in {"config", "bar0"} /\ taken \in 0..Samples /\ runs \in 0..Runs
    /\ {bound, held, left} \subseteq BOOLEAN

(* What make_image.py writes, validate_fw.py accepts, and reads as the     *)
(* binary it was made of and the register writes its header was given: the *)
(* two programs agree about every offset, length, width and checksum.  The *)
(* parser needs the version, so that a short binary has to be refused; one *)
(* that make_image.py could stamp is long enough.                          *)
MadeValidates ==
    intact /\ verdict # Unread =>
        \/ verdict = original
        \/ desk = "image" /\ ~stamped /\ Len(binary) < VersionEnd /\ verdict = Refused

SameUpToZeros(short, long) ==
    /\ Len(short) <= Len(long)
    /\ \A k \in DOMAIN long : long[k] = IF k <= Len(short) THEN short[k] ELSE 0

(* A file that was cut short, or in which one byte changed, is refused, or *)
(* it is read as what the undamaged one holds: the code and, for an image  *)
(* of a controller, the register writes of its header, which the ROM would *)
(* perform.  Of a Promontory image a changed length may take zeros away at *)
(* the end of the code, which its sum does not notice.                     *)
NoDamageAccepted ==
    verdict.ok =>
        /\ verdict.writes = original.writes
        /\ IF desk = "file" THEN SameUpToZeros(verdict.code, original.code)
                            ELSE verdict.code = original.code

(* An image for the ASM3242 made with -s runs without a signature: what    *)
(* the ROM finds at the flash address in its header, and starts only once  *)
(* all of it has been set up, is the binary, if it is within DATA_LEN.     *)
BypassLoadsCode ==
    intact /\ verdict.ok /\ desk = "image" /\ Len(verdict.writes) > 0 /\ Len(binary) <= DataLen =>
        IsPrefix(binary, RomRuns(file))

(* When the scan ends, every image that the extractor's own test accepts   *)
(* has been written, unless the image or the false candidate before it     *)
(* claims its bytes, and no byte is written to two files.                  *)
Claimed(pos) ==
    \E q \in Magics(file, 0) :
        q < pos /\ Candidate(file, q) /\ q + LengthAt(file, q) > pos
NothingMissed ==
    ~scanning /\ desk = "scan" =>
        /\ \A pos \in Magics(file, 0) :
             Candidate(file, pos) /\ Wanted(file, pos, ignore) /\ ~Claimed(pos) => pos \in written
        /\ \A p, q \in written : p < q => p + LengthAt(file, p) <= q

(* In every row of a register's table the cell of a field lies under the   *)
(* headers of exactly the bits of the field, and the rows show every bit   *)
(* of the register once.  So it is for registers of 1, 2, 4 and 8 bytes.   *)
Owner(bit) ==
    LET owners == {k \in DOMAIN BitRanges(reg) :
                      bit \in BitRanges(reg)[k].start..BitRanges(reg)[k].end}
    IN  IF owners = {} THEN 0 ELSE Max(owners)
Columns(cells) == FlattenSeq([k \in DOMAIN cells |-> [c \in 1..cells[k][2] |-> cells[k][1]]])
CellsUnderBits ==
    table # <<>> =>
        /\ \A k \in DOMAIN table :
             Columns(table[k].cells) =
                 [c \in 1..table[k].to - table[k].from |-> Owner(table[k].to - c)]
        /\ \A bit \in 0..MaxBits(reg) - 1 :
             Cardinality({k \in DOMAIN table : bit \in table[k].from..table[k].to - 1}) = 1

(* The scan and the trace end.  The scan does because every length it      *)
(* steps over is that of a whole header at least.                          *)
ToolsEnd == (scanning ~> ~scanning) /\ (step # "off" ~> step = "off")

(* extract_promontory_fw.py finds what validate_fw.py accepts, as the sum  *)
(* in prom_fw.ksy is that of all the bytes of body.firmware.               *)
ValidImagesExtracted ==
    ~scanning /\ desk = "scan" =>
        \A pos \in Magics(file, 0) :
            Candidate(file, pos) /\ PromAccepts(Image(file, pos)) /\ ~Claimed(pos) => pos \in written
=============================================================================
