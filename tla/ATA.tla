--------------------------------- MODULE ATA ---------------------------------
(***************************************************************************)
(* The ATA channel of device/ata.go behind the XT-IDE card of              *)
(* device/xtide.go, with the disk of disk/harddisk.go: operators on a      *)
(* world [ata, high, disk], where high is the card's latch for the high    *)
(* byte of a word.  A word is a pair <<low, high>>.  The features register *)
(* is stored and never read; it is left out.  A disk is a function from    *)
(* blocks to sectors, sequences of SectorSize bytes.                       *)
(***************************************************************************)
EXTENDS Integers, Sequences, FiniteSets, Bits

CONSTANTS
  Blocks,        \* number of blocks of the disk
  SectorSize,    \* bytes of a sector (512)
  GeoHeads,      \* the logical geometry: 16 heads and 63 sectors in the code
  GeoSectors,
  FullCount,     \* what a sector count of 0 stands for (256)
  LBASpace,      \* a uint32: arithmetic on blocks wraps here (2^32)
  IdentifyBlock, \* the answer to IDENTIFY DEVICE, as bytes
  HasDisk        \* a disk is attached

ASSUME ATAAssumption ==
  /\ Blocks \in Nat \ {0} /\ Blocks < LBASpace
  /\ LBASpace \in Nat /\ 16 * 256 * 256 * 256 <= LBASpace    \* 28 bits of address fit
  /\ SectorSize \in Nat \ {0} /\ SectorSize % 2 = 0
  /\ GeoHeads \in 1 .. 16 /\ GeoSectors \in 1 .. 63
  /\ FullCount \in Nat \ {0}
  /\ IdentifyBlock \in Seq(Byte) /\ Len(IdentifyBlock) % 2 = 0 /\ Len(IdentifyBlock) > 0
  /\ HasDisk \in BOOLEAN

Block == 0 .. Blocks - 1
Sector == [1 .. SectorSize -> Byte]

\* The status bits the code uses.
Flags == {"DRDY", "DSC", "DRQ", "ERR"}
Ready == {"DRDY", "DSC"}

NewATA ==
  [secCount |-> 0, lba0 |-> 0, lba1 |-> 0, lba2 |-> 0, drvHead |-> 0,
   status |-> Ready, errReg |-> 0, buf |-> <<>>, bufPos |-> 0,
   writing |-> FALSE, writeLBA |-> 0]

Present(a) == HasDisk /\ ~Bit(a.drvHead, 4)

\* What the host reads as status; an absent drive reads as no bit at all.
StatusValue(a) == IF Present(a) THEN a.status ELSE {}

(***************************************************************************)
(* The disk: a range is accepted when it lies on it.  The subtraction is   *)
(* unsigned.                                                               *)
(***************************************************************************)
InRangeUnsigned(lba, count) ==      \* mutant: lba >= sectors is not looked at
  count > 0 /\ count <= (Blocks - lba) % LBASpace

InRangeMissesLast(lba, count) ==     \* mutant: the last block is never accepted
  count > 0 /\ count < (Blocks - lba) % LBASpace /\ lba < Blocks

InRange(lba, count) ==
  count > 0 /\ count <= (Blocks - lba) % LBASpace /\ lba < Blocks

\* Bytes of count sectors from lba on; past the end the store reads as zeros.
DiskBytes(disk, lba, count) ==
  [i \in 1 .. count * SectorSize |->
     LET b == lba + (i - 1) \div SectorSize IN
     IF b < Blocks THEN disk[b][((i - 1) % SectorSize) + 1] ELSE 0]

Stored(disk, lba, bytes) ==
  [b \in Block |->
     IF b \in lba .. lba + (Len(bytes) \div SectorSize) - 1
     THEN [i \in 1 .. SectorSize |-> bytes[(b - lba) * SectorSize + i]]
     ELSE disk[b]]

(***************************************************************************)
(* Addresses.                                                              *)
(***************************************************************************)
SectorCount(a) == IF a.secCount = 0 THEN FullCount ELSE a.secCount

CurrentLBA(a) ==
  IF Bit(a.drvHead, 6)
  THEN (((a.drvHead % 16) * 256 + a.lba2) * 256 + a.lba1) * 256 + a.lba0
  ELSE ((((a.lba2 * 256 + a.lba1) * GeoHeads + (a.drvHead % 16)) * GeoSectors)
          + (a.lba0 - 1)) % LBASpace

(***************************************************************************)
(* Commands.                                                               *)
(***************************************************************************)
Failed(a, err) == [a EXCEPT !.errReg = err, !.status = Ready \cup {"ERR"}]

DataIn(a, bytes) ==
  [a EXCEPT !.buf = bytes, !.bufPos = 0, !.writing = FALSE, !.status = Ready \cup {"DRQ"}]

ReadSectors(a, disk) ==
  IF InRange(CurrentLBA(a), SectorCount(a))
  THEN DataIn(a, DiskBytes(disk, CurrentLBA(a), SectorCount(a)))
  ELSE Failed(a, 16)

BeginWrite(a) ==
  [a EXCEPT !.writeLBA = CurrentLBA(a),
            !.buf = [i \in 1 .. SectorCount(a) * SectorSize |-> 0],
            !.bufPos = 0, !.writing = TRUE, !.status = Ready \cup {"DRQ"}]

Identify == 236
ReadCommands == {32, 33, 196}
WriteCommands == {48, 49, 197}
\* Recalibrate, and the commands accepted without effect.
IdleCommands == 16 .. 31 \cup {145, 144, 239, 198, 64, 65, 224, 225, 231, 234}

Command(a, disk, cmd) ==
  LET c == [a EXCEPT !.errReg = 0] IN
  CASE ~Present(a) -> [c EXCEPT !.status = {}]
    [] Present(a) /\ cmd = Identify -> DataIn(c, IdentifyBlock)
    [] Present(a) /\ cmd \in ReadCommands -> ReadSectors(c, disk)
    [] Present(a) /\ cmd \in WriteCommands -> BeginWrite(c)
    [] Present(a) /\ cmd \in IdleCommands ->
         [c EXCEPT !.status = Ready, !.errReg = IF cmd = 144 THEN 1 ELSE 0]
    [] OTHER -> Failed(c, 4)

WriteReg(a, disk, reg, v) ==
  CASE reg = 2 -> [a EXCEPT !.secCount = v]
    [] reg = 3 -> [a EXCEPT !.lba0 = v]
    [] reg = 4 -> [a EXCEPT !.lba1 = v]
    [] reg = 5 -> [a EXCEPT !.lba2 = v]
    [] reg = 6 -> [a EXCEPT !.drvHead = v]
    [] reg = 7 -> Command(a, disk, v)
    [] OTHER -> a

\* Device Control: SRST.
WriteDevCtlKeepsPosition(a, v) ==   \* mutant: the position in the buffer stays
  IF ~Bit(v, 2) THEN a
  ELSE [a EXCEPT !.status = Ready, !.errReg = 1, !.buf = <<>>, !.writing = FALSE]
WriteDevCtl(a, v) ==
  IF ~Bit(v, 2) THEN a
  ELSE [a EXCEPT !.status = Ready, !.errReg = 1, !.buf = <<>>, !.bufPos = 0, !.writing = FALSE]

(***************************************************************************)
(* The data register, a word at a time.                                    *)
(***************************************************************************)
\* One byte left in the buffer: here the code would read past its end.
HalfWordLeft(a) == a.bufPos + 1 = Len(a.buf)

WordLeft(a) == a.bufPos + 1 < Len(a.buf)

DataWord(a) == IF WordLeft(a) THEN <<a.buf[a.bufPos + 1], a.buf[a.bufPos + 2]>> ELSE <<255, 255>>

AfterReadData16KeepsDRQ(a) ==       \* mutant: DRQ stays after the last word
  IF ~WordLeft(a) THEN a ELSE [a EXCEPT !.bufPos = @ + 2]
AfterReadData16(a) ==
  IF ~WordLeft(a) THEN a
  ELSE [a EXCEPT !.bufPos = @ + 2,
                 !.status = IF a.bufPos + 2 >= Len(a.buf) THEN @ \ {"DRQ"} ELSE @]

\* The last word commits the whole buffer, or fails.
AfterLastWord(a) ==
  [(IF InRange(a.writeLBA, Len(a.buf) \div SectorSize)
    THEN [a EXCEPT !.status = Ready] ELSE Failed(a, 16)) EXCEPT !.writing = FALSE]

WriteData16CommitsEachWord(w, word) ==   \* mutant: the disk is written at every word
  LET a == w.ata
      filled == [a EXCEPT !.buf = [@ EXCEPT ![a.bufPos + 1] = word[1], ![a.bufPos + 2] = word[2]],
                          !.bufPos = @ + 2]
  IN IF ~a.writing \/ ~WordLeft(a) THEN w
     ELSE [w EXCEPT !.ata = IF filled.bufPos < Len(a.buf) THEN filled ELSE AfterLastWord(filled),
                    !.disk = IF InRange(a.writeLBA, Len(a.buf) \div SectorSize)
                             THEN Stored(@, a.writeLBA, filled.buf) ELSE @]

WriteData16(w, word) ==
  LET a == w.ata
      filled == [a EXCEPT !.buf = [@ EXCEPT ![a.bufPos + 1] = word[1], ![a.bufPos + 2] = word[2]],
                          !.bufPos = @ + 2]
  IN IF ~a.writing \/ ~WordLeft(a) THEN w
     ELSE IF filled.bufPos < Len(a.buf) THEN [w EXCEPT !.ata = filled]
     ELSE [w EXCEPT !.ata = AfterLastWord(filled),
                    !.disk = IF InRange(a.writeLBA, Len(a.buf) \div SectorSize)
                             THEN Stored(@, a.writeLBA, filled.buf) ELSE @]

(***************************************************************************)
(* The card: ports 0x0 (data), 0x8 (latch), 0x1 - 0x7 and 0xE.             *)
(***************************************************************************)
ReadDataPortKeepsLatch(w) ==        \* mutant: the high byte is not caught
  [w EXCEPT !.ata = AfterReadData16(@)]
ReadDataPort(w) == [w EXCEPT !.ata = AfterReadData16(@), !.high = DataWord(w.ata)[2]]
DataPortValue(w) == DataWord(w.ata)[1]

WriteDataPort(w, low) == WriteData16(w, <<low, w.high>>)
WriteLatch(w, v) == [w EXCEPT !.high = v]
WriteRegister(w, reg, v) == [w EXCEPT !.ata = WriteReg(@, w.disk, reg, v)]
WriteControl(w, v) == [w EXCEPT !.ata = WriteDevCtl(@, v)]
=============================================================================
