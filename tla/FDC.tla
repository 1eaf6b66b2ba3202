--------------------------------- MODULE FDC ---------------------------------
(***************************************************************************)
(* The NEC 765 floppy controller, device/fdc.go, with the disk image of    *)
(* disk/floppy.go and the DMA channel 2 of device/dma.go it moves sectors  *)
(* through.                                                                *)
(*                                                                         *)
(* The controller is a record; a command changes a world                   *)
(* [fdc, dma, mem, image].  The loop of readWrite over sectors is written  *)
(* in closed form: how many sectors it moves, and where each byte goes.    *)
(***************************************************************************)
EXTENDS DMA

Bus == INSTANCE Memory WITH Size <- MemSize

CONSTANTS
  Cylinders, Heads, Sectors, SectorSize        \* the geometry of the disk

Drive == 0 .. 3

ASSUME GeometryAssumption ==
  /\ 2 \in Channels
  /\ Cylinders \in 1 .. 255 /\ Heads \in 1 .. 2 /\ Sectors \in 1 .. 254
  /\ SectorSize \in 1 .. WordSize - 1

ImageSize == Cylinders * Heads * Sectors * SectorSize
Image == 0 .. ImageSize - 1

InGeometry(c, h, s) == c < Cylinders /\ h < Heads /\ s \in 1 .. Sectors

Offset(c, h, s) == ((c * Heads + h) * Sectors + (s - 1)) * SectorSize

NewFDC ==
  [dor |-> 0, phase |-> 0, cmd |-> <<>>, needed |-> 0, result |-> <<>>, resIdx |-> 0,
   pcn |-> [d \in Drive |-> 0], st0 |-> 0, intPending |-> FALSE]

(***************************************************************************)
(* Registers.                                                              *)
(***************************************************************************)
InReset(f) == ~Bit(f.dor, 2)
InterruptsEnabled(f) == Bit(f.dor, 3)
LeavesReset(f, v) == InReset(f) /\ Bit(v, 2)

WriteDOR(f, v) ==
  IF LeavesReset(f, v)
  THEN [f EXCEPT !.dor = v, !.phase = 0, !.resIdx = 0, !.st0 = 192, !.intPending = TRUE]
  ELSE [f EXCEPT !.dor = v]

ToHost(f) == f.phase = 2          \* MSR: DIO
Busy(f) == f.phase # 0            \* MSR: BUSY

Exhausted(f) == f.resIdx >= Len(f.result)

ReadDataEndsLate(f) ==            \* mutant: compares with > instead of >=
  IF ~ToHost(f) \/ Exhausted(f) THEN f
  ELSE [f EXCEPT !.resIdx = @ + 1,
                 !.phase = IF f.resIdx + 1 > Len(f.result) THEN 0 ELSE 2]
ReadData(f) ==
  IF ~ToHost(f) \/ Exhausted(f) THEN f
  ELSE [f EXCEPT !.resIdx = @ + 1,
                 !.phase = IF f.resIdx + 1 >= Len(f.result) THEN 0 ELSE 2]

Opcode(v) == v % 32

ParamCountWithOpcode(v) ==        \* mutant: the opcode is counted twice
  CASE Opcode(v) \in {5, 6, 9, 12} -> 9
    [] Opcode(v) = 13 -> 6
    [] Opcode(v) \in {3, 15} -> 3
    [] Opcode(v) \in {4, 7, 10} -> 2
    [] OTHER -> 0
ParamCount(v) ==
  CASE Opcode(v) \in {5, 6, 9, 12} -> 8
    [] Opcode(v) = 13 -> 5
    [] Opcode(v) \in {3, 15} -> 2
    [] Opcode(v) \in {4, 7, 10} -> 1
    [] OTHER -> 0

\* A byte on the data port, before the command it may complete is executed.
Collected(f, v) ==
  CASE f.phase = 0 -> [f EXCEPT !.cmd = <<v>>, !.needed = 1 + ParamCount(v), !.phase = 1]
    [] f.phase = 1 -> [f EXCEPT !.cmd = Append(@, v)]
    [] OTHER -> f

Complete(f) == f.phase = 1 /\ Len(f.cmd) >= f.needed

(***************************************************************************)
(* Commands without data.                                                  *)
(***************************************************************************)
GiveResult(f, bytes) == [f EXCEPT !.result = bytes, !.resIdx = 0, !.phase = 2]

DriveOf(f) == f.cmd[2] % 4
HeadOf(f) == (f.cmd[2] \div 4) % 2

SeekDoneSilently(f, cylinder) ==  \* mutant: a seek leaves nothing to sense
  [f EXCEPT !.pcn[DriveOf(f)] = cylinder, !.st0 = 32 + DriveOf(f), !.phase = 0]
SeekDoneStaysBusy(f, cylinder) == \* mutant: the phase is not reset
  [f EXCEPT !.pcn[DriveOf(f)] = cylinder, !.st0 = 32 + DriveOf(f), !.intPending = TRUE]
SeekDone(f, cylinder) ==
  [f EXCEPT !.pcn[DriveOf(f)] = cylinder, !.st0 = 32 + DriveOf(f),
            !.intPending = TRUE, !.phase = 0]

SenseInterrupt(f) ==
  IF f.intPending
  THEN GiveResult([f EXCEPT !.intPending = FALSE], <<f.st0, f.pcn[f.st0 % 4] % 256>>)
  ELSE GiveResult(f, <<128>>)

SenseDrive(f) ==
  GiveResult(f, <<DriveOf(f) + 32 + IF f.pcn[DriveOf(f)] = 0 THEN 16 ELSE 0>>)

ReadID(f) ==
  LET st0 == DriveOf(f) + 4 * HeadOf(f) IN
  GiveResult([f EXCEPT !.st0 = st0, !.intPending = TRUE],
             <<st0, 0, 0, f.pcn[DriveOf(f)], HeadOf(f), 1, 2>>)

(***************************************************************************)
(* Read Data and Write Data: sectors from R on, one after the other, until *)
(* the terminal count of channel 2, EOT, or a sector outside the geometry. *)
(***************************************************************************)
C(f) == f.cmd[3]
H(f) == f.cmd[4]
R(f) == f.cmd[5]
N(f) == f.cmd[6]
EOT(f) == f.cmd[7]

Channel(d) == d.channels[2]

SectorsToTC(d) == (Length(Channel(d)) + SectorSize - 1) \div SectorSize
SectorsToEOT(f) == IF R(f) >= EOT(f) THEN 1 ELSE EOT(f) - R(f) + 1

SectorsWantedToEOT(f, d) ==       \* mutant: the terminal count does not stop the command
  SectorsToEOT(f)
SectorsWanted(f, d) == MinOf(SectorsToTC(d), SectorsToEOT(f))

SectorsThere(f) == IF InGeometry(C(f), H(f), R(f)) THEN Sectors - R(f) + 1 ELSE 0

SectorsMoved(f, d) == MinOf(SectorsWanted(f, d), SectorsThere(f))
BytesMoved(f, d) == MinOf(SectorsMoved(f, d) * SectorSize, Length(Channel(d)))
RunsOut(f, d) == SectorsWanted(f, d) > SectorsThere(f)

\* On a write the channel has delivered the bytes of the sector that fails.
BytesTaken(f, d) ==
  IF RunsOut(f, d)
  THEN MinOf((SectorsMoved(f, d) + 1) * SectorSize, Length(Channel(d)))
  ELSE BytesMoved(f, d)

\* R after the command: the sector after the last one moved, or R + 1.
NextR(f, d) == R(f) + IF SectorsMoved(f, d) = 0 THEN 1 ELSE SectorsMoved(f, d)

Terminate(f, ok, r) ==
  LET st0 == DriveOf(f) + 4 * HeadOf(f) + IF ok THEN 0 ELSE 64
      st1 == IF ok THEN 0 ELSE 4
  IN  GiveResult([f EXCEPT !.st0 = st0, !.pcn[DriveOf(f)] = C(f), !.intPending = TRUE],
                 <<st0, st1, 0, C(f), H(f), r % 256, N(f)>>)

\* Byte i of the transfer sits at Start + i of the image and at Where(d, i) of
\* the memory.
Start(f) == Offset(C(f), H(f), R(f))
Where(d, i) == TransferAddr(Channel(d), SectorSize, i)

ReadSectors(w) ==
  LET n == BytesMoved(w.fdc, w.dma)
      Lands(a) == {i \in 0 .. n - 1 : Where(w.dma, i) = a}
  IN [fdc |-> Terminate(w.fdc, ~RunsOut(w.fdc, w.dma), NextR(w.fdc, w.dma)),
      dma |-> Advance(w.dma, 2, n),
      mem |-> [w.mem EXCEPT !.data =
                [a \in Address |->
                   IF Lands(a) = {} \/ Bus!IsROM(w.mem, a) THEN @[a]
                   ELSE w.image[Start(w.fdc) + CHOOSE i \in Lands(a) : \A j \in Lands(a) : j <= i]]],
      image |-> w.image]

WriteSectorsPads(w) ==            \* mutant: a sector that is cut is filled with zeros
  LET n == BytesMoved(w.fdc, w.dma)
      first == Start(w.fdc)
      whole == SectorsMoved(w.fdc, w.dma) * SectorSize
  IN [fdc |-> Terminate(w.fdc, ~RunsOut(w.fdc, w.dma), NextR(w.fdc, w.dma)),
      dma |-> Advance(w.dma, 2, BytesTaken(w.fdc, w.dma)),
      mem |-> w.mem,
      image |-> [o \in Image |->
                   IF n > 0 /\ o \in first .. first + n - 1 THEN Bus!Read8(w.mem, Where(w.dma, o - first))
                   ELSE IF n > 0 /\ o \in first .. first + whole - 1 THEN 0
                   ELSE w.image[o]]]

WriteSectors(w) ==
  LET n == BytesMoved(w.fdc, w.dma)
      first == Start(w.fdc)
  IN [fdc |-> Terminate(w.fdc, ~RunsOut(w.fdc, w.dma), NextR(w.fdc, w.dma)),
      dma |-> Advance(w.dma, 2, BytesTaken(w.fdc, w.dma)),
      mem |-> w.mem,
      image |-> [o \in Image |->
                   IF n > 0 /\ o \in first .. first + n - 1 THEN Bus!Read8(w.mem, Where(w.dma, o - first))
                   ELSE w.image[o]]]

\* No disk in the drive: abnormal termination, no transfer.
NoDisk(w) == [w EXCEPT !.fdc = Terminate(@, FALSE, R(@))]

(***************************************************************************)
(* execute, with inserted telling whether a disk is in the drive.          *)
(***************************************************************************)
Execute(w, inserted) ==
  LET f == w.fdc
      op == Opcode(f.cmd[1])
  IN CASE op = 3  -> [w EXCEPT !.fdc.phase = 0]
       [] op = 7  -> [w EXCEPT !.fdc = SeekDone(f, 0)]
       [] op = 15 -> [w EXCEPT !.fdc = SeekDone(f, f.cmd[3])]
       [] op = 8  -> [w EXCEPT !.fdc = SenseInterrupt(f)]
       [] op = 4  -> [w EXCEPT !.fdc = SenseDrive(f)]
       [] op = 10 -> [w EXCEPT !.fdc = ReadID(f)]
       [] op = 6 /\ inserted -> ReadSectors(w)
       [] op = 5 /\ inserted -> WriteSectors(w)
       [] op \in {5, 6} /\ ~inserted -> NoDisk(w)
       [] OTHER -> [w EXCEPT !.fdc = GiveResult(f, <<128>>)]

\* The commands that end with IRQ6.
Interrupting(op) == op \in {5, 6, 7, 10, 15}

WriteData(w, inserted, v) ==
  LET collected == [w EXCEPT !.fdc = Collected(@, v)] IN
  IF Complete(collected.fdc) THEN Execute(collected, inserted) ELSE collected

\* Whether the write raises IRQ6.
WriteDataInterrupts(f, v) ==
  LET g == Collected(f, v) IN
  Complete(g) /\ Interrupting(Opcode(g.cmd[1])) /\ InterruptsEnabled(f)

WriteDORInterrupts(f, v) == LeavesReset(f, v) /\ Bit(v, 3)
=============================================================================
