------------------------------- MODULE Floppy -------------------------------
(***************************************************************************)
(* The floppy subsystem under a driver: commands byte by byte, results     *)
(* byte by byte, resets at any moment, and channel 2 programmed between    *)
(* commands.  The driver looks at the direction bit of the main status     *)
(* register before it moves a byte.                                        *)
(***************************************************************************)
EXTENDS FDC

CONSTANTS
  Commands,      \* the commands the driver knows, as sequences of bytes
  ResetBytes,    \* the values it writes to the DOR
  Setups,        \* the values it programs channel 2 with: addr, count, page
  InitialMem,    \* memory with its ROMs loaded, and the disk
  InitialImage,
  MaxCommands,   \* bounds of the model: commands, data commands, DOR writes and
  MaxTransfers,  \* channel setups of one behaviour
  MaxResets,
  MaxSetups

ASSUME DriverAssumption ==
  /\ Commands \subseteq Seq(Byte) /\ ResetBytes \subseteq Byte
  /\ Setups \subseteq [addr : Word, count : Word, page : Digit]
  /\ InitialMem \in [data : [Address -> Byte], rom : SUBSET [lo : Address, hi : Address]]
  /\ InitialImage \in [Image -> Byte]

VARIABLES
  fdc, dma, mem, image,
  inserted,   \* a disk is in the drive
  irq6,       \* IRQ6 was raised and no Sense Interrupt has followed
  used        \* how much of the bounds is used

vars == <<fdc, dma, mem, image, inserted, irq6, used>>

World == [fdc |-> fdc, dma |-> dma, mem |-> mem, image |-> image]

Init ==
  /\ fdc = NewFDC
  /\ dma = NewDMA
  /\ mem = InitialMem
  /\ image = InitialImage
  /\ inserted \in BOOLEAN
  /\ irq6 = FALSE
  /\ used = [commands |-> 0, transfers |-> 0, resets |-> 0, setups |-> 0]

Reset(v) ==
  /\ used.resets < MaxResets
  /\ fdc' = WriteDOR(fdc, v)
  /\ irq6' = (irq6 \/ WriteDORInterrupts(fdc, v))
  /\ used' = [used EXCEPT !.resets = @ + 1]
  /\ UNCHANGED <<dma, mem, image, inserted>>

\* The driver's routine: flip-flop, address, page and count.  Nothing reads the
\* channel before the routine has ended.
Programmed(d, s) ==
  LET a == WriteAddr(WriteAddr(ClearFlipFlop(d), 2, Low(s.addr)), 2, High(s.addr))
      p == WritePage(a, 2, s.page)
  IN  WriteCount(WriteCount(p, 2, Low(s.count)), 2, High(s.count))

SetupChannel(s) ==
  /\ used.setups < MaxSetups
  /\ dma' = Programmed(dma, s)
  /\ used' = [used EXCEPT !.setups = @ + 1]
  /\ UNCHANGED <<fdc, mem, image, inserted, irq6>>

Sent == IF fdc.phase = 1 THEN fdc.cmd ELSE <<>>

\* The bytes that continue what was sent to a command the driver knows.
NextBytes ==
  {c[Len(Sent) + 1] : c \in {c \in Commands : Len(c) > Len(Sent) /\ SubSeq(c, 1, Len(Sent)) = Sent}}

IsTransfer(v) == Opcode(v) \in {5, 6}

SendByte(v) ==
  /\ ~ToHost(fdc)
  /\ LET w == WriteData(World, inserted, v) IN
     /\ fdc' = w.fdc /\ dma' = w.dma /\ mem' = w.mem /\ image' = w.image
  /\ irq6' = IF ~Busy(fdc) /\ Opcode(v) = 8 THEN FALSE
             ELSE irq6 \/ WriteDataInterrupts(fdc, v)
  /\ UNCHANGED inserted

StartCommand(v) ==
  /\ ~Busy(fdc)
  /\ used.commands < MaxCommands
  /\ IsTransfer(v) => used.transfers < MaxTransfers
  /\ used' = [used EXCEPT !.commands = @ + 1, !.transfers = @ + IF IsTransfer(v) THEN 1 ELSE 0]
  /\ SendByte(v)

SendParameter(v) ==
  /\ Busy(fdc)
  /\ SendByte(v)
  /\ UNCHANGED used

ReadResult ==
  /\ ToHost(fdc)
  /\ fdc' = ReadData(fdc)
  /\ UNCHANGED <<dma, mem, image, inserted, irq6, used>>

Next ==
  \/ \E v \in ResetBytes : Reset(v)
  \/ \E s \in Setups : SetupChannel(s)
  \/ \E v \in NextBytes : StartCommand(v) \/ SendParameter(v)
  \/ ReadResult

\* A driver that has begun a command goes on with it.
Spec ==
  /\ Init /\ [][Next]_vars
  /\ WF_vars(\E v \in NextBytes : SendParameter(v))
  /\ WF_vars(ReadResult)

-----------------------------------------------------------------------------
FDCState ==
  [dor : Byte, phase : 0 .. 2, cmd : Seq(Byte), needed : 0 .. 9, result : Seq(Byte),
   resIdx : 0 .. 7, pcn : [Drive -> Byte], st0 : Byte, intPending : BOOLEAN]

\* Every variable has its type.
TypeOK ==
  /\ fdc \in FDCState
  /\ dma.channels \in [Channels -> ChannelState]
  /\ mem.data \in [Address -> Byte] /\ image \in [Image -> Byte]
  /\ inserted \in BOOLEAN /\ irq6 \in BOOLEAN

\* The status register never promises what the controller cannot keep: while it
\* collects a command a parameter is still missing, and while it shows DIO a
\* result byte is left, whatever resets came in between (writeDOR, readData and
\* writeData, fdc.go:76-115).
PhaseConsistent ==
  /\ fdc.phase = 1 => /\ Len(fdc.cmd) \in 1 .. fdc.needed - 1
                      /\ fdc.needed = 1 + ParamCount(fdc.cmd[1])
  /\ fdc.phase = 2 => fdc.resIdx < Len(fdc.result)

\* IRQ6 is never a riddle: as long as the driver has not asked, Sense Interrupt
\* Status has an answer for it (fdc.go:76-87, 171-185 and 256-259).
InterruptIsExplained == irq6 => fdc.intPending

\* The step that sends the last parameter of a command, and executes it.
Executes(op) ==
  /\ fdc.phase = 1 /\ Opcode(fdc.cmd[1]) = op
  /\ Len(fdc.cmd) < fdc.needed /\ Len(fdc'.cmd) = fdc.needed

\* The addresses of the ROMs, as they were loaded.
ROM == {a \in Address : \E r \in InitialMem.rom : a \in r.lo .. r.hi}

Normal == fdc'.result[1] \div 64 = 0
Params == fdc'.cmd
ReportedSectors == fdc'.result[6] - Params[5]

\* Where a transfer begins: the address lines above the last page do not exist.
FirstAddress(ch) == (ch.page % Pages) * WordSize + ch.addr

\* What channel 2 lets through of the sectors a command reports.
Reported == ReportedSectors * SectorSize
LetThrough(ch) == IF Reported < ch.count + 1 THEN Reported ELSE ch.count + 1

\* The driver keeps the transfer within a page.
WithinPage(ch) == ch.addr + ch.count < WordSize

\* The step of a normal read.
Delivers ==
  LET ch == Channel(dma)
      first == FirstAddress(ch)
      from == Offset(Params[3], Params[4], Params[5])
  IN Executes(6) /\ WithinPage(ch) /\ Normal =>
       /\ ReportedSectors >= 1
       /\ Reported > ch.count \/ fdc'.result[6] > Params[7]
       /\ ReportedSectors = 1 \/ Reported - SectorSize <= ch.count
       /\ \A a \in Address \ ROM :
            mem'.data[a] = IF a \in first .. first + LetThrough(ch) - 1
                           THEN image[from + a - first] ELSE mem.data[a]
       /\ UNCHANGED image

\* A read that ends normally has left in memory, from the programmed address
\* on, the sectors from R up to the one before the R it reports, cut at the
\* programmed count, and nothing else; and it stopped because the count was
\* used up or EOT was reached; what would fall into a ROM is dropped
\* (readWrite, fdc.go:199-260; TransferToMemory, dma.go:164-179).
ReadDelivers == [][Delivers]_vars

\* Whatever channel 2 is programmed with, and whatever is read from the disk,
\* no transfer changes a ROM, its last and first byte included (Write8 and
\* LoadROM, bus.go:28-36 and 45-53; TransferToMemory, dma.go:164-179).
ROMStaysAsLoaded == [][\A a \in ROM : mem'.data[a] = InitialMem.data[a]]_vars

\* The step of a write, normal or not.
Stores ==
  LET ch == Channel(dma)
      first == FirstAddress(ch)
      from == Offset(Params[3], Params[4], Params[5])
      track == Offset(Params[3], Params[4], 1)
  IN Executes(5) /\ WithinPage(ch) =>
       /\ UNCHANGED mem
       /\ Normal => \A o \in Image :
            image'[o] = IF o \in from .. from + LetThrough(ch) - 1
                        THEN mem.data[first + o - from] ELSE image[o]
       /\ ~Normal => \A o \in Image :
            image'[o] # image[o] => o \in track .. track + Sectors * SectorSize - 1

\* A write that ends normally has changed the sectors it reports, and of the
\* last of them only the bytes the channel delivered; a write that fails has
\* changed no sector outside its track (readWrite, fdc.go:229-234; WriteSector,
\* floppy.go:76-83).
WriteStores == [][Stores]_vars

\* What a normal read does to channel 2.
Accounts ==
  Executes(6) /\ Normal /\ 2 \notin dma.tcStatus =>
    IF 2 \in dma'.tcStatus
    THEN Channel(dma').count = WordSize - 1
    ELSE Channel(dma).count - Channel(dma').count = Reported

\* The count of channel 2 and its terminal-count bit tell the driver how much
\* was moved: with the bit clear before a normal read, either the read sets it
\* and the count has run through, or the count has gone down by what memory
\* received (advance, dma.go:204-209).
CountAccountsForBytes == [][Accounts]_vars

\* A driver that follows the status register always gets the controller back to
\* idle (msr, fdc.go:65-74).
ReturnsToIdle == Busy(fdc) ~> ~Busy(fdc)

\* What fdc.go:33 and machine.go:132 say of the disk: it is the one in drive 0.
\* A command for another drive moves nothing.
OnlyDriveZeroHasTheDisk ==
  [][(Executes(5) \/ Executes(6)) /\ Params[2] % 4 # 0 => UNCHANGED <<mem, image>>]_vars
=============================================================================
