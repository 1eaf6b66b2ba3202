------------------------------ MODULE HardDisk ------------------------------
(***************************************************************************)
(* The hard disk under a driver: it sets the task file, issues a command,  *)
(* and while the status shows DRQ it moves words, each as two accesses to  *)
(* the card, the way the routines of xtide_test.go do.  It may break off a *)
(* transfer at any moment with another command, another drive or a reset.  *)
(*                                                                         *)
(* The driver keeps its own account of the disk, store: what it has        *)
(* written and the status has confirmed.                                   *)
(***************************************************************************)
EXTENDS ATA

CONSTANTS
  Tasks,        \* task files: records of secCount, lba0, lba1, lba2, drvHead
  CommandBytes, \* the commands the driver issues
  WordValues,   \* the words it writes
  InitialDisk,
  MaxCommands   \* bound of the model: commands and resets of one behaviour

ASSUME HardDiskAssumption ==
  /\ Tasks \subseteq [secCount : Byte, lba0 : Byte, lba1 : Byte, lba2 : Byte, drvHead : Byte]
  /\ WordValues \subseteq Byte \X Byte
  /\ InitialDisk \in [Block -> Sector]

VARIABLES
  ata, high, disk,
  store,     \* what the driver knows the disk to hold
  transfer,  \* "none", "in" or "out": the data phase the driver is in
  expected,  \* in: the words the driver expects; out: the words it has sent
  moved,     \* in: the words it has read
  target,    \* the block range it reads or writes, or has been refused
  half,      \* the access to the latch that completes a word, or starts it, is due
  commands

vars == <<ata, high, disk, store, transfer, expected, moved, target, half, commands>>

NoRange == [lba |-> 0, count |-> 0]

World == [ata |-> ata, high |-> high, disk |-> disk]
Become(w) == ata' = w.ata /\ high' = w.high /\ disk' = w.disk

DRQ == "DRQ" \in StatusValue(ata)

Init ==
  /\ ata = NewATA /\ high = 0 /\ disk = InitialDisk
  /\ store = InitialDisk
  /\ transfer = "none" /\ expected = <<>> /\ moved = <<>>
  /\ target = NoRange
  /\ half = FALSE
  /\ commands = 0

\* Registers 2 to 5, and the drive register after them.
AddressRegisters(w, t) ==
  LET r2 == WriteRegister(w, 2, t.secCount)
      r3 == WriteRegister(r2, 3, t.lba0)
      r4 == WriteRegister(r3, 4, t.lba1)
  IN  WriteRegister(r4, 5, t.lba2)
TaskFile(w, t) == WriteRegister(AddressRegisters(w, t), 6, t.drvHead)

Breaks ==
  /\ commands < MaxCommands
  /\ commands' = commands + 1
  /\ half' = FALSE
  /\ moved' = <<>>

Words(bytes) == [i \in 1 .. Len(bytes) \div 2 |-> <<bytes[2 * i - 1], bytes[2 * i]>>]

\* The driver knows the medium: what it may address, and what it will read there.
Addressed == [lba |-> CurrentLBA(ata'), count |-> SectorCount(ata')]
OnDisk(t) == t.lba + t.count <= Blocks
DriverReads(cmd) ==
  CASE cmd = Identify -> Words(IdentifyBlock)
    [] cmd \in ReadCommands /\ OnDisk(Addressed) ->
         Words(DiskBytes(store, Addressed.lba, Addressed.count))
    [] OTHER -> <<>>

Issue(t, cmd) ==
  /\ Breaks
  /\ Become(WriteRegister(TaskFile(World, t), 7, cmd))
  /\ transfer' = IF "DRQ" \notin StatusValue(ata') THEN "none"
                 ELSE IF cmd \in WriteCommands THEN "out" ELSE "in"
  /\ expected' = IF transfer' = "in" THEN DriverReads(cmd) ELSE <<>>
  /\ target' = IF StatusValue(ata') # {} /\ cmd \in ReadCommands \cup WriteCommands
               THEN Addressed ELSE NoRange
  /\ UNCHANGED store

\* The task file alone, drive register last: any transfer is given up.
Select(t) ==
  /\ Breaks
  /\ Become(TaskFile(World, t))
  /\ transfer' = "none" /\ expected' = <<>> /\ target' = NoRange
  /\ UNCHANGED store

\* The address of the next command, written while words are still moved.
PrepareNext(t) ==
  /\ transfer # "none"
  /\ Become(AddressRegisters(World, t))
  /\ UNCHANGED <<store, transfer, expected, moved, target, half, commands>>

Reset ==
  /\ Breaks
  /\ Become(WriteControl(World, 4))
  /\ transfer' = "none" /\ expected' = <<>> /\ target' = NoRange
  /\ UNCHANGED store

ReadLow ==
  /\ transfer = "in" /\ DRQ /\ ~half
  /\ Become(ReadDataPort(World))
  /\ moved' = Append(moved, <<DataPortValue(World)>>)
  /\ half' = TRUE
  /\ UNCHANGED <<store, transfer, expected, target, commands>>

ReadHigh ==
  /\ transfer = "in" /\ half
  /\ moved' = [moved EXCEPT ![Len(moved)] = Append(@, high)]
  /\ half' = FALSE
  /\ UNCHANGED <<ata, high, disk, store, transfer, expected, target, commands>>

WriteHigh(word) ==
  /\ transfer = "out" /\ DRQ /\ ~half
  /\ Become(WriteLatch(World, word[2]))
  /\ expected' = Append(expected, word)
  /\ half' = TRUE
  /\ UNCHANGED <<store, transfer, moved, target, commands>>

Flatten(words) == [i \in 1 .. 2 * Len(words) |-> words[(i + 1) \div 2][IF i % 2 = 1 THEN 1 ELSE 2]]

\* With the word after which the status shows neither DRQ nor ERR the driver
\* takes the sectors for written.
WriteLow ==
  /\ transfer = "out" /\ half
  /\ Become(WriteDataPort(World, expected[Len(expected)][1]))
  /\ half' = FALSE
  /\ store' = IF {"DRQ", "ERR"} \cap StatusValue(ata') = {}
              THEN Stored(store, target.lba, Flatten(expected)) ELSE store
  /\ UNCHANGED <<transfer, expected, moved, target, commands>>

Next ==
  \/ \E t \in Tasks, cmd \in CommandBytes : Issue(t, cmd)
  \/ \E t \in Tasks : Select(t)
  \/ \E t \in Tasks : PrepareNext(t)
  \/ Reset
  \/ ReadLow
  \/ ReadHigh
  \/ \E word \in WordValues : WriteHigh(word)
  \/ WriteLow

Spec == Init /\ [][Next]_vars

-----------------------------------------------------------------------------
ATAState ==
  [secCount : Byte, lba0 : Byte, lba1 : Byte, lba2 : Byte, drvHead : Byte,
   status : SUBSET Flags, errReg : Byte, buf : Seq(Byte), bufPos : Nat,
   writing : BOOLEAN, writeLBA : 0 .. LBASpace - 1]

\* Every variable has its type, and the position lies in the buffer or at its end.
TypeOK ==
  /\ ata \in ATAState
  /\ ata.bufPos <= Len(ata.buf)
  /\ high \in Byte
  /\ disk \in [Block -> Sector] /\ store \in [Block -> Sector]
  /\ transfer \in {"none", "in", "out"}
  /\ half \in BOOLEAN

\* DRQ keeps its promise: while the drive asks for data a whole word is there
\* to be moved, and the position never stands before a single last byte, where
\* ReadData16 would read past the buffer (ata.go:103-140).
DRQPromisesAWord ==
  /\ "DRQ" \in ata.status => WordLeft(ata)
  /\ ~HalfWordLeft(ata)

\* The driver and the drive count the same words: a data phase ends exactly
\* with the last word of the sectors that were asked for (ReadData16 and
\* WriteData16, ata.go:103-140; sectorCount, ata.go:142-147).
PhaseEndsOnTime ==
  /\ transfer = "in" => (DRQ <=> Len(moved) < Len(expected))
  /\ transfer = "out" /\ ~half =>
       (DRQ <=> 2 * Len(expected) < target.count * SectorSize)

\* Every word read is the word the driver expects there: the latch gives the
\* high byte that belongs to the low one, and a read returns what was last
\* written, after any broken-off transfer (In8 and Out8, xtide.go:24-52;
\* readSectors, ata.go:189-197).
ReadsReturnWhatWasWritten ==
  transfer = "in" =>
    \A i \in 1 .. Len(moved) :
      /\ i <= Len(expected)
      /\ moved[i] = IF half /\ i = Len(moved) THEN <<expected[i][1]>> ELSE expected[i]

\* The disk holds what the driver has seen confirmed and nothing else: a write
\* reaches it whole, with its last word, or not at all; a broken-off write, a
\* range off the disk and a reset leave it as it was (WriteData16,
\* ata.go:124-140; WriteLBA, harddisk.go:64-71).
DiskHoldsConfirmedWrites == disk = store

(***************************************************************************)
(* As the driver sees it, the disk is an array of blocks.  A word has been *)
(* handed over when its high byte is in the latch, and taken when its low  *)
(* byte has followed the high one.                                         *)
(***************************************************************************)
State ==
  CASE transfer = "none" /\ target = NoRange -> "idle"
    [] transfer = "in" /\ DRQ -> "reading"
    [] transfer = "out" /\ DRQ -> "writing"
    [] OTHER -> IF "ERR" \in StatusValue(ata) THEN "failed" ELSE "done"

Due == IF transfer = "in" THEN expected ELSE <<>>

HandedOver ==
  [i \in 1 .. Len(moved) |-> IF half /\ i = Len(moved) THEN Append(moved[i], high) ELSE moved[i]]
Taken == IF half THEN SubSeq(expected, 1, Len(expected) - 1) ELSE expected

Medium == INSTANCE BlockStore WITH
  blocks <- disk, state <- State, range <- target, due <- Due,
  words <- IF transfer = "out" THEN Taken ELSE HandedOver,
  Word <- WordValues, Identity <- Words(IdentifyBlock)

\* The disk implements an array of blocks: reads of blocks that are there are
\* granted and hand over what the blocks held when asked for, a write changes all
\* of its blocks in one step with its last word, and only ranges that are not
\* there fail (Command, ata.go:152-197; ReadData16 and WriteData16,
\* ata.go:103-140; ReadLBA and WriteLBA, harddisk.go:52-71).
ImplementsBlockStore == Medium!Spec

\* What xtide_test.go:116-119 says: with a disk attached the master, when it is
\* selected, reads as ready, also after the absent slave was addressed.
MasterReadsReady == HasDisk /\ Present(ata) => "DRDY" \in StatusValue(ata)
=============================================================================
