----------------------------- MODULE MCHardDisk -----------------------------
(***************************************************************************)
(* Three blocks of one word each, a logical geometry of one head and two   *)
(* sectors, and a sector count of 0 that stands for four blocks.           *)
(***************************************************************************)
EXTENDS HardDisk

Task(n, lba, head) ==
  [secCount |-> n, lba0 |-> lba, lba1 |-> 0, lba2 |-> 0, drvHead |-> head]

\* LBA (0xE0): one block, two blocks, a range off the disk, the block behind
\* it, the whole count; CHS (0xA0): sector 0 of cylinder 0; the slave (0xF0).
MCTasks ==
  {Task(1, 0, 224), Task(2, 1, 224), Task(2, 2, 224), Task(1, 4, 224), Task(0, 0, 224),
   Task(1, 0, 160), Task(1, 2, 160), Task(1, 0, 240)}

\* READ, WRITE, IDENTIFY, RECALIBRATE and a command the code does not know.
MCCommandBytes == {32, 48, 236, 16, 255}

MCWordValues == {<<1, 2>>, <<3, 4>>}
MCIdentifyBlock == <<64, 0, 9, 8>>
MCInitialDisk == [b \in Block |-> <<10 + b, 20 + b>>]
=============================================================================
