# retronet-pc: a TLA+ model of the machine

retronet-pc emulates an IBM PC/XT. The CPU is a library (retronet-8086); this
repository is the machine around it: the chips, the disks, the buses, the step
that ties them together, and a command line. These modules model the chips and
their composition, the memory bus and the interactive front end; TLC checks them
on small instances, and TLAPS proves the central properties of the interrupt
controller, the timer, the keyboard interface, the floppy controller with its data, the
hard disk, the path from the terminal to the keys, and the assembled machine for every
size.

Everything in the emulator runs on one goroutine, except the reader of stdin in
the interactive mode. What makes it hard is not threads but *order*: software on
the emulated CPU talks to each chip in several port accesses, the timer, the
keyboard and interrupts come between any two of them, and a host key comes between any
two calls of `Run`. The models leave that order open.

## The system: inventory

| Component | State | Operations | Talks to | What makes it correct |
|---|---|---|---|---|
| 8259 `device/pic.go` | irr, imr, isr, base, autoEOI, init step | RaiseIRQ, Acknowledge, Out8 (ICW1, ICW2, ICW4, OCW1, OCW2), In8 | raised by PIT, PPI, FDC; acknowledged by Step | services nest by priority; EOI closes the right one; no line blocked for ever; vectors unambiguous |
| 8253 `device/pit.go` | three counters with reload, latch and two byte toggles | Tick, Out8, In8 | IRQ0 to the PIC, Counter1Out to the DMA | no drift, no lost or invented terminal count; latched reads are whole |
| 8255 `device/ppi.go` | port B, switches, current code, queue, delay | PressScancode, Tick, Out8, In8 | IRQ1 to the PIC; keys from the front end | codes in order, each once; INT 9 not nested; queue drains |
| 8237 `device/dma.go` | four channels, flip-flop, terminal-count bits | Out8/In8, PageOut/In, RefreshCycle, TransferTo/FromMemory | PIT (refresh), FDC (channel 2), memory | count and status account for the bytes moved |
| 765 `device/fdc.go`, `disk/floppy.go` | DOR, phase, command and result buffers, cylinders, ST0, pending interrupt; the image | writeDOR, writeData, readData | DMA, memory, IRQ6 | status keeps its promises; what was moved and what is reported agree; always back to idle |
| ATA `device/ata.go`, `disk/harddisk.go` | task file, status, buffer and position, write in progress; the blocks | WriteReg, ReadReg, WriteDevCtl, ReadData16, WriteData16 | the disk; driven by the card | DRQ keeps its promise; a write is all or nothing; reads return what was written |
| XT-IDE `device/xtide.go` | the latch of the high byte | In8, Out8 | ATA | halves of a word stay together |
| I/O bus `io/ports.go` | list of mappings | In8, Out8 | every device | first mapping wins |
| Machine `machine/machine.go` | the wiring | Step, Run, Load..., UseCGA | all of it, and the CPU | interrupts wake the CPU, ticks and keys are not lost, the main program goes on |
| Memory `memory/bus.go` | 1 MB, ROM ranges | Read8, Write8, LoadRAM, LoadROM | DMA, CPU, video | ROM stays as loaded |
| Video `device/textvideo.go`, POST latch `device/post.go` | index and registers; one byte | In8, Out8, Render | memory | the screen shown is the one in memory |
| Scan codes `device/scancodes.go` | none | PressKey, Type | PPI | make and break codes pair up |
| Front end `cmd/retronet-pc/interactive.go` | channel, escape parser, step budget, last screen | the reader goroutine, feed, flush, the frame loop, renderFrame | scan codes, Run, Screen | no byte lost; sequences become keys; the screen shown is current; the loop ends when asked |
| Command line `cmd/retronet-pc/main.go`, raw mode | none of its own | flags, files, terminal modes | Load..., Run | pure I/O |

The hazards of each part, with the line where they bite and the property
that watches them, are listed in `PROJECT.json`; those without a property say why.

## The modules

All chips are written the same way: a record for the Go struct, and for each
method an operator from the record to the record it leaves (and one for what it
returns or calls back). A module with VARIABLES then puts the operators under
an environment. This lets the same definitions be checked alone, composed and proved
about. None uses RECURSIVE.

| Module | Models | Extends / instantiates |
|---|---|---|
| `Bits`, `Words` | bit tests; 16-bit registers as two digits of base `Radix` | |
| `PIC` | the 8259 as operators and as a specification of its own | Bits |
| `PICService` | `PIC` plus history: the order in which open services were opened (`above`), and an INTA inside an initialization (`dirtyInit`); its properties | PIC |
| `PICProofs` | theorems about `PICService` | PICService, TLAPS |
| `PIT` | the 8253 as operators; the loop of `tick` in closed form | Bits, Words |
| `PITClock` | the 8253 under ticks and port accesses, with the history of strokes and callbacks | PIT |
| `WordProofs` | lemmas on words, digits, quotients and rests, for the proofs | Words, TLAPS |
| `PITProofs` | theorems about `PITClock` | PITClock, WordProofs, TLAPS |
| `PPI` | the 8255 and the keyboard queue as operators | Bits |
| `Keyboard` | `PPI` and its request line under any software; properties | PPI, KeyQueue |
| `KeyQueue` | abstract specification: what the keyboard promises to software, a queue of codes with one request for each | |
| `KeyboardProofs` | theorems about `Keyboard`, the refinement included | Keyboard, TLAPS |
| `Memory` | the memory bus with its ROM ranges as operators | |
| `DMA` | the 8237 as operators | Bits, Words |
| `FDC` | the 765 with image and channel 2, on the memory bus; the loop of `readWrite` in closed form | DMA, Memory |
| `Floppy` | `FDC` under a driver; properties | FDC |
| `FloppyProofs` | theorems about `Floppy` | Floppy, WordProofs, TLAPS |
| `ATA` | ATA channel, XT-IDE latch and disk as operators | Bits |
| `HardDisk` | `ATA` under a driver that keeps its own account of the disk; properties | ATA, BlockStore |
| `BlockStore` | abstract specification: what the hard disk promises to a driver, an array of blocks whose ranges are read and written whole | |
| `HardDiskProofs` | theorems about `HardDisk`, the refinement included | HardDisk, TLAPS |
| `Machine` | `Step` on PIC, PIT, PPI, DMA and the POST latch wired as in `NewXT`, with a CPU that runs a program | instances of PIC, PIT, PPI, DMA |
| `MachineProps` | properties of the assembled machine | Machine |
| `MachineProofs` | theorems about `MachineProps` | MachineProps, TLAPS, instances of KeyboardProofs and WordProofs |
| `TextVideo` | the 6845 text adapter and its rendering as operators | Bits, Memory |
| `ScanCodes` | keys and typed bytes to scan codes | |
| `KeyTranslator` | the escape-sequence parser: bytes of the terminal to keys | ScanCodes |
| `Interactive` | the reader goroutine, the channel and the frame loop, with what the loop sees of the machine | KeyTranslator, TextVideo |
| `InteractiveProps` | what the interactive mode owes to its user | Interactive |
| `InteractiveProofs` | theorems about `InteractiveProps` | InteractiveProps, TLAPS |
| `MC...` | the values of the constants for TLC | one of the above |

Correspondence of the main actions:

* `PIC!Raise`, `INTA`, `Command`, `Data` are `RaiseIRQ`, `Acknowledge` and `Out8`
  on ports 0x20 and 0x21. Registers with one bit per line are sets of lines.
* `PITClock!ClockTick` is `Tick`; `WriteLowHalf` and `WriteAndLoad` are the two
  outcomes of `Out8` on a counter; `LatchCommand` and `SetMode` are
  `controlWord`; `Read` is `In8`.
* `Machine!Step` is `Step`: the timer, then the keyboard, then an interrupt, or
  nothing in HLT, or one instruction. The callbacks run inside it, as in the
  code. `KeyGoesDown` is `PressScancode`, between two steps.
* `Floppy!StartCommand` and `SendParameter` are `writeData` with everything it
  executes; `ReadResult` is `readData`; `Reset` is `writeDOR`; `SetupChannel` is the driver's
  routine on the DMA ports.
* `Keyboard!KeySends`, `Clock` and `SoftwareWrites` are `PressScancode`, `Tick` and
  `Out8`, each with the IRQ1 it calls; `InterruptTaken` is the acknowledgement
  that clears the request. Nothing is assumed of the software.
* `Interactive!Read`, `Send` and `HangUp` are the steps of the reader
  goroutine: a read of any length, one send on the channel (it waits while the
  channel is full), the closing. The frame loop has one action per place where
  the goroutine can run in between: `StartFrame` (the ticker),
  `TakeByte` and `FindsItClosed` (the select), `EndDrain` (its default, with flush,
  the test of `quit` and the budget), `MachineStep` (one step of `Run`),
  `MachineFails`, `EndFrame` (renderFrame and the test of the limit).
* `HardDisk!Issue` writes registers 2 to 7; `ReadLow`, `ReadHigh`, `WriteHigh`,
  `WriteLow` are single accesses to the ports of the card; `PrepareNext` writes registers in
  mid-transfer; `Select` and `Reset` give a transfer up.

The CPU is outside the repository. `Machine` gives it what `machine.go` asks of
it (InterruptsEnabled, Interrupt, Halted, Step), on OUT, IN, STI, CLI, HLT,
jumps, IRET, and `TAKE`, which stands for the BIOS storing a key code. What a program may be is
`SoftwareAssumption`: instructions over ports of 16 bits and values of a byte,
a target inside the program for every jump and each of the 256 vectors, and no last
instruction that falls off the end. IRET needs an interrupted context to return
to: the deadlock check of the run shows that no program returns from an interrupt
that never came.

## The runs

| Run | Asks | Instance |
|---|---|---|
| `pic` | nesting, EOI, Auto-EOI | 4 lines; every kind of ICW and OCW byte, unaligned base included |
| `timer` | exactness of both clocks, whole reads | counters 0 and 1, `Radix` 2 (16-bit registers become 2-digit ones), ticks of several sizes, at most `MaxElapsed` strokes between two loads |
| `machine` | key order, no nesting, no lost tick, every key taken, main program goes on, the DMA test passes again and again | two programs: a boot program with the BIOS's order of initialization, an INT 8 and an INT 9 that enables interrupts early, and 3 keys; the DMA test of the POST with counter 1 at a short period, channel 0 and timer interrupts in between |
| `keyboard` | a queue of codes, one IRQ1 each, at their distance; port A shows what was announced; a waiting code comes | 2 codes, a queue of 3, all four settings of PB6 and PB7, a delay of 4 strokes in ticks of 1 and 3; any software |
| `interactive` | no byte lost, keys whole and in order, no key left down, the screen shown is current, the loop ends | 12 keys of the terminal (text, Shift, Ctrl, ESC, CSI and SS3 sequences, UTF-8, Ctrl+]), any two in a row; reads of 1 and 2 bytes, a channel of 2; frames of 1 and 2 steps, a limit of 5; a screen of 2 cells on a page of 4 |
| `floppy` | phases, interrupts, data, counts, ROM untouched, back to idle | 2 cylinders x 1 head x 2 sectors of 2 bytes, 2 pages of memory with a ROM of 2 bytes across their border; every implemented command, one unknown one and one of those whose parameters are read but that is not implemented; with and without a disk |
| `harddisk` | DRQ, length of phases, data, all-or-nothing writes; an array of blocks that refuses only what is not there | 3 blocks of one word; LBA and CHS, a count of 0, ranges across and behind the end, the slave; 4 commands |
| `timer_irq0`, `floppy_drive1`, `ata_slave`, `keyboard_disabled`, `interactive_cursor` | one statement of a comment or test each, which the code does not keep | as above |

Why the bounds are enough. *Radix* replaces 256: every wrap in `pit.go` and
`dma.go` is at a multiple of a byte or of a word, so a small radix keeps all
the boundaries and makes them reachable. *Keys* = 3: one presented, one waiting in the
delay, one queued behind it. *KbReloadDelay* and *TimerCycles* keep the
code's relation that the delay is longer than INT 9. *MaxCommands* in `harddisk` leaves
room for a write, a broken-off write, a read back and a failure. In
`floppy` the bounds in `used` (two commands of which both may move data, two
writes to the DOR, one channel setup) allow a second command to meet what the
first left behind, with a reset or a new channel setup between any two bytes.
In `keyboard` the queue of 3 has a head, a successor and one that is appended; the delay
is not a multiple of one kind of tick, so that it is both met and overrun. In
`interactive` two keys are enough for the second to meet what the first left in the parser,
and the longest sequences are longer than the channel and a read, so that they are
cut at every place by reads, by a full channel and by frames.

The geometry, the word size and the block count are small; the formulas are those of
the code. In `ATA`, `LBASpace` is where the unsigned block arithmetic wraps (2^32 in
the code, 2^30 here: the assumption asks that 28-bit LBA addresses fit, and TLC's
integers have 31 bits).

Deadlock. `floppy`, `harddisk` and their violation runs check no deadlock:
their drivers stop once the bounds on commands are used up. `interactive` checks none because its
loop may end. The others never stop.

Fairness. `Machine!Spec` assumes weak fairness of `Step`: the host calls `Run`
in a loop for as long as it wants the machine to go on (`main.go`,
`interactive.go`), and a step is always possible. Nothing is assumed about keys.
`Floppy!Spec` assumes that a driver that has begun a command sends its
remaining bytes and reads its results; it assumes nothing about new commands,
channel setups or resets. `Keyboard!Spec` assumes that the keyboard is ticked
again and again (`Step` does it first of all); keys, software and interrupts may stop for good.
`Interactive!Spec` assumes weak fairness of the frame loop (the ticker fires, `Run` is
bounded by the budget), of reads while there is input, and of sends while there is room (the Go
scheduler runs a goroutine that can run); the terminal may never hang up.

### Findings

* `timer_irq0`: comments in `pit.go` say that IRQ0 is called at every terminal
  count; `Tick` calls it once however many there were. With the machine's 8 strokes per step
  this shows for reloads below 8.
* `floppy_drive1`: the disk is documented as that of drive 0, but the drive
  number of a data command does not choose it: drive 1 reads and writes the same disk.
* `ata_slave`: a command to the absent slave clears the status of the channel,
  which is the master's: selected again, the master reads as not ready until its
  next command. The test expects it to be ready after selection.
* `keyboard_disabled`: PB7 is said to disable the keyboard, and `PressScancode`
  honours it, but `Tick` presents the next code, with its IRQ1, while PB7 is up.
  Software that holds PB7 up to read the switches gets an INT 9 whose handler reads the
  switches as a scan code. The queue stays in order all the same (`ImplementsKeyQueue`).
* `interactive_cursor`: `renderFrame` returns when the text has not changed, so a frame in
  which only the cursor moved leaves the terminal's cursor where it was, though
  the comment has it placed "dove lo tiene il 6845".

## What is proved

Each module `...Proofs` proves, for every value of the constants that its
assumptions admit, that an inductive invariant `IInv` holds of the specification
(`Invariance`), and draws the properties from it. There is a lemma per action, and under
them lemmas about single fields and operators. The bounds of the runs (`MaxCommands`,
`used`, `Radix`, the size of a disk, of a channel, of a queue) are no bounds of the
proofs: they are constants of any value, and a proof never uses those that only cap a
counter. What the proofs share about 16-bit registers and their halves is in `WordProofs`.

| Module | Theorems | What they say |
|---|---|---|
| `PICProofs` | `TypeCorrect`, `PriorityNesting`, `EOIClosesLatest`, `AutoEOISafe`, `VectorsNameLines` | the registers keep their types; services nest by priority; a non-specific EOI closes the service opened last; in Auto-EOI mode nothing stays in service; vectors are unambiguous and fit a byte |
| `PITProofs` | `TypeCorrect`, `SystemClock`, `RefreshClock`, `LatchedReads` | neither clock drifts, however strokes are grouped into calls; the halves of a latched read belong together |
| `KeyboardProofs` | `TypeCorrect`, `PortACorrect`, `DistanceKept`, `Refinement` | port A shows what was announced; codes keep their distance; under any software the 8255 implements `KeyQueue` |
| `FloppyProofs` | `TypeCorrect`, `PhaseCorrect`, `InterruptExplained`, `ROMSafe` | types; the status promises no byte that is not there; every IRQ6 has an answer; no transfer changes a ROM |
| | `ReadsDeliver`, `WritesStore`, `CountsAccounted` | a normal read has put the sectors it reports into memory and nothing else; a write has changed the sectors it reports and no others; the count of the channel accounts for the bytes moved |
| `HardDiskProofs` | `TypeCorrect`, `WordIsThere`, `CountsAgree`, `ReadsAreTrue`, `WritesAreWhole` | types; DRQ keeps its promise; drive and driver count the same words; every word read is the one on the disk; the disk holds exactly the confirmed writes |
| | `Refinement` | channel, latch and disk implement `BlockStore` |
| `InteractiveProofs` | `TypeCorrect`, `NothingLost`, `KeysArrive`, `KeysComeUp`, `ScreenCurrent` | types, the capacity of the channel and the limit of steps; no byte lost or overtaken; the machine gets the codes of the keys fed, complete and in order, unless a flush cuts a key; every key that goes down comes up; the screen shown is current |
| `MachineProofs` | `TypeCorrect`, `KeysWaitInOrder` | whatever program runs, the devices keep their types and the CPU stays in the program; the codes in the keyboard interface are the last ones sent, in order, and port A shows the oldest announced |

### The interrupt controller (`PICAssumption`: 1 to 8 lines, the host writes bytes)

`IInv` joins `TypeOK`, `NestingFollowsPriority`, `AutoEOINeverBlocks` and
`VectorNamesLine` with two facts they need. `CleanInit`: during an initialization
sequence without an INTA nothing is in service; without it the step that sets Auto-EOI
(ICW4) could find a service open from before. `BaseAligned`: the base is a multiple
of 8 of at most 248; without it `VectorNamesLine` says nothing of the sum for lines the
chip does not have. `VectorNamesLine` is left out of the
run, as the theorem says all there is to say of it. The INTA step rests on `OfferedLine`: the line offered is
strictly above all in service. `EOIClosesLatest` follows from the invariant in one
step: the highest line in service is the one that is above all others.

### The timer (`RadixAssumption`, `PITAssumption`, `PITClockAssumption`)

The radix is any number above 1, so 256 is one case: the theorems speak of the
16-bit registers of the code. `IInv` adds to the types, per counter, `Due`: the strokes
since it was loaded and those that are left make one period more than its callbacks
account for, and no more than a period is left. From it the division in the two clock
properties follows (`elapsed` lies between `calls` and `calls + 1` periods). For counter 0 it
is claimed only as long as no call brings more strokes than a period
(`Regular`), which is what `timer_irq0` shows to be necessary. `HalfRead` ties the latch to the
count whose low byte was read.

### The keyboard (`KeyboardAssumption`: a delay above 0, codes 1 to 255)

`LatchShowsCurrent` says that the latch on port A holds the current code;
`DelayCoversRest` that the delay that remains and the strokes since the last clear
together make at least the whole delay; with it a key code can only appear when the
distance is kept. `Refinement` maps the current code and the queue behind it to the
queue of `KeyQueue` and shows that every step of the 8255 is a step of the queue or a
stutter.

### The floppy controller (`GeometryAssumption`, `DMAAssumption`, `DriverAssumption`)

The commands are sequences of bytes of any content and number, the memory any
contents with any ROM ranges. `PhaseHolds` says that in the command phase fewer bytes have come than
the opcode asks for, and in the result phase some are left. `InterruptIsExplained`
needs it: Sense Interrupt Status is the one command that takes `intPending` back, it
has no parameters, and so no command that is under way can turn out to be one. `ROMSafe`
needs no phase at all: the ROM ranges never change, and of all handlers
only a read from the disk writes to memory, through `Write8`, which skips a ROM.

The data have an invariant of their own, `DataInv`: the types, a result of at most
seven bytes that is read no further than its end, and the ROM ranges. The three theorems on
data are about one step, the one in which a command gets its last parameter and
`readWrite` runs to its end. They rest on the closed form of its loop: `Offset` maps the sectors of
a track to intervals of the image that follow each other, so that the k-th byte of the transfer is
the k-th from the first sector on; the channel stays in its page, so that it goes to or comes from
the k-th address; and the number of sectors is the smallest one that uses up the count or
reaches EOT. The last exists because a set of naturals that is not empty
has a smallest element, by the library's well-founded induction.
`WithinPage` is part of the two properties on data, as the channel turns over in its page; what
becomes of the count (`CountsAccounted`) is proved with the turn.

### The hard disk (`ATAAssumption`, `HardDiskAssumption`: the task file holds bytes)

`Drive` is what the drive keeps by itself: the buffer has an even length, the
position is even and not behind the end, and DRQ is only shown before the end. It holds
because every buffer is a number of sectors, the IDENTIFY block (even by assumption) or
empty. `In` and `Out` tie it to the driver: during a transfer in, the driver expects the words
of the buffer and stands at the drive's position, and the latch has the high byte of
the word it has begun; during a transfer out, the buffer up to the position is what the
driver has sent, for the range the command named, or the whole buffer has gone.
`CommandKeeps` and `WriteMoves` say what a command and a word do; the range check
(`AcceptedRange`) is proved against the unsigned subtraction of the code; it
needs 28-bit addresses to fit below `LBASpace`. `Contents` adds the types of the registers, the
latch, the disk and the words the driver is sending. The buffer of a broken-off transfer keeps bytes,
and what reaches the disk is cut from it a whole sector at a time.

`Refinement` maps the drive to the array of `BlockStore`. The blocks are those of the
disk, the range is the one the driver named, and the state is read off what the driver sees: a
transfer goes on while DRQ is set and has failed if ERR is. A word counts as handed over when its low
byte has been read, and as taken when its low byte has followed the high one, so an access to
the latch is a stutter when the word ends with the other one. The other properties
hold of a drive that refuses too much; this one says that a command fails only if its
range is not there (`CommandAnswers`), with the address in LBA or in CHS. It also says that the buffer
filled by a read is the content of the range at the moment of the command (`ContentIs`), and that the
last word of a write changes all blocks of its range and no other in one step (`PutIs`).
There is a lemma per action (`IssueMaps`, `ReadLowMaps`, `WriteLowMaps`; `Stutters`
and `GivesUp` for the rest). It needs two facts nothing else does: what the driver is
sending are words, for a range of at least one block (`Sending`), and ERR is never shown during a transfer in.

### The interactive mode (`InteractiveAssumption`, `KeyMapAssumption`, `UserAssumption`)

For every input, every size of the channel and of a read, every budget: `PipeOK` (the
reader, the channel and what was fed make up what was typed), `LoopOK` (steps executed and
steps granted keep the limit), `TranslatorOK` and `ScreenOK` (what is shown is the
screen, except in mid-frame), and `Balanced`: in what was typed each make code occurs as often
as its break. It holds because no state of the parser lets a part of a key out:
`press` and `Type` return the down and the up codes together, modifiers around the key in
reverse order. It needs the layout to name keys by make codes of 1 to 88
(`KeyMapAssumption`); a code with the high bit set would be its own break.

`KeysArrive` is about what the bytes mean, so it needs to know what a user may type
(`UserAssumption`): each key is Esc, a character, a character of which the layout knows no
byte, an SS3 or a CSI sequence, and after Esc no key that begins with `[` or `O`, as the bytes of
the two would be those of a sequence. The codes of CSI and SS3 keys are those `csiFinal` and
`arrowOrFn` name for their last byte; the run gives them as numbers of the XT keyboard, and
TLC evaluates the assumption there. The invariant behind it, `ParsedOK`, says where the
parser is: the fed bytes are those of n whole keys and j of the next, `typed` is the codes of the n
keys, and state and parameters are what j bytes of the next key leave; or the last of
the n keys is an Esc that the parser still holds back. It holds until a flush cuts a key.
`FeedKey` takes one byte from any such place to the next, `FeedAfterEscape` the byte
that follows a held Esc, and `PositionCounts` ties n to `KeysFed`, which counts bytes.
The keys are folded to bytes and codes by `FlattenSeq`; `FlattenAdds` says what one key
more does, and what holds for every number of keys (`UpTo`) comes from the smallest
number for which it would not.

### The assembled machine (`MachineAssumption`, `SoftwareAssumption`)

The program is any that `SoftwareAssumption` admits: it may write any port in any order, mask
interrupts, reset the keyboard, or reprogram the timer in its handlers. Each operation of
a device is shown to keep its state (a lemma per port), then the wiring to hand
on values in range (`Ticked`, the bus, the interrupt), then a case for each
instruction. The invariant adds to the types that the vector base is a multiple of 8, so that
base and line make a byte and the CPU finds a handler, and `QueueOK`: the codes
that wait are the end of those sent, and the latch on port A holds the code announced. The lemmas on
the 8255 are those of `KeyboardProofs`, used through an instance on the machine's
state, where the interface hears of keys, strokes and port writes from `Step` and the bus.
`CodesWaitInOrder` is proved for every program and is therefore not among the
properties of the run, which looks at the order in which particular programs take
the codes (`KeysTakenInOrder`).

### Only model-checked

* Liveness (`EveryKeyTaken`, `MainProgramRuns`, `RefreshIsSeen`, `WaitingCodeComes`,
  `ReturnsToIdle`, `EndsWhenAsked`): fairness and ENABLED are out of the prover's reach.
* What particular programs do with the machine: `KeysTakenInOrder`, `NoNestedINT9` and
  `NoTickLost` compare the length of a handler with the keyboard's delay and the period
  of the timer. They hold for the programs of the run and not for all.

## What is not modelled

The features register of the ATA channel, the control byte of the 8255 and the
mode bits of the 8253 are stored and never read. The content of the IDENTIFY
block and the deduction of the geometry from an image's size are constants, and so is the layout table of
the keyboard. The disk and floppy controllers are not on the bus of `Machine`: their interrupts
and transfers are checked under drivers of their own. The escape sequences that draw
the screen and the period of the ticker are left out; a frame may start at any moment. Flags,
files and terminal modes are pure I/O.

## Plan

Done: the chips, each under an environment of its own; timer, interrupts, keyboard,
refresh and POST latch in the machine; the memory bus under the floppy controller and the
video; the front end from the terminal to the scan codes; the abstract queue of
the keyboard and the abstract array of blocks of the hard disk, each with its refinement; the
theorems above.

Left, in this order:

1. The floppy controller and IRQ6 on the bus of `Machine`, with a second user of the flip-flop of
   the DMA controller.
2. A driver of the hard disk that moves words without looking at DRQ (the buffer of a
   broken-off write stays in place).
3. An abstract specification for `Floppy`, a set of sectors and a memory, with its refinement.
4. Proofs: the refinement of 3; that the machine passes on every terminal count of the
   timer to the interrupt controller, for every program.
