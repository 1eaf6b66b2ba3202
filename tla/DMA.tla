--------------------------------- MODULE DMA ---------------------------------
(***************************************************************************)
(* The 8237 DMA controller, device/dma.go: pure operators on a record.     *)
(* Register widths follow Radix (module Words).                            *)
(***************************************************************************)
EXTENDS Integers, Sequences, Words, Bits

CONSTANTS
  Channels,   \* the channels modelled, of the chip's 0 .. 3
  Pages       \* pages of WordSize bytes in the address space (16 on the XT)

ASSUME DMAAssumption ==
  /\ Channels \subseteq 0 .. 3
  /\ Pages \in Nat \ {0}

MemSize == Pages * WordSize
Address == 0 .. MemSize - 1

ChannelState ==
  [addr : Word, count : Word, page : Digit, mode : Byte, masked : BOOLEAN]

NewChannel == [addr |-> 0, count |-> 0, page |-> 0, mode |-> 0, masked |-> TRUE]

NewDMA ==
  [channels |-> [c \in Channels |-> NewChannel], flipHi |-> FALSE, tcStatus |-> {}]

(***************************************************************************)
(* Registers.  One flip-flop serves the words of all channels.             *)
(***************************************************************************)
WordWritten(w, v, hi) == IF hi THEN WithHigh(w, v) ELSE WithLow(w, v)

WriteAddr(d, c, v) ==
  [d EXCEPT !.channels[c].addr = WordWritten(@, v, d.flipHi), !.flipHi = ~@]
WriteCount(d, c, v) ==
  [d EXCEPT !.channels[c].count = WordWritten(@, v, d.flipHi), !.flipHi = ~@]
WritePage(d, c, v) == [d EXCEPT !.channels[c].page = v]

WriteSingleMask(d, v) ==
  IF v % 4 \notin Channels THEN d
  ELSE [d EXCEPT !.channels[v % 4].masked = Bit(v, 2)]
WriteAllMasks(d, v) ==
  [d EXCEPT !.channels = [c \in Channels |-> [@[c] EXCEPT !.masked = Bit(v, c)]]]
WriteMode(d, v) ==
  IF v % 4 \notin Channels THEN d ELSE [d EXCEPT !.channels[v % 4].mode = v]

ClearFlipFlop(d) == [d EXCEPT !.flipHi = FALSE]
MasterClear(d) == NewDMA

\* Ports 0x00 - 0x0F.
Out8(d, reg, v) ==
  LET c == reg \div 2 IN
  CASE reg \in {0, 2, 4, 6} /\ c \in Channels -> WriteAddr(d, c, v)
    [] reg \in {1, 3, 5, 7} /\ c \in Channels -> WriteCount(d, c, v)
    [] reg < 8 /\ c \notin Channels -> [d EXCEPT !.flipHi = ~@]
    [] reg = 10 -> WriteSingleMask(d, v)
    [] reg = 11 -> WriteMode(d, v)
    [] reg = 12 -> ClearFlipFlop(d)
    [] reg = 13 -> MasterClear(d)
    [] reg = 15 -> WriteAllMasks(d, v)
    [] OTHER -> d

\* Ports 0x80 - 0x8F: the channel a page register belongs to, if any.
PageChannel(reg) ==
  CASE reg = 7 -> {0} [] reg = 3 -> {1} [] reg = 1 -> {2} [] reg = 2 -> {3} [] OTHER -> {}

PageOut(d, reg, v) ==
  [d EXCEPT !.channels =
     [c \in Channels |-> IF c \in PageChannel(reg) THEN [@[c] EXCEPT !.page = v] ELSE @[c]]]

\* What a port reads: half a word of a channel, or a page.
WordRead(d, reg) ==
  LET ch == d.channels[reg \div 2]
      w == IF reg % 2 = 0 THEN ch.addr ELSE ch.count
  IN  IF d.flipHi THEN High(w) ELSE Low(w)
PageIn(d, reg) ==
  IF PageChannel(reg) \cap Channels = {} THEN 255
  ELSE d.channels[CHOOSE c \in PageChannel(reg) : TRUE].page

\* Reading the status register clears the terminal-count bits.
AfterStatusRead(d) == [d EXCEPT !.tcStatus = {}]
AfterWordRead(d) == [d EXCEPT !.flipHi = ~@]

(***************************************************************************)
(* k refresh cycles, called by the timer's counter 1: the count of channel *)
(* 0 runs down to 0, and the cycle after that sets the terminal-count bit  *)
(* and reloads the whole word.                                             *)
(***************************************************************************)
RefreshCyclesStopAtZero(d, k) ==      \* mutant: the reload is lost
  IF k = 0 \/ 0 \notin Channels THEN d
  ELSE [d EXCEPT !.channels[0].count = IF k > @ THEN 0 ELSE @ - k]
RefreshCycles(d, k) ==
  IF k = 0 \/ 0 \notin Channels THEN d
  ELSE [d EXCEPT !.tcStatus = IF k > d.channels[0].count THEN @ \cup {0} ELSE @,
                 !.channels[0].count = (@ - k) % WordSize]

(***************************************************************************)
(* Block transfers on behalf of a device.  Neither the mask nor the mode   *)
(* of the channel is looked at.                                            *)
(***************************************************************************)
Length(ch) == ch.count + 1
MinOf(a, b) == IF a < b THEN a ELSE b

AdvanceEndsEarly(d, c, n) ==          \* mutant: the count is taken as a length
  [d EXCEPT !.channels[c].addr = (@ + n) % WordSize,
            !.channels[c].count = (@ - n) % WordSize,
            !.tcStatus = IF n >= d.channels[c].count THEN @ \cup {c} ELSE @]

\* Address and count advance by n bytes, moved in blocks that are smaller than
\* a word; an underflow of the count is the terminal count, and sets its status
\* bit.
Advance(d, c, n) ==
  [d EXCEPT !.channels[c].addr = (@ + n) % WordSize,
            !.channels[c].count = (@ - n) % WordSize,
            !.tcStatus = IF n > d.channels[c].count THEN @ \cup {c} ELSE @]

\* The address of byte i of a transfer in blocks of size bytes: the low word
\* wraps between two blocks, within one the address runs on into the next page.
TransferAddr(ch, size, i) ==
  (ch.page * WordSize + ((ch.addr + size * (i \div size)) % WordSize) + (i % size)) % MemSize
=============================================================================
