---------------------------- MODULE MachineProofs ----------------------------
(***************************************************************************)
(* Whatever program runs on the assembled machine, whatever keys go down   *)
(* and however the timer is set, the devices keep their registers in range *)
(* and the CPU stays within the program: each operation of a device is     *)
(* shown to keep its state, and the wiring to hand on values in range.     *)
(* The inductive invariant (IInv) adds to the types that the base of the   *)
(* interrupt vectors is a multiple of 8, so that a vector is a byte, and   *)
(* that the codes in the keyboard interface are the last ones sent.        *)
(***************************************************************************)
EXTENDS MachineProps, Integers, SequenceTheorems, TLAPS

Key == Byte \ {0}

Turn == INSTANCE WordProofs
Kbd == INSTANCE KeyboardProofs   \* its lemmas about the operations of the interface
         WITH Codes <- Key, PortBValues <- Byte, Strokes <- {TimerCycles}, MaxQueue <- 0,
              ppi <- xt.ppi, irq1 <- FALSE, rest <- 0

PICOK(p) == p \in Pic!PICState /\ p.base % 8 = 0

PITState == [Counters -> Pit!CounterState]

DMAState ==
  [channels : [Channels -> Dma!ChannelState], flipHi : BOOLEAN, tcStatus : SUBSET Channels]

DevicesOK(x) == x \in XTState /\ PICOK(x.pic)

\* What port A is to show is the code that waits to be cleared.
ShowsCurrent(p) == p.keyboardData = p.kbCurrent

\* The codes that wait are what is left of those sent.
QueueOK(p, all) ==
  ShowsCurrent(p) /\ \E done \in Seq(Key) : all = done \o Waiting(p)

IInv == TypeOK /\ DevicesOK(xt) /\ QueueOK(xt.ppi, sent)

-----------------------------------------------------------------------------
(***************************************************************************)
(* The interrupt controller.                                               *)
(***************************************************************************)

\* It is off at first, and a request changes the pending lines only.
LEMMA PICRaised ==
  /\ PICOK(Pic!NewPIC)
  /\ \A p, line : PICOK(p) => PICOK(Pic!RaiseIRQ(p, line))
<1>1. PICOK(Pic!NewPIC)
  BY DEF PICOK, Pic!NewPIC, Pic!PICState, Pic!Byte, Pic!InitSteps
<1>2. ASSUME NEW p, NEW line, PICOK(p) PROVE PICOK(Pic!RaiseIRQ(p, line))
  BY <1>2 DEF PICOK, Pic!RaiseIRQ, Pic!PICState
<1>3. QED
  BY <1>1, <1>2

\* The offered line is a line of the chip.
LEMMA OfferedLine ==
  ASSUME NEW p, PICOK(p), Pic!Pending(p)
  PROVE  Pic!AcknowledgedLine(p) \in 0 .. 7
<1>1. Pic!HighestPending(p) \subseteq 0 .. 7
  BY MachineAssumption DEF PICOK, Pic!HighestPending, Pic!Highest, Pic!PICState, Pic!Line
<1>2. Pic!HighestPending(p) # {}
  BY DEF Pic!Pending
<1>3. Pic!AcknowledgedLine(p) \in Pic!HighestPending(p)
  BY <1>2 DEF Pic!AcknowledgedLine
<1>4. QED
  BY <1>1, <1>3

\* The INTA cycle keeps the lines, and its vector is a byte: the base is a
\* multiple of 8 and the line is added to it.
LEMMA PICAcknowledged ==
  ASSUME NEW p, PICOK(p)
  PROVE  PICOK(Pic!Acknowledge(p)) /\ Pic!AcknowledgeVector(p) \in Byte
<1>1. Pic!HighestPending(p) \subseteq Pic!Line
  BY DEF PICOK, Pic!HighestPending, Pic!Highest, Pic!PICState
<1>2. PICOK(Pic!Acknowledge(p))
  BY <1>1 DEF PICOK, Pic!Acknowledge, Pic!PICState
<1>3. p.base \in 0 .. 248
  BY DEF PICOK, Pic!PICState, Pic!Byte
<1>4. Pic!AcknowledgeVector(p) \in Byte
  BY <1>3, OfferedLine DEF Pic!AcknowledgeVector, Byte
<1>5. QED
  BY <1>2, <1>4

\* Whatever is written to its ports.
LEMMA PICWritten ==
  ASSUME NEW p, PICOK(p), NEW v \in Byte
  PROVE  PICOK(Pic!WriteCommand(p, v)) /\ PICOK(Pic!WriteData(p, v))
<1>1. PICOK(Pic!BeginInit(p, v))
  BY DEF PICOK, Pic!BeginInit, Pic!PICState, Pic!Bit, Pic!InitSteps
<1>2. PICOK(Pic!HandleOCW2(p, v))
  <2>1. /\ p.isr \ Pic!Highest(p.isr) \in SUBSET Pic!Line
        /\ p.isr \ {v % 8} \in SUBSET Pic!Line /\ p.isr \in SUBSET Pic!Line
    BY DEF PICOK, Pic!PICState
  <2>2. \A s \in SUBSET Pic!Line : PICOK([p EXCEPT !.isr = s])
    BY DEF PICOK, Pic!PICState
  <2>3. QED
    BY <2>1, <2>2 DEF Pic!HandleOCW2
<1>3. PICOK(Pic!WriteCommand(p, v))
  BY <1>1, <1>2 DEF Pic!WriteCommand
<1>4. v - (v % 8) \in Pic!Byte /\ (v - (v % 8)) % 8 = 0
  BY DEF Byte, Pic!Byte
<1>5. PICOK(Pic!SetBase(p, v))
  <2> DEFINE b == v - (v % 8)
  <2>1. b \in Pic!Byte /\ b % 8 = 0
    BY <1>4
  <2> HIDE DEF b
  <2>2. \A i \in Pic!InitSteps : PICOK([p EXCEPT !.base = b, !.initStep = i])
    BY <2>1 DEF PICOK, Pic!PICState
  <2> DEFINE i == IF p.icw4Needed THEN 4 ELSE 0
  <2>3. i \in Pic!InitSteps
    BY DEF Pic!InitSteps
  <2>4. Pic!SetBase(p, v) = [p EXCEPT !.base = b, !.initStep = i]
    BY Zenon DEF Pic!SetBase, b
  <2> HIDE DEF i
  <2>5. QED
    BY <2>2, <2>3, <2>4
<1>6. PICOK([p EXCEPT !.autoEOI = Pic!Bit(v, 1), !.initStep = 0])
  BY DEF PICOK, Pic!PICState, Pic!Bit, Pic!InitSteps
<1>7. PICOK([p EXCEPT !.imr = Pic!BitSet(v, NumLines)])
  BY DEF PICOK, Pic!PICState, Pic!BitSet, Pic!Line
<1>8. PICOK(Pic!WriteData(p, v))
  BY <1>5, <1>6, <1>7 DEF Pic!WriteData
<1>9. QED
  BY <1>3, <1>8

-----------------------------------------------------------------------------
(***************************************************************************)
(* The timer.                                                              *)
(***************************************************************************)

\* Digits, words and bytes.
LEMMA Ranges ==
  /\ Radix \in 2 .. 256 /\ Turn!RadixAssumption
  /\ Pit!WordSize = Turn!WordSize /\ Dma!WordSize = Turn!WordSize
  /\ Pit!WordSize \in Nat \ {0}
  /\ Pit!Word = 0 .. Pit!WordSize - 1 /\ 0 \in Pit!Word
  /\ Turn!Word = Pit!Word /\ Dma!Word = Pit!Word
  /\ Turn!Digit = Pit!Digit /\ Dma!Digit = Pit!Digit /\ Pit!Digit \subseteq Byte
  /\ 0 \in Pit!Digit
<1>1. Radix \in 2 .. 256 /\ Turn!RadixAssumption
  BY MachineAssumption DEF Turn!RadixAssumption
<1>2. Pit!WordSize = Turn!WordSize /\ Dma!WordSize = Turn!WordSize
  BY DEF Pit!WordSize, Dma!WordSize, Turn!WordSize
<1>3. Turn!WordSize \in Nat \ {0} /\ 0 \in Turn!Word
  BY <1>1, Turn!TurnIsPositive
<1>4. /\ Pit!Word = 0 .. Pit!WordSize - 1 /\ Dma!Word = 0 .. Dma!WordSize - 1
      /\ Turn!Word = 0 .. Turn!WordSize - 1
  BY DEF Pit!Word, Dma!Word, Turn!Word
<1>5. /\ Turn!Digit = Pit!Digit /\ Dma!Digit = Pit!Digit /\ Pit!Digit \subseteq Byte
      /\ 0 \in Pit!Digit
  BY <1>1 DEF Turn!Digit, Pit!Digit, Dma!Digit, Byte
<1>6. QED
  BY <1>1, <1>2, <1>3, <1>4, <1>5

\* Each register takes the values of its type.
LEMMA CounterChanges ==
  ASSUME NEW c \in Pit!CounterState
  PROVE  /\ \A x \in Pit!Word : [c EXCEPT !.reload = x] \in Pit!CounterState
         /\ \A x \in Pit!Word : [c EXCEPT !.count = x] \in Pit!CounterState
         /\ \A x \in Pit!Word : [c EXCEPT !.latch = x] \in Pit!CounterState
         /\ \A x \in 0 .. 3 : [c EXCEPT !.access = x] \in Pit!CounterState
         /\ \A x \in BOOLEAN : [c EXCEPT !.writeHi = x] \in Pit!CounterState
         /\ \A x \in BOOLEAN : [c EXCEPT !.readHi = x] \in Pit!CounterState
         /\ \A x \in BOOLEAN : [c EXCEPT !.latched = x] \in Pit!CounterState
         /\ \A x \in BOOLEAN : [c EXCEPT !.running = x] \in Pit!CounterState
  BY DEF Pit!CounterState

\* What the halves of a word are, and what writing one makes of it.
LEMMA Halves ==
  ASSUME NEW w \in Pit!Word, NEW v \in Pit!Digit
  PROVE  /\ Pit!Low(w) \in Byte /\ Pit!High(w) \in Byte
         /\ Pit!WithLow(w, v) \in Pit!Word /\ Pit!WithHigh(w, v) \in Pit!Word
         /\ v \in Pit!Word /\ v * Radix \in Pit!Word
<1>1. Turn!RadixAssumption /\ w \in Turn!Word /\ v \in Turn!Digit /\ 0 \in Turn!Digit
  BY Ranges
<1>2. Turn!WithLow(w, v) \in Turn!Word /\ Turn!WithHigh(w, v) \in Turn!Word
  BY <1>1, Turn!HalvesWritten
<1>3. w % Radix \in Turn!Digit /\ w \div Radix \in Turn!Digit
  BY <1>1, Turn!Digits
<1>4. v * Radix \in Turn!Word /\ v \in Turn!Word
  BY <1>1, Turn!FromDigits
<1>5. /\ Pit!WithLow(w, v) = Turn!WithLow(w, v) /\ Pit!WithHigh(w, v) = Turn!WithHigh(w, v)
      /\ Pit!Low(w) = w % Radix /\ Pit!High(w) = w \div Radix
  BY DEF Pit!WithLow, Turn!WithLow, Pit!WithHigh, Turn!WithHigh, Pit!Low, Pit!High
<1>6. QED
  BY <1>2, <1>3, <1>4, <1>5, Ranges

\* A stroke leaves the count a word, and counts a natural number of pulses.
LEMMA CounterTicked ==
  ASSUME NEW c \in Pit!CounterState
  PROVE  /\ Pit!CounterTick(c, TimerCycles) \in Pit!CounterState
         /\ Pit!Pulses(c, TimerCycles) \in Nat
<1> DEFINE n == TimerCycles
           period == Pit!Period(c)
           left == Pit!Remaining(c)
           pulses == Pit!Pulses(c, n)
<1>1. c.reload \in Pit!Word /\ c.count \in Pit!Word
  BY DEF Pit!CounterState
<1>2. period \in Nat \ {0} /\ left \in Nat \ {0} /\ n \in Nat
  BY <1>1, Ranges, MachineAssumption DEF Pit!Period, Pit!Remaining
<1>3. pulses \in Nat
  <2>1. CASE ~c.running \/ n < left
    BY <2>1 DEF Pit!Pulses
  <2>2. CASE ~(~c.running \/ n < left)
    <3>1. pulses = (n - left) \div period + 1
      BY <2>2 DEF Pit!Pulses
    <3> HIDE DEF pulses, left, period, n
    <3>2. n - left \in Nat
      BY <1>2, <2>2
    <3>3. (n - left) \div period \in Nat
      BY <1>2, <3>2, Turn!QuotientAndRest, Ranges
    <3>4. QED
      BY <3>1, <3>3
  <2>3. QED
    BY <2>1, <2>2
<1>4. (left + pulses * period - n) % Pit!WordSize \in Pit!Word
  <2> HIDE DEF pulses, left, period, n
  <2>1. pulses * period \in Int
    BY <1>2, <1>3
  <2>2. left + pulses * period - n \in Int
    BY <1>2, <2>1
  <2>3. QED
    BY <2>2, Ranges
<1>5. Pit!CounterTick(c, n) \in Pit!CounterState
  BY <1>4, CounterChanges DEF Pit!CounterTick
<1>6. QED
  BY <1>3, <1>5

\* So the timer ticks, and calls back a natural number of times.
LEMMA TimerTicks ==
  ASSUME NEW t \in PITState
  PROVE  /\ Pit!Tick(t, TimerCycles) \in PITState
         /\ Pit!RefreshCalls(t, TimerCycles) \in Nat
<1>1. \A c \in Counters : t[c] \in Pit!CounterState
  BY DEF PITState
<1>2. QED
  BY <1>1, CounterTicked DEF Pit!Tick, PITState, Pit!RefreshCalls

\* A counter is loaded by a digit of its word.
LEMMA CounterWritten ==
  ASSUME NEW c \in Pit!CounterState, NEW v \in Pit!Digit
  PROVE  Pit!WriteCounter(c, v) \in Pit!CounterState
<1>1. \A d \in Pit!CounterState : \A x \in Pit!Word : Pit!Load(d, x) \in Pit!CounterState
  <2> SUFFICES ASSUME NEW d \in Pit!CounterState, NEW x \in Pit!Word
               PROVE  Pit!Load(d, x) \in Pit!CounterState
    OBVIOUS
  <2> DEFINE a == [d EXCEPT !.reload = x]
             b == [a EXCEPT !.count = x]
             e == [b EXCEPT !.running = TRUE]
  <2>1. a \in Pit!CounterState
    BY CounterChanges
  <2> HIDE DEF a
  <2>2. b \in Pit!CounterState
    BY <2>1, CounterChanges
  <2> HIDE DEF b
  <2>3. e \in Pit!CounterState
    BY <2>2, CounterChanges
  <2>4. Pit!Load(d, x) = e
    BY DEF Pit!Load, Pit!CounterState, e, b, a
  <2>5. QED
    BY <2>3, <2>4
<1>2. /\ v \in Pit!Word /\ v * Radix \in Pit!Word
      /\ Pit!WithLow(c.reload, v) \in Pit!Word /\ Pit!WithHigh(c.reload, v) \in Pit!Word
  BY Halves DEF Pit!CounterState
<1>3. /\ Pit!Load(c, v) \in Pit!CounterState /\ Pit!Load(c, v * Radix) \in Pit!CounterState
      /\ Pit!Load(c, Pit!WithHigh(c.reload, v)) \in Pit!CounterState
  BY <1>1, <1>2
<1>4. [Pit!Load(c, Pit!WithHigh(c.reload, v)) EXCEPT !.writeHi = FALSE] \in Pit!CounterState
  BY <1>3, CounterChanges
<1>5. [c EXCEPT !.reload = Pit!WithLow(@, v), !.writeHi = TRUE] \in Pit!CounterState
  <2> DEFINE a == [c EXCEPT !.reload = Pit!WithLow(c.reload, v)]
  <2>1. a \in Pit!CounterState
    BY <1>2, CounterChanges
  <2>2. [c EXCEPT !.reload = Pit!WithLow(@, v), !.writeHi = TRUE] = [a EXCEPT !.writeHi = TRUE]
    BY DEF Pit!CounterState
  <2> HIDE DEF a
  <2>3. QED
    BY <2>1, <2>2, CounterChanges
<1>6. QED
  BY <1>3, <1>4, <1>5 DEF Pit!WriteCounter

\* A control word latches or configures one counter.
LEMMA TimerControlled ==
  ASSUME NEW t \in PITState, NEW v \in Byte
  PROVE  Pit!ControlWord(t, v) \in PITState
<1>1. ASSUME NEW c \in Pit!CounterState PROVE Pit!LatchCount(c) \in Pit!CounterState
  BY DEF Pit!LatchCount, Pit!CounterState
<1>2. ASSUME NEW c \in Pit!CounterState PROVE Pit!Configure(c, v) \in Pit!CounterState
  <2>1. Pit!AccessOf(v) \in 0 .. 3
    BY DEF Pit!AccessOf, Byte
  <2>2. QED
    BY <2>1 DEF Pit!Configure, Pit!CounterState
<1>3. QED
  BY <1>1, <1>2 DEF Pit!ControlWord, PITState

\* A read returns a byte and moves on.
LEMMA CounterRead ==
  ASSUME NEW c \in Pit!CounterState
  PROVE  Pit!AfterRead(c) \in Pit!CounterState /\ Pit!ReadByte(c) \in Byte
<1>1. Pit!Presented(c) \in Pit!Word
  BY DEF Pit!Presented, Pit!CounterState
<1>2. Pit!ReadByte(c) \in Byte
  BY <1>1, Halves, Ranges DEF Pit!ReadByte
<1>3. Pit!AfterRead(c) \in Pit!CounterState
  BY DEF Pit!AfterRead, Pit!CounterState
<1>4. QED
  BY <1>2, <1>3

-----------------------------------------------------------------------------
(***************************************************************************)
(* The keyboard interface.                                                 *)
(***************************************************************************)

\* It is the interface whose operations KeyboardProofs follows, with every byte a
\* code, a value of port B and a state of the switches.
LEMMA KeyboardFits == Kbd!KeyboardAssumption /\ PPIState = Kbd!PPIState
<1>1. Key \subseteq 1 .. 255 /\ Byte = 0 .. 255
  BY DEF Key, Byte
<1>2. Kbd!KeyboardAssumption
  BY <1>1, MachineAssumption DEF Kbd!KeyboardAssumption
<1>3. {0, Kbd!SelfTestPassed} \cup Key = Byte
  BY DEF Kbd!SelfTestPassed, Key, Byte
<1>4. PPIState = Kbd!PPIState
  BY ZenonT(60), <1>1, <1>3 DEF PPIState, Kbd!PPIState, Key
<1>5. QED
  BY <1>2, <1>4

\* And these are the operations.
LEMMA SameKeyboard ==
  ASSUME NEW p, NEW v
  PROVE  /\ Kbd!OrderOf(p) = Waiting(p)
         /\ Kbd!PressScancode(p, v) = Ppi!PressScancode(p, v)
         /\ Kbd!Tick(p, v) = Ppi!Tick(p, v)
         /\ Kbd!WritePortB(p, v) = Ppi!WritePortB(p, v)
         /\ (Kbd!ResetsKeyboard(p, v) <=> Ppi!ResetsKeyboard(p, v))
<1>1. /\ \A q : Kbd!AdvanceKey(q) = Ppi!AdvanceKey(q)
      /\ (Kbd!PressRaisesIRQ1(p) <=> Ppi!PressRaisesIRQ1(p))
      /\ (Kbd!TickRaisesIRQ1(p, v) <=> Ppi!TickRaisesIRQ1(p, v))
      /\ (Kbd!KeyWaits(p) <=> Ppi!KeyWaits(p))
  BY Zenon DEF Kbd!AdvanceKey, Ppi!AdvanceKey, Kbd!Present, Ppi!Present,
               Kbd!PressRaisesIRQ1, Ppi!PressRaisesIRQ1, Kbd!PB7, Ppi!PB7, Kbd!Bit, Ppi!Bit,
               Kbd!TickRaisesIRQ1, Ppi!TickRaisesIRQ1, Kbd!KeyWaits, Ppi!KeyWaits
<1>2. /\ (Kbd!ResetsKeyboard(p, v) <=> Ppi!ResetsKeyboard(p, v))
      /\ (Kbd!ClearsKeyboard(p, v) <=> Ppi!ClearsKeyboard(p, v))
      /\ \A q : Kbd!Cleared(q) = Ppi!Cleared(q) /\ Kbd!ResetKeyboard(q) = Ppi!ResetKeyboard(q)
  BY Zenon DEF Kbd!ResetsKeyboard, Ppi!ResetsKeyboard, Kbd!ClearsKeyboard, Ppi!ClearsKeyboard,
               Kbd!PB6, Ppi!PB6, Kbd!PB7, Ppi!PB7, Kbd!Bit, Ppi!Bit, Kbd!Cleared, Ppi!Cleared,
               Kbd!ResetKeyboard, Ppi!ResetKeyboard, Kbd!Present, Ppi!Present,
               Kbd!SelfTestPassed, Ppi!SelfTestPassed
<1>3. Kbd!OrderOf(p) = Waiting(p)
  BY Zenon DEF Kbd!OrderOf, Waiting
<1>4. Kbd!PressScancode(p, v) = Ppi!PressScancode(p, v)
  BY Zenon, <1>1 DEF Kbd!PressScancode, Ppi!PressScancode
<1>5. Kbd!Tick(p, v) = Ppi!Tick(p, v)
  BY Zenon, <1>1 DEF Kbd!Tick, Ppi!Tick
<1>6. Kbd!WritePortB(p, v) = Ppi!WritePortB(p, v)
  BY Zenon, <1>2 DEF Kbd!WritePortB, Ppi!WritePortB
<1>7. QED
  BY <1>2, <1>3, <1>4, <1>5, <1>6

\* The head of a queue of keys is a key, and the rest is a queue of keys.
LEMMA HeadAndTail ==
  ASSUME NEW S, NEW q \in Seq(S), q # <<>>
  PROVE  Head(q) \in S /\ Tail(q) \in Seq(S)
  OBVIOUS

\* The first of a sequence moves to the end of what came before it.
LEMMA FirstMovesOver ==
  ASSUME NEW S, NEW d \in Seq(S), NEW q \in Seq(S), q # <<>>
  PROVE  Append(d, Head(q)) \in Seq(S) /\ Append(d, Head(q)) \o Tail(q) = d \o q
<1>1. Head(q) \in S /\ Tail(q) \in Seq(S) /\ q = <<Head(q)>> \o Tail(q)
  OBVIOUS
<1> DEFINE h == Head(q)
           t == Tail(q)
<1>2. Append(d, h) = d \o <<h>> /\ Append(d, h) \in Seq(S)
  BY <1>1
<1> HIDE DEF h, t
<1>3. (d \o <<h>>) \o t = d \o (<<h>> \o t)
  BY <1>1 DEF h, t
<1>4. QED
  BY <1>1, <1>2, <1>3 DEF h, t

\* The last part of a sequence is what follows the first.
LEMMA LastPart ==
  ASSUME NEW S, NEW d \in Seq(S), NEW q \in Seq(S)
  PROVE  /\ Len(d) \in 0 .. Len(d \o q)
         /\ q = SubSeq(d \o q, Len(d) + 1, Len(d \o q))
  OBVIOUS

\* The waiting codes are keys.
LEMMA WaitingKeys ==
  ASSUME NEW p \in PPIState
  PROVE  /\ Waiting(p) \in Seq(Key)
         /\ p.kbCurrent # 0 => Waiting(p) # <<>> /\ Head(Waiting(p)) = p.kbCurrent
<1>1. p.kbQueue \in Seq(Key) /\ p.kbCurrent \in Byte
  BY DEF PPIState, Key
<1>2. \A c \in Key, q \in Seq(Key) :
        <<c>> \o q \in Seq(Key) /\ <<c>> \o q # <<>> /\ Head(<<c>> \o q) = c
  OBVIOUS
<1>3. QED
  BY <1>1, <1>2 DEF Waiting, Key

\* A key that goes down waits behind the others.
LEMMA KeyPressed ==
  ASSUME NEW p \in PPIState, NEW code \in Key
  PROVE  LET a == Ppi!PressScancode(p, code) IN
         /\ a \in PPIState /\ Waiting(a) = Append(Waiting(p), code)
         /\ ShowsCurrent(p) => ShowsCurrent(a)
<1>1. p \in Kbd!PPIState /\ Kbd!KeyboardAssumption
  BY KeyboardFits
<1> DEFINE a == Kbd!PressScancode(p, code)
<1>2. /\ a \in Kbd!PPIState /\ Kbd!OrderOf(a) = Append(Kbd!OrderOf(p), code)
      /\ Kbd!PressRaisesIRQ1(p) => a.keyboardData = a.kbCurrent
      /\ ~Kbd!PressRaisesIRQ1(p) => a.kbCurrent = p.kbCurrent /\ a.keyboardData = p.keyboardData
  BY <1>1, Kbd!PressAppends
<1> HIDE DEF a
<1>3. a \in PPIState /\ Waiting(a) = Append(Waiting(p), code) /\ (ShowsCurrent(p) => ShowsCurrent(a))
  BY <1>2, KeyboardFits, SameKeyboard DEF ShowsCurrent
<1>4. a = Ppi!PressScancode(p, code)
  BY SameKeyboard DEF a
<1>5. QED
  BY <1>3, <1>4

\* The clock changes neither the codes that wait nor their order.
LEMMA InterfaceTicked ==
  ASSUME NEW p \in PPIState
  PROVE  LET a == Ppi!Tick(p, TimerCycles) IN
         /\ a \in PPIState /\ Waiting(a) = Waiting(p)
         /\ ShowsCurrent(p) => ShowsCurrent(a)
<1>1. p \in Kbd!PPIState /\ Kbd!KeyboardAssumption /\ TimerCycles \in Nat \ {0}
  BY KeyboardFits, MachineAssumption
<1> DEFINE a == Kbd!Tick(p, TimerCycles)
<1>2. /\ a \in Kbd!PPIState /\ Kbd!OrderOf(a) = Kbd!OrderOf(p)
      /\ Kbd!TickRaisesIRQ1(p, TimerCycles) => a.keyboardData = a.kbCurrent
      /\ ~Kbd!TickRaisesIRQ1(p, TimerCycles) =>
           a.kbCurrent = p.kbCurrent /\ a.keyboardData = p.keyboardData
  BY <1>1, Kbd!TickKeepsOrder
<1> HIDE DEF a
<1>3. a \in PPIState /\ Waiting(a) = Waiting(p) /\ (ShowsCurrent(p) => ShowsCurrent(a))
  BY <1>2, KeyboardFits, SameKeyboard DEF ShowsCurrent
<1>4. a = Ppi!Tick(p, TimerCycles)
  BY SameKeyboard DEF a
<1>5. QED
  BY <1>3, <1>4

\* A write to port B takes away the oldest code at most, unless it resets the
\* keyboard.
LEMMA PortBWritten ==
  ASSUME NEW p \in PPIState, NEW v \in Byte
  PROVE  LET a == Ppi!WritePortB(p, v) IN
         /\ a \in PPIState
         /\ Ppi!ResetsKeyboard(p, v) => Waiting(a) = <<Ppi!SelfTestPassed>>
         /\ ~Ppi!ResetsKeyboard(p, v) =>
              \/ Waiting(a) = Waiting(p)
              \/ Waiting(p) # <<>> /\ Waiting(a) = Tail(Waiting(p))
         /\ ShowsCurrent(p) => ShowsCurrent(a)
<1>1. p \in Kbd!PPIState /\ Kbd!KeyboardAssumption /\ v \in 0 .. 255
  BY KeyboardFits DEF Byte
<1> DEFINE a == Kbd!WritePortB(p, v)
<1>2. /\ a \in Kbd!PPIState
      /\ Kbd!ResetsKeyboard(p, v) =>
           a.keyboardData = a.kbCurrent /\ Kbd!OrderOf(a) = <<Kbd!SelfTestPassed>>
      /\ ~Kbd!ResetsKeyboard(p, v) /\ Kbd!ClearsKeyboard(p, v) =>
           /\ a.kbCurrent = 0 /\ a.keyboardData = 0
           /\ Kbd!OrderOf(a) = IF p.kbCurrent = 0 THEN Kbd!OrderOf(p) ELSE Tail(Kbd!OrderOf(p))
      /\ ~Kbd!ResetsKeyboard(p, v) /\ ~Kbd!ClearsKeyboard(p, v) =>
           /\ a.kbCurrent = p.kbCurrent /\ a.keyboardData = p.keyboardData
           /\ Kbd!OrderOf(a) = Kbd!OrderOf(p)
  BY ZenonT(60), <1>1, Kbd!WriteClearsOrResets
<1> HIDE DEF a
<1>3. Kbd!SelfTestPassed = Ppi!SelfTestPassed
  BY DEF Kbd!SelfTestPassed, Ppi!SelfTestPassed
<1>4. /\ a \in PPIState
      /\ Ppi!ResetsKeyboard(p, v) => Waiting(a) = <<Ppi!SelfTestPassed>>
      /\ ~Ppi!ResetsKeyboard(p, v) =>
           \/ Waiting(a) = Waiting(p)
           \/ Waiting(p) # <<>> /\ Waiting(a) = Tail(Waiting(p))
      /\ ShowsCurrent(p) => ShowsCurrent(a)
  BY ZenonT(60), <1>2, <1>3, KeyboardFits, SameKeyboard, WaitingKeys DEF ShowsCurrent
<1>5. a = Ppi!WritePortB(p, v)
  BY SameKeyboard DEF a
<1>6. QED
  BY <1>4, <1>5

\* So the codes that wait stay what is left of those sent: when a key goes down,
LEMMA PressedWaits ==
  ASSUME NEW p \in PPIState, NEW code \in Key, NEW all, QueueOK(p, all)
  PROVE  QueueOK(Ppi!PressScancode(p, code), Append(all, code))
<1> DEFINE a == Ppi!PressScancode(p, code)
<1>1. ShowsCurrent(a) /\ Waiting(a) = Append(Waiting(p), code)
  BY KeyPressed DEF QueueOK
<1> HIDE DEF a
<1>2. PICK done \in Seq(Key) : all = done \o Waiting(p)
  BY DEF QueueOK
<1>3. Append(all, code) = done \o Waiting(a)
  <2>1. Waiting(p) \in Seq(Key)
    BY WaitingKeys
  <2>2. Append(done \o Waiting(p), code) = done \o Append(Waiting(p), code)
    BY <2>1
  <2>3. QED
    BY Zenon, <1>1, <1>2, <2>2
<1>4. QED
  BY <1>1, <1>3 DEF QueueOK, a

\* when port B is written without a reset,
LEMMA ClearedWaits ==
  ASSUME NEW p \in PPIState, NEW v \in Byte, NEW all, QueueOK(p, all), ~Ppi!ResetsKeyboard(p, v)
  PROVE  QueueOK(Ppi!WritePortB(p, v), all)
<1> DEFINE a == Ppi!WritePortB(p, v)
<1>1. /\ ShowsCurrent(a)
      /\ \/ Waiting(a) = Waiting(p)
         \/ Waiting(p) # <<>> /\ Waiting(a) = Tail(Waiting(p))
  BY PortBWritten DEF QueueOK
<1> HIDE DEF a
<1>2. PICK done \in Seq(Key) : all = done \o Waiting(p)
  BY DEF QueueOK
<1>3. CASE Waiting(a) = Waiting(p)
  BY <1>1, <1>2, <1>3 DEF QueueOK, a
<1>4. CASE Waiting(p) # <<>> /\ Waiting(a) = Tail(Waiting(p))
  <2> DEFINE more == Append(done, Head(Waiting(p)))
  <2>1. more \in Seq(Key) /\ more \o Waiting(a) = all
    BY <1>2, <1>4, WaitingKeys, FirstMovesOver
  <2> HIDE DEF more
  <2>2. QED
    BY <1>1, <2>1 DEF QueueOK, a
<1>5. QED
  BY <1>1, <1>3, <1>4

\* and when it resets the keyboard, whose answer is the first code sent.
LEMMA AnswerWaits ==
  ASSUME NEW p \in PPIState, NEW v \in Byte, NEW all, QueueOK(p, all), Ppi!ResetsKeyboard(p, v)
  PROVE  QueueOK(Ppi!WritePortB(p, v), <<Ppi!SelfTestPassed>>)
<1> DEFINE a == Ppi!WritePortB(p, v)
<1>1. ShowsCurrent(a) /\ Waiting(a) = <<Ppi!SelfTestPassed>>
  BY PortBWritten DEF QueueOK
<1> HIDE DEF a
<1>2. <<>> \in Seq(Key) /\ <<>> \o <<Ppi!SelfTestPassed>> = <<Ppi!SelfTestPassed>>
  OBVIOUS
<1>3. QED
  BY <1>1, <1>2 DEF QueueOK, a

\* Its ports read as bytes.
LEMMA InterfaceRead ==
  ASSUME NEW p \in PPIState, NEW reg \in 0 .. 3
  PROVE  Ppi!In8(p, reg) \in Byte
<1>1. p.dip \in 0 .. 255 /\ p.keyboardData \in Byte /\ p.portB \in Byte
  BY DEF PPIState, Byte
<1>2. p.dip \in Byte /\ p.dip \div 16 \in Byte /\ p.dip % 16 \in Byte /\ 255 \in Byte
  BY <1>1 DEF Byte
<1>3. reg = 0 \/ reg = 1 \/ reg = 2 \/ reg = 3
  OBVIOUS
<1>4. QED
  BY <1>1, <1>2, <1>3 DEF Ppi!In8

-----------------------------------------------------------------------------
(***************************************************************************)
(* The DMA controller.                                                     *)
(***************************************************************************)

\* Each register takes the values of its type.
LEMMA ChannelChanges ==
  ASSUME NEW ch \in Dma!ChannelState
  PROVE  /\ \A x \in Dma!Word : [ch EXCEPT !.addr = x] \in Dma!ChannelState
         /\ \A x \in Dma!Word : [ch EXCEPT !.count = x] \in Dma!ChannelState
         /\ \A x \in Dma!Digit : [ch EXCEPT !.page = x] \in Dma!ChannelState
         /\ \A x \in Byte : [ch EXCEPT !.mode = x] \in Dma!ChannelState
         /\ \A x \in BOOLEAN : [ch EXCEPT !.masked = x] \in Dma!ChannelState
  BY DEF Dma!ChannelState, Dma!Byte, Byte

\* And so do the registers of the chip.
LEMMA ChipChanges ==
  ASSUME NEW d \in DMAState
  PROVE  /\ \A c \in Channels : \A ch \in Dma!ChannelState :
              [d EXCEPT !.channels[c] = ch] \in DMAState
         /\ \A x \in [Channels -> Dma!ChannelState] : [d EXCEPT !.channels = x] \in DMAState
         /\ \A x \in BOOLEAN : [d EXCEPT !.flipHi = x] \in DMAState
         /\ \A x \in SUBSET Channels : [d EXCEPT !.tcStatus = x] \in DMAState
  BY DEF DMAState

\* A write to half of a word keeps it a word.
LEMMA HalfWritten ==
  ASSUME NEW w \in Dma!Word, NEW v \in Dma!Digit, NEW hi \in BOOLEAN
  PROVE  Dma!WordWritten(w, v, hi) \in Dma!Word
<1>1. Pit!WithLow(w, v) \in Dma!Word /\ Pit!WithHigh(w, v) \in Dma!Word
  BY Halves, Ranges
<1>2. Dma!WithLow(w, v) = Pit!WithLow(w, v) /\ Dma!WithHigh(w, v) = Pit!WithHigh(w, v)
  BY DEF Dma!WithLow, Pit!WithLow, Dma!WithHigh, Pit!WithHigh
<1>3. QED
  BY <1>1, <1>2 DEF Dma!WordWritten

\* The chip after a reset.
LEMMA ChipReset == Dma!NewDMA \in DMAState
<1>1. 0 \in Dma!Word /\ 0 \in Dma!Digit
  BY Ranges
<1>2. QED
  BY <1>1 DEF Dma!NewDMA, Dma!NewChannel, DMAState, Dma!ChannelState, Dma!Byte

\* A write to a register: a digit where it goes to half of a word.
LEMMA ChipWritten ==
  ASSUME NEW d \in DMAState, NEW reg \in Nat, NEW v \in Byte, reg < 8 => v \in Pit!Digit
  PROVE  Dma!Out8(d, reg, v) \in DMAState
<1> DEFINE c == reg \div 2
<1>1. /\ d.flipHi \in BOOLEAN
      /\ \A k \in Channels : d.channels[k] \in Dma!ChannelState /\ k \in Nat
  BY MachineAssumption DEF DMAState
<1>2. CASE reg \in {0, 2, 4, 6} /\ c \in Channels
  <2> HIDE DEF c
  <2> DEFINE w == Dma!WordWritten(d.channels[c].addr, v, d.flipHi)
             ch == [d.channels[c] EXCEPT !.addr = w]
             e == [d EXCEPT !.channels[c] = ch]
  <2>1. v \in Dma!Digit /\ d.channels[c].addr \in Dma!Word
    BY <1>1, <1>2, Ranges DEF Dma!ChannelState
  <2>2. w \in Dma!Word
    BY <1>1, <2>1, HalfWritten
  <2> HIDE DEF w
  <2>3. ch \in Dma!ChannelState
    BY <1>1, <1>2, <2>2, ChannelChanges
  <2>4. e \in DMAState /\ (~e.flipHi) \in BOOLEAN /\ e.flipHi = d.flipHi
    BY <1>2, <2>3, ChipChanges DEF DMAState
  <2>5. Dma!WriteAddr(d, c, v) = [e EXCEPT !.flipHi = ~e.flipHi]
    BY <1>2 DEF Dma!WriteAddr, DMAState, e, ch, w
  <2> HIDE DEF e
  <2>6. Dma!WriteAddr(d, c, v) \in DMAState
    BY <2>4, <2>5, ChipChanges
  <2>7. Dma!Out8(d, reg, v) = Dma!WriteAddr(d, c, v)
    BY <1>2 DEF Dma!Out8, c
  <2>8. QED
    BY <2>6, <2>7
<1>3. CASE reg \in {1, 3, 5, 7} /\ c \in Channels
  <2> HIDE DEF c
  <2> DEFINE w == Dma!WordWritten(d.channels[c].count, v, d.flipHi)
             ch == [d.channels[c] EXCEPT !.count = w]
             e == [d EXCEPT !.channels[c] = ch]
  <2>1. v \in Dma!Digit /\ d.channels[c].count \in Dma!Word
    BY <1>1, <1>3, Ranges DEF Dma!ChannelState
  <2>2. w \in Dma!Word
    BY <1>1, <2>1, HalfWritten
  <2> HIDE DEF w
  <2>3. ch \in Dma!ChannelState
    BY <1>1, <1>3, <2>2, ChannelChanges
  <2>4. e \in DMAState /\ (~e.flipHi) \in BOOLEAN /\ e.flipHi = d.flipHi
    BY <1>3, <2>3, ChipChanges DEF DMAState
  <2>5. Dma!WriteCount(d, c, v) = [e EXCEPT !.flipHi = ~e.flipHi]
    BY <1>3 DEF Dma!WriteCount, DMAState, e, ch, w
  <2> HIDE DEF e
  <2>6. Dma!WriteCount(d, c, v) \in DMAState
    BY <2>4, <2>5, ChipChanges
  <2>7. Dma!Out8(d, reg, v) = Dma!WriteCount(d, c, v)
    BY <1>3 DEF Dma!Out8, c
  <2>8. QED
    BY <2>6, <2>7
<1>4. CASE reg < 8 /\ c \notin Channels
  <2>1. Dma!Out8(d, reg, v) = [d EXCEPT !.flipHi = ~d.flipHi]
    BY <1>4 DEF Dma!Out8
  <2>2. (~d.flipHi) \in BOOLEAN
    BY <1>1
  <2>3. QED
    BY <2>1, <2>2, ChipChanges
<1>5. v % 4 \in Nat /\ \A k \in Channels : Dma!Bit(v, 2) \in BOOLEAN /\ Dma!Bit(v, k) \in BOOLEAN
  BY DEF Dma!Bit, Byte
<1>6. Dma!WriteSingleMask(d, v) \in DMAState
  <2> DEFINE k == v % 4
             ch == [d.channels[k] EXCEPT !.masked = Dma!Bit(v, 2)]
  <2>1. CASE k \in Channels
    <3>1. Dma!WriteSingleMask(d, v) = [d EXCEPT !.channels[k] = ch]
      BY <2>1 DEF Dma!WriteSingleMask
    <3>2. ch \in Dma!ChannelState
      BY <1>1, <1>5, <2>1, ChannelChanges
    <3> HIDE DEF ch, k
    <3>3. QED
      BY <2>1, <3>1, <3>2, ChipChanges
  <2>2. CASE k \notin Channels
    BY <2>2 DEF Dma!WriteSingleMask
  <2>3. QED
    BY <2>1, <2>2
<1>7. Dma!WriteMode(d, v) \in DMAState
  <2> DEFINE k == v % 4
             ch == [d.channels[k] EXCEPT !.mode = v]
  <2>1. CASE k \in Channels
    <3>1. Dma!WriteMode(d, v) = [d EXCEPT !.channels[k] = ch]
      BY <2>1 DEF Dma!WriteMode
    <3>2. ch \in Dma!ChannelState
      BY <1>1, <2>1, ChannelChanges
    <3> HIDE DEF ch, k
    <3>3. QED
      BY <2>1, <3>1, <3>2, ChipChanges
  <2>2. CASE k \notin Channels
    BY <2>2 DEF Dma!WriteMode
  <2>3. QED
    BY <2>1, <2>2
<1>8. Dma!WriteAllMasks(d, v) \in DMAState
  <2> DEFINE chs == [k \in Channels |-> [d.channels[k] EXCEPT !.masked = Dma!Bit(v, k)]]
  <2>1. chs \in [Channels -> Dma!ChannelState]
    BY <1>1, <1>5, ChannelChanges
  <2>2. Dma!WriteAllMasks(d, v) = [d EXCEPT !.channels = chs]
    BY DEF Dma!WriteAllMasks
  <2> HIDE DEF chs
  <2>3. QED
    BY <2>1, <2>2, ChipChanges
<1>9. Dma!ClearFlipFlop(d) \in DMAState /\ Dma!MasterClear(d) \in DMAState
  BY ChipChanges, ChipReset DEF Dma!ClearFlipFlop, Dma!MasterClear
<1>10. CASE reg >= 8
  BY <1>6, <1>7, <1>8, <1>9, <1>10 DEF Dma!Out8
<1>11. reg < 8 => reg \in {0, 2, 4, 6} \/ reg \in {1, 3, 5, 7}
  OBVIOUS
<1> HIDE DEF c
<1>12. QED
  BY <1>2, <1>3, <1>4, <1>10, <1>11

\* A write to a page register.
LEMMA PageWritten ==
  ASSUME NEW d \in DMAState, NEW reg, NEW v \in Dma!Digit
  PROVE  Dma!PageOut(d, reg, v) \in DMAState
<1> DEFINE chs == [c \in Channels |-> IF c \in Dma!PageChannel(reg)
                                      THEN [d.channels[c] EXCEPT !.page = v] ELSE d.channels[c]]
<1>1. \A c \in Channels : d.channels[c] \in Dma!ChannelState
  BY DEF DMAState
<1>2. chs \in [Channels -> Dma!ChannelState]
  BY <1>1, ChannelChanges
<1>3. Dma!PageOut(d, reg, v) = [d EXCEPT !.channels = chs]
  BY DEF Dma!PageOut
<1> HIDE DEF chs
<1>4. QED
  BY <1>2, <1>3, ChipChanges

\* Refresh cycles run channel 0 down, round its word.
LEMMA Refreshed ==
  ASSUME NEW d \in DMAState, NEW k \in Nat
  PROVE  Dma!RefreshCycles(d, k) \in DMAState
<1>1. CASE k = 0 \/ 0 \notin Channels
  BY <1>1 DEF Dma!RefreshCycles
<1>2. CASE ~(k = 0 \/ 0 \notin Channels)
  <2> DEFINE w == (d.channels[0].count - k) % Dma!WordSize
             ch == [d.channels[0] EXCEPT !.count = w]
             tc == IF k > d.channels[0].count THEN d.tcStatus \cup {0} ELSE d.tcStatus
             e == [d EXCEPT !.tcStatus = tc]
  <2>1. d.channels[0] \in Dma!ChannelState /\ d.channels[0].count \in Dma!Word
    BY <1>2 DEF DMAState, Dma!ChannelState
  <2>2. w \in Dma!Word
    BY <2>1, Ranges
  <2> HIDE DEF w
  <2>3. ch \in Dma!ChannelState
    BY <2>1, <2>2, ChannelChanges
  <2>4. tc \in SUBSET Channels
    BY <1>2 DEF DMAState
  <2> HIDE DEF tc
  <2>5. e \in DMAState /\ e.channels = d.channels
    BY <2>4, ChipChanges DEF DMAState
  <2>6. Dma!RefreshCycles(d, k) = [e EXCEPT !.channels[0] = ch]
    BY <1>2 DEF Dma!RefreshCycles, DMAState, e, tc, ch, w
  <2> HIDE DEF e, ch
  <2>7. QED
    BY <1>2, <2>3, <2>5, <2>6, ChipChanges
<1>3. QED
  BY <1>1, <1>2

\* Reads: the status register is cleared, the flip-flop turned over, and the
\* values are bytes.
LEMMA ChipRead ==
  ASSUME NEW d \in DMAState
  PROVE  /\ Dma!AfterStatusRead(d) \in DMAState /\ Dma!AfterWordRead(d) \in DMAState
         /\ \A reg \in Nat : reg \div 2 \in Channels => Dma!WordRead(d, reg) \in Byte
         /\ \A reg \in Nat : Dma!PageIn(d, reg) \in Byte
<1>1. Dma!AfterStatusRead(d) \in DMAState
  BY ChipChanges DEF Dma!AfterStatusRead
<1>2. Dma!AfterWordRead(d) \in DMAState
  <2>1. (~d.flipHi) \in BOOLEAN
    BY DEF DMAState
  <2>2. QED
    BY <2>1, ChipChanges DEF Dma!AfterWordRead
<1>3. ASSUME NEW reg \in Nat, reg \div 2 \in Channels PROVE Dma!WordRead(d, reg) \in Byte
  <2> DEFINE c == reg \div 2
             w == IF reg % 2 = 0 THEN d.channels[c].addr ELSE d.channels[c].count
  <2>1. w \in Pit!Word
    BY <1>3, Ranges DEF DMAState, Dma!ChannelState
  <2>2. Dma!WordRead(d, reg) = IF d.flipHi THEN Pit!High(w) ELSE Pit!Low(w)
    BY DEF Dma!WordRead, Dma!High, Dma!Low, Pit!High, Pit!Low
  <2> HIDE DEF w
  <2>3. QED
    BY <2>1, <2>2, Halves, Ranges
<1>4. ASSUME NEW reg \in Nat PROVE Dma!PageIn(d, reg) \in Byte
  <2>1. CASE Dma!PageChannel(reg) \cap Channels = {}
    BY <2>1 DEF Dma!PageIn, Byte
  <2>2. CASE Dma!PageChannel(reg) \cap Channels # {}
    <3> DEFINE c == CHOOSE k \in Dma!PageChannel(reg) : TRUE
    <3>1. \A k1 \in Dma!PageChannel(reg), k2 \in Dma!PageChannel(reg) : k1 = k2
      BY DEF Dma!PageChannel
    <3>2. c \in Dma!PageChannel(reg)
      BY <2>2
    <3> HIDE DEF c
    <3>3. c \in Channels
      BY <2>2, <3>1, <3>2
    <3>4. d.channels[c].page \in Byte
      BY <3>3, Ranges DEF DMAState, Dma!ChannelState
    <3>5. Dma!PageIn(d, reg) = d.channels[c].page
      BY <2>2 DEF Dma!PageIn, c
    <3>6. QED
      BY <3>4, <3>5
  <2>3. QED
    BY <2>1, <2>2
<1>5. QED
  BY <1>1, <1>2, <1>3, <1>4

-----------------------------------------------------------------------------
(***************************************************************************)
(* The wiring and the bus.                                                 *)
(***************************************************************************)

\* Every set of lines is the set of the bits of some byte.
LEMMA LinesAsByte ==
  ASSUME NEW lines \in SUBSET (0 .. 7)
  PROVE  AsByte(lines) \in Byte
<1> DEFINE b(i) == IF i \in lines THEN 1 ELSE 0
           v == b(0) + 2 * b(1) + 4 * b(2) + 8 * b(3) + 16 * b(4) + 32 * b(5) + 64 * b(6)
                + 128 * b(7)
<1>1. \A i \in 0 .. 7 : b(i) \in 0 .. 1 /\ (b(i) = 1 <=> i \in lines)
  OBVIOUS
<1> HIDE DEF b
<1>2. /\ b(0) \in 0 .. 1 /\ b(1) \in 0 .. 1 /\ b(2) \in 0 .. 1 /\ b(3) \in 0 .. 1
      /\ b(4) \in 0 .. 1 /\ b(5) \in 0 .. 1 /\ b(6) \in 0 .. 1 /\ b(7) \in 0 .. 1
  BY <1>1
<1>3. v \in Byte
  BY <1>2 DEF Byte
<1>4. /\ (v \div 2^0) % 2 = b(0) /\ (v \div 2^1) % 2 = b(1)
      /\ (v \div 2^2) % 2 = b(2) /\ (v \div 2^3) % 2 = b(3)
  BY <1>2
<1>5. /\ (v \div 2^4) % 2 = b(4) /\ (v \div 2^5) % 2 = b(5)
      /\ (v \div 2^6) % 2 = b(6) /\ (v \div 2^7) % 2 = b(7)
  BY <1>2
<1> HIDE DEF v
<1>6. ASSUME NEW k \in 0 .. 7 PROVE (v \div 2^k) % 2 = 1 <=> k \in lines
  <2>1. k = 0 \/ k = 1 \/ k = 2 \/ k = 3 \/ k = 4 \/ k = 5 \/ k = 6 \/ k = 7
    OBVIOUS
  <2>2. (v \div 2^k) % 2 = b(k)
    BY <2>1, <1>4, <1>5
  <2>3. QED
    BY <2>2, <1>1
<1>7. Pic!BitSet(v, 8) = {k \in 0 .. 7 : (v \div 2^k) % 2 = 1}
  BY DEF Pic!BitSet, Pic!Bit
<1>8. Pic!BitSet(v, 8) = lines
  BY <1>6, <1>7
<1>9. QED
  BY <1>3, <1>8 DEF AsByte

\* One device changes.
LEMMA DeviceChanges ==
  ASSUME NEW x, DevicesOK(x)
  PROVE  /\ \A p : PICOK(p) => DevicesOK([x EXCEPT !.pic = p])
         /\ \A t \in PITState : DevicesOK([x EXCEPT !.pit = t])
         /\ \A p \in PPIState : DevicesOK([x EXCEPT !.ppi = p])
         /\ \A d \in DMAState : DevicesOK([x EXCEPT !.dma = d])
         /\ \A v \in Byte : DevicesOK([x EXCEPT !.post = v])
  BY DEF DevicesOK, XTState, PICOK, PITState, DMAState

\* What the devices are.
LEMMA Devices ==
  ASSUME NEW x, DevicesOK(x)
  PROVE  /\ PICOK(x.pic) /\ x.pit \in PITState /\ x.ppi \in PPIState /\ x.dma \in DMAState
         /\ x.post \in Byte
         /\ x = [pic |-> x.pic, pit |-> x.pit, ppi |-> x.ppi, dma |-> x.dma, post |-> x.post]
  BY DEF DevicesOK, XTState, PITState, DMAState

\* They are in range when the machine is switched on.
LEMMA SwitchedOn ==
  DevicesOK([pic |-> Pic!NewPIC, pit |-> Pit!NewPIT,
             ppi |-> Ppi!NewPPI(Switches), dma |-> Dma!NewDMA, post |-> 0])
<1>1. PICOK(Pic!NewPIC)
  BY PICRaised
<1>2. Pit!NewPIT \in PITState
  <2>1. 0 \in Pit!Word
    BY Ranges
  <2>2. QED
    BY <2>1 DEF Pit!NewPIT, Pit!NewCounter, PITState, Pit!CounterState
<1>3. Ppi!NewPPI(Switches) \in PPIState
  <2>1. Switches \in Byte /\ 0 \in Byte /\ 0 \in 0 .. KbReloadDelay
    BY MachineAssumption DEF Byte
  <2>2. <<>> \in Seq(Byte \ {0})
    OBVIOUS
  <2>3. QED
    BY <2>1, <2>2 DEF Ppi!NewPPI, PPIState
<1>4. Dma!NewDMA \in DMAState /\ 0 \in Byte
  BY ChipReset DEF Byte
<1>5. QED
  BY <1>1, <1>2, <1>3, <1>4 DEF DevicesOK, XTState, PICOK, PITState, DMAState

\* A request that is raised or not.
LEMMA RaisedOrNot ==
  ASSUME NEW p, PICOK(p), NEW line, NEW raised
  PROVE  PICOK(RaisedIf(p, line, raised))
  BY PICRaised DEF RaisedIf

\* The strokes of a step keep the devices in range and the codes that wait.
LEMMA StrokesKeep ==
  ASSUME NEW x, DevicesOK(x), NEW all
  PROVE  DevicesOK(Ticked(x)) /\ (QueueOK(x.ppi, all) => QueueOK(Ticked(x).ppi, all))
<1>1. ASSUME NEW y, DevicesOK(y) PROVE DevicesOK(TimerTicked(y)) /\ TimerTicked(y).ppi = y.ppi
  <2> DEFINE t == Pit!Tick(y.pit, TimerCycles)
             p == RaisedIf(y.pic, 0, Pit!RaisesIRQ0(y.pit, TimerCycles))
             d == Dma!RefreshCycles(y.dma, Pit!RefreshCalls(y.pit, TimerCycles))
  <2>1. t \in PITState /\ PICOK(p) /\ d \in DMAState
    BY <1>1, Devices, TimerTicks, RaisedOrNot, Refreshed
  <2>2. TimerTicked(y) = [y EXCEPT !.pit = t, !.pic = p, !.dma = d]
    BY DEF TimerTicked
  <2> HIDE DEF t, p, d
  <2> DEFINE y1 == [y EXCEPT !.pit = t]
             y2 == [y1 EXCEPT !.pic = p]
             y3 == [y2 EXCEPT !.dma = d]
  <2>3. TimerTicked(y) = y3
    BY <1>1, <2>2 DEF DevicesOK, XTState
  <2>4. DevicesOK(y1)
    BY <1>1, <2>1, DeviceChanges
  <2> HIDE DEF y1
  <2>5. DevicesOK(y2)
    BY <2>1, <2>4, DeviceChanges
  <2> HIDE DEF y2
  <2>6. DevicesOK(y3)
    BY <2>1, <2>5, DeviceChanges
  <2>7. TimerTicked(y).ppi = y.ppi
    BY <1>1, <2>2 DEF DevicesOK, XTState
  <2>8. QED
    BY <2>3, <2>6, <2>7
<1>2. ASSUME NEW y, DevicesOK(y)
      PROVE  DevicesOK(KeyboardTicked(y)) /\ KeyboardTicked(y).ppi = Ppi!Tick(y.ppi, TimerCycles)
  <2> DEFINE k == Ppi!Tick(y.ppi, TimerCycles)
             p == RaisedIf(y.pic, 1, Ppi!TickRaisesIRQ1(y.ppi, TimerCycles))
  <2>1. k \in PPIState /\ PICOK(p)
    BY <1>2, Devices, InterfaceTicked, RaisedOrNot
  <2>2. KeyboardTicked(y) = [y EXCEPT !.ppi = k, !.pic = p]
    BY DEF KeyboardTicked
  <2> HIDE DEF k, p
  <2> DEFINE y1 == [y EXCEPT !.ppi = k]
             y2 == [y1 EXCEPT !.pic = p]
  <2>3. KeyboardTicked(y) = y2
    BY <1>2, <2>2 DEF DevicesOK, XTState
  <2>4. DevicesOK(y1)
    BY <1>2, <2>1, DeviceChanges
  <2> HIDE DEF y1
  <2>5. DevicesOK(y2)
    BY <2>1, <2>4, DeviceChanges
  <2>6. KeyboardTicked(y).ppi = k
    BY <1>2, <2>2 DEF DevicesOK, XTState
  <2>7. QED
    BY <2>3, <2>5, <2>6 DEF k
<1>3. DevicesOK(TimerTicked(x)) /\ TimerTicked(x).ppi = x.ppi
  BY <1>1
<1>4. DevicesOK(Ticked(x)) /\ Ticked(x).ppi = Ppi!Tick(x.ppi, TimerCycles)
  BY <1>2, <1>3 DEF Ticked
<1>5. x.ppi \in PPIState
  BY Devices
<1>6. QueueOK(x.ppi, all) => QueueOK(Ppi!Tick(x.ppi, TimerCycles), all)
  BY <1>5, InterfaceTicked DEF QueueOK
<1>7. QED
  BY <1>4, <1>6

\* The parts of a port number.
LEMMA PortNumbers ==
  \A port \in Port : port \in Nat /\ port % 4 \in 0 .. 3 /\ port % 16 \in Nat
<1>1. Port \subseteq Nat
  BY DEF Port
<1>2. QED
  BY <1>1

\* A write to any port, as programs do it, keeps the devices in range.
LEMMA PortWritten ==
  ASSUME NEW x, DevicesOK(x), NEW port \in Port, NEW v \in Byte,
         WordHalf(port) => v \in Pit!Digit
  PROVE  DevicesOK(Out(x, port, v))
<1> DEFINE dev == Device(port)
<1>1. /\ PICOK(x.pic) /\ x.pit \in PITState /\ x.ppi \in PPIState /\ x.dma \in DMAState
  BY Devices
<1>2. port \in Nat /\ port % 4 \in 0 .. 3 /\ port % 16 \in Nat
  BY PortNumbers
<1>3. CASE dev = "pic"
  <2> DEFINE p == IF port % 2 = 0 THEN Pic!WriteCommand(x.pic, v) ELSE Pic!WriteData(x.pic, v)
  <2>1. PICOK(p)
    BY <1>1, PICWritten
  <2>2. Out(x, port, v) = [x EXCEPT !.pic = p]
    BY <1>3 DEF Out
  <2> HIDE DEF p
  <2>3. QED
    BY <2>1, <2>2, DeviceChanges
<1>4. CASE dev = "pit"
  <2> DEFINE r == port % 4
             t == PITOut(x.pit, r, v)
  <2>1. r # 3 => v \in Pit!Digit
    BY <1>4 DEF WordHalf
  <2>2. r # 3 /\ r \in Counters => Pit!WriteCounter(x.pit[r], v) \in Pit!CounterState
    BY <1>1, <2>1, CounterWritten DEF PITState
  <2>3. Pit!ControlWord(x.pit, v) \in PITState
    BY <1>1, TimerControlled
  <2> HIDE DEF r
  <2>4. t \in PITState
    BY <1>1, <2>2, <2>3 DEF PITOut, PITState
  <2>5. Out(x, port, v) = [x EXCEPT !.pit = t]
    BY <1>4 DEF Out, r
  <2> HIDE DEF t
  <2>6. QED
    BY <2>4, <2>5, DeviceChanges
<1>5. CASE dev = "ppi" /\ port % 4 = 1
  <2> DEFINE k == Ppi!WritePortB(x.ppi, v)
             p == RaisedIf(x.pic, 1, Ppi!ResetsKeyboard(x.ppi, v))
  <2>1. k \in PPIState /\ PICOK(p)
    BY <1>1, PortBWritten, RaisedOrNot
  <2>2. Out(x, port, v) = [x EXCEPT !.ppi = k, !.pic = p]
    BY <1>5 DEF Out
  <2> HIDE DEF k, p
  <2> DEFINE y1 == [x EXCEPT !.ppi = k]
             y2 == [y1 EXCEPT !.pic = p]
  <2>3. Out(x, port, v) = y2
    BY <2>2 DEF DevicesOK, XTState
  <2>4. DevicesOK(y1)
    BY <2>1, DeviceChanges
  <2> HIDE DEF y1
  <2>5. QED
    BY <2>1, <2>3, <2>4, DeviceChanges
<1>6. CASE dev = "dma"
  <2> DEFINE d == Dma!Out8(x.dma, port, v)
  <2>1. port < 8 => v \in Pit!Digit
    BY <1>6 DEF WordHalf
  <2>2. d \in DMAState
    BY <1>1, <1>2, <2>1, ChipWritten
  <2>3. Out(x, port, v) = [x EXCEPT !.dma = d]
    BY <1>6 DEF Out
  <2> HIDE DEF d
  <2>4. QED
    BY <2>2, <2>3, DeviceChanges
<1>7. CASE dev = "page"
  <2> DEFINE d == Dma!PageOut(x.dma, port % 16, v)
  <2>1. v \in Dma!Digit
    BY <1>7, Ranges DEF WordHalf
  <2>2. d \in DMAState
    BY <1>1, <2>1, PageWritten
  <2>3. Out(x, port, v) = [x EXCEPT !.dma = d]
    BY <1>7 DEF Out
  <2> HIDE DEF d
  <2>4. QED
    BY <2>2, <2>3, DeviceChanges
<1>8. CASE dev = "post"
  <2>1. Out(x, port, v) = [x EXCEPT !.post = v]
    BY <1>8 DEF Out
  <2>2. QED
    BY <2>1, DeviceChanges
<1>9. CASE ~(\/ dev \in {"pic", "pit", "dma", "page", "post"}
             \/ dev = "ppi" /\ port % 4 = 1)
  <2>1. Out(x, port, v) = x
    BY <1>9 DEF Out
  <2>2. QED
    BY <2>1
<1> HIDE DEF dev
<1>10. QED
  BY <1>3, <1>4, <1>5, <1>6, <1>7, <1>8, <1>9

\* Only a write to port B does anything to the keyboard.
LEMMA KeyboardWritten ==
  ASSUME NEW x, DevicesOK(x), NEW port, NEW v
  PROVE  Out(x, port, v).ppi =
           IF Device(port) = "ppi" /\ port % 4 = 1 THEN Ppi!WritePortB(x.ppi, v) ELSE x.ppi
<1> DEFINE dev == Device(port)
<1>1. \A p, t, d, k, w :
        /\ [x EXCEPT !.pic = p].ppi = x.ppi /\ [x EXCEPT !.pit = t].ppi = x.ppi
        /\ [x EXCEPT !.dma = d].ppi = x.ppi /\ [x EXCEPT !.post = w].ppi = x.ppi
        /\ [x EXCEPT !.ppi = k, !.pic = p].ppi = k
  BY DEF DevicesOK, XTState
<1>2. CASE dev = "pic"
  <2>1. Out(x, port, v) =
          [x EXCEPT !.pic = IF port % 2 = 0 THEN Pic!WriteCommand(x.pic, v)
                            ELSE Pic!WriteData(x.pic, v)]
    BY <1>2 DEF Out
  <2>2. QED
    BY <1>1, <1>2, <2>1
<1>3. CASE dev = "pit"
  <2>1. Out(x, port, v) = [x EXCEPT !.pit = PITOut(x.pit, port % 4, v)]
    BY <1>3 DEF Out
  <2>2. QED
    BY <1>1, <1>3, <2>1
<1>4. CASE dev = "dma"
  <2>1. Out(x, port, v) = [x EXCEPT !.dma = Dma!Out8(x.dma, port, v)]
    BY <1>4 DEF Out
  <2>2. QED
    BY <1>1, <1>4, <2>1
<1>5. CASE dev = "page"
  <2>1. Out(x, port, v) = [x EXCEPT !.dma = Dma!PageOut(x.dma, port % 16, v)]
    BY <1>5 DEF Out
  <2>2. QED
    BY <1>1, <1>5, <2>1
<1>6. CASE dev = "post"
  <2>1. Out(x, port, v) = [x EXCEPT !.post = v]
    BY <1>6 DEF Out
  <2>2. QED
    BY <1>1, <1>6, <2>1
<1>7. CASE dev = "ppi" /\ port % 4 = 1
  BY <1>1, <1>7 DEF Out
<1>8. CASE /\ dev \notin {"pic", "pit", "dma", "page", "post"}
           /\ ~(dev = "ppi" /\ port % 4 = 1)
  BY <1>8 DEF Out
<1>9. QED
  BY <1>2, <1>3, <1>4, <1>5, <1>6, <1>7, <1>8

\* And a read does nothing to it.
LEMMA KeyboardRead ==
  ASSUME NEW x, DevicesOK(x), NEW port
  PROVE  AfterIn(x, port).ppi = x.ppi
<1> DEFINE dev == Device(port)
<1>1. \A d : [x EXCEPT !.dma = d].ppi = x.ppi
  BY DEF DevicesOK, XTState
<1>2. CASE dev = "pit" /\ port % 4 \in Counters
  <2>1. AfterIn(x, port) = [x EXCEPT !.pit[port % 4] = Pit!AfterRead(@)]
    BY <1>2 DEF AfterIn
  <2>2. QED
    BY <2>1 DEF DevicesOK, XTState
<1>3. CASE dev = "dma" /\ port = 8
  <2>1. AfterIn(x, port) = [x EXCEPT !.dma = Dma!AfterStatusRead(x.dma)]
    BY <1>3 DEF AfterIn
  <2>2. QED
    BY <1>1, <2>1
<1>4. CASE dev = "dma" /\ port # 8 /\ port < 8
  <2>1. AfterIn(x, port) = [x EXCEPT !.dma = Dma!AfterWordRead(x.dma)]
    BY <1>4 DEF AfterIn
  <2>2. QED
    BY <1>1, <2>1
<1>5. CASE /\ ~(dev = "pit" /\ port % 4 \in Counters)
           /\ ~(dev = "dma" /\ port = 8) /\ ~(dev = "dma" /\ port < 8)
  BY <1>5 DEF AfterIn
<1> HIDE DEF dev
<1>6. QED
  BY <1>2, <1>3, <1>4, <1>5

\* A read of any port returns a byte and keeps the devices in range.
LEMMA PortRead ==
  ASSUME NEW x, DevicesOK(x), NEW port \in Port
  PROVE  Value(x, port) \in Byte /\ DevicesOK(AfterIn(x, port))
<1> DEFINE dev == Device(port)
<1>1. /\ PICOK(x.pic) /\ x.pit \in PITState /\ x.ppi \in PPIState /\ x.dma \in DMAState
      /\ x.post \in Byte /\ 255 \in Byte
  BY Devices DEF Byte
<1>2. port \in Nat /\ port % 4 \in 0 .. 3 /\ port % 16 \in Nat
  BY PortNumbers
<1>3. \A c \in Counters : x.pit[c] \in Pit!CounterState
  BY <1>1 DEF PITState
<1>4. /\ AsByte(IF port % 2 = 1 THEN x.pic.imr ELSE x.pic.irr) \in Byte
      /\ AsByte(x.dma.tcStatus) \in Byte
  <2>1. Pic!Line \subseteq 0 .. 7 /\ Channels \subseteq 0 .. 7
    BY MachineAssumption DEF Pic!Line
  <2>2. x.pic.imr \subseteq 0 .. 7 /\ x.pic.irr \subseteq 0 .. 7 /\ x.dma.tcStatus \subseteq 0 .. 7
    BY <1>1, <2>1 DEF PICOK, Pic!PICState, DMAState
  <2>3. (IF port % 2 = 1 THEN x.pic.imr ELSE x.pic.irr) \in SUBSET (0 .. 7)
    BY <2>2
  <2>4. QED
    BY <2>2, <2>3, LinesAsByte
<1>5. /\ port % 4 \in Counters => Pit!ReadByte(x.pit[port % 4]) \in Byte
      /\ Ppi!In8(x.ppi, port % 4) \in Byte
      /\ port \div 2 \in Channels => Dma!WordRead(x.dma, port) \in Byte
      /\ Dma!PageIn(x.dma, port % 16) \in Byte
  BY <1>1, <1>2, <1>3, CounterRead, InterfaceRead, ChipRead
<1>6. Value(x, port) \in Byte
  BY <1>1, <1>4, <1>5 DEF Value
<1>7. CASE dev = "pit" /\ port % 4 \in Counters
  <2> DEFINE t == [x.pit EXCEPT ![port % 4] = Pit!AfterRead(@)]
  <2>1. t \in PITState
    BY <1>1, <1>3, <1>7, CounterRead DEF PITState
  <2>2. AfterIn(x, port) = [x EXCEPT !.pit[port % 4] = Pit!AfterRead(@)]
    BY <1>7 DEF AfterIn
  <2>3. AfterIn(x, port) = [x EXCEPT !.pit = t]
    BY <2>2 DEF DevicesOK, XTState
  <2> HIDE DEF t
  <2>4. QED
    BY <1>6, <2>1, <2>3, DeviceChanges
<1>8. CASE dev = "dma" /\ port = 8
  <2>1. AfterIn(x, port) = [x EXCEPT !.dma = Dma!AfterStatusRead(x.dma)]
    BY <1>8 DEF AfterIn
  <2>2. Dma!AfterStatusRead(x.dma) \in DMAState
    BY <1>1, ChipRead
  <2>3. QED
    BY <1>6, <2>1, <2>2, DeviceChanges
<1>9. CASE dev = "dma" /\ port < 8
  <2>1. port # 8
    BY <1>2, <1>9
  <2>2. AfterIn(x, port) = [x EXCEPT !.dma = Dma!AfterWordRead(x.dma)]
    BY <1>9, <2>1 DEF AfterIn
  <2>3. Dma!AfterWordRead(x.dma) \in DMAState
    BY <1>1, ChipRead
  <2>4. QED
    BY <1>6, <2>2, <2>3, DeviceChanges
<1>10. CASE /\ ~(dev = "pit" /\ port % 4 \in Counters)
            /\ ~(dev = "dma" /\ (port = 8 \/ port < 8))
  <2>1. AfterIn(x, port) = x
    BY <1>10 DEF AfterIn
  <2>2. QED
    BY <1>6, <2>1
<1> HIDE DEF dev
<1>11. QED
  BY <1>7, <1>8, <1>9, <1>10

-----------------------------------------------------------------------------
(***************************************************************************)
(* The CPU.                                                                *)
(***************************************************************************)
CPUState ==
  [pc : DOMAIN Code, ifOn : BOOLEAN, halted : BOOLEAN, al : Byte, stack : Seq(Frame)]

\* What the program at the program counter is.
LEMMA InstructionFetched ==
  ASSUME TypeOK
  PROVE  /\ DOMAIN Code = 1 .. Len(Code) /\ Len(Code) \in Nat /\ 1 \in DOMAIN Code
         /\ software.handlers \in [Byte -> DOMAIN Code]
         /\ software.keys \in Seq(Key)
         /\ cpu \in CPUState /\ cpu.pc \in 1 .. Len(Code)
         /\ Instruction \in Instructions(Len(Code))
         /\ Op("OUT") /\ WordHalf(Instruction.port) => Instruction.value \in Pit!Digit
         /\ Instruction.op \notin {"JMP", "IRET"} => cpu.pc + 1 \in DOMAIN Code
<1> DEFINE n == Len(Code)
<1>1. /\ Code \in Seq(Instructions(n)) /\ Code # <<>>
      /\ Code[n].op \in {"JMP", "IRET"}
      /\ \A i \in DOMAIN Code :
           Code[i].op = "OUT" /\ WordHalf(Code[i].port) => Code[i].value \in Pit!Digit
      /\ software.handlers \in [Byte -> DOMAIN Code]
      /\ software.keys \in Seq(Key)
  BY SoftwareAssumption DEF TypeOK, Code, Key
<1>2. n \in Nat /\ DOMAIN Code = 1 .. n /\ n # 0
  BY <1>1, LenProperties, EmptySeq
<1>3. cpu \in CPUState /\ cpu.pc \in DOMAIN Code
  BY DEF TypeOK, CPUState
<1>4. Instruction \in Instructions(n)
  BY <1>1, <1>3, ElementOfSeq, <1>2 DEF Instruction
<1>5. Op("OUT") /\ WordHalf(Instruction.port) => Instruction.value \in Pit!Digit
  BY <1>1, <1>3 DEF Op, Instruction
<1>6. Instruction.op \notin {"JMP", "IRET"} => cpu.pc + 1 \in DOMAIN Code
  <2>1. Instruction.op \notin {"JMP", "IRET"} => cpu.pc # n
    BY <1>1 DEF Instruction
  <2> HIDE DEF n
  <2>2. QED
    BY <1>2, <1>3, <2>1
<1>7. 1 \in DOMAIN Code
  <2> HIDE DEF n
  <2>1. QED
    BY <1>2
<1>8. QED
  BY <1>1, <1>2, <1>3, <1>4, <1>5, <1>6, <1>7

\* The operands of the instructions.
LEMMA Operands ==
  ASSUME NEW n \in Nat, NEW i \in Instructions(n)
  PROVE  /\ i.op = "OUT" => i.port \in Port /\ i.value \in Byte
         /\ i.op = "IN" => i.port \in Port
         /\ i.op \in {"JMP", "JZ"} => i.target \in 1 .. n
  BY DEF Instructions

\* The registers of the CPU take the values of their types.
LEMMA RegisterChanges ==
  ASSUME NEW c \in CPUState
  PROVE  /\ \A v \in DOMAIN Code : [c EXCEPT !.pc = v] \in CPUState
         /\ \A v \in BOOLEAN : [c EXCEPT !.ifOn = v] \in CPUState
         /\ \A v \in BOOLEAN : [c EXCEPT !.halted = v] \in CPUState
         /\ \A v \in Byte : [c EXCEPT !.al = v] \in CPUState
         /\ \A v \in Seq(Frame) : [c EXCEPT !.stack = v] \in CPUState
  BY DEF CPUState

\* The CPU after an instruction that does not jump.
LEMMA AdvancedInRange ==
  ASSUME TypeOK, Instruction.op \notin {"JMP", "IRET"}
  PROVE  Advanced \in CPUState
<1>1. cpu \in CPUState /\ cpu.pc + 1 \in DOMAIN Code
  BY InstructionFetched
<1>2. QED
  BY <1>1, RegisterChanges DEF Advanced

\* What an instruction or an interrupt must leave.
Kept ==
  /\ DevicesOK(xt') /\ cpu' \in CPUState /\ QueueOK(xt'.ppi, sent')
  /\ sent' \in Seq(Key) /\ handled' \in Seq(Byte)

\* The instructions.
LEMMA InstructionKeeps ==
  ASSUME TypeOK, NEW x, DevicesOK(x), QueueOK(x.ppi, sent), Execute(x)
  PROVE  Kept
<1>1. sent \in Seq(Key) /\ handled \in Seq(Byte) /\ cpu \in CPUState
  BY DEF TypeOK, Key, CPUState
<1>2. /\ Instruction \in Instructions(Len(Code)) /\ Len(Code) \in Nat
      /\ DOMAIN Code = 1 .. Len(Code)
  BY InstructionFetched
<1>3. CASE OutByte(x)
  <2> DEFINE port == Instruction.port
             v == Instruction.value
  <2>1. port \in Port /\ v \in Byte
    BY <1>2, <1>3, Operands DEF OutByte, Op
  <2>2. WordHalf(port) => v \in Pit!Digit
    BY <1>3, InstructionFetched DEF OutByte
  <2>3. xt' = Out(x, port, v) /\ cpu' = Advanced /\ Op("OUT")
    BY <1>3 DEF OutByte
  <2>4. Advanced \in CPUState
    BY <2>3, AdvancedInRange DEF Op
  <2>5. sent' \in Seq(Key) /\ handled' \in Seq(Byte)
    <3>1. <<Ppi!SelfTestPassed>> \in Seq(Key) /\ <<>> \in Seq(Byte)
      BY DEF Ppi!SelfTestPassed, Key, Byte
    <3>2. \/ sent' = <<Ppi!SelfTestPassed>> /\ handled' = <<>>
          \/ sent' = sent /\ handled' = handled
      BY <1>3 DEF OutByte
    <3>3. QED
      BY <1>1, <3>1, <3>2
  <2> HIDE DEF port, v
  <2>6. DevicesOK(xt')
    BY <2>1, <2>2, <2>3, PortWritten
  <2>7. QueueOK(xt'.ppi, sent')
    <3>1. x.ppi \in PPIState
      BY Devices
    <3>2. xt'.ppi = IF Device(port) = "ppi" /\ port % 4 = 1 THEN Ppi!WritePortB(x.ppi, v)
                    ELSE x.ppi
      BY <2>3, KeyboardWritten
    <3>3. IF Device(port) = "ppi" /\ port % 4 = 1 /\ Ppi!ResetsKeyboard(x.ppi, v)
          THEN sent' = <<Ppi!SelfTestPassed>> ELSE sent' = sent
      BY <1>3 DEF OutByte, port, v
    <3>4. CASE Device(port) = "ppi" /\ port % 4 = 1 /\ Ppi!ResetsKeyboard(x.ppi, v)
      BY <2>1, <3>1, <3>2, <3>3, <3>4, AnswerWaits
    <3>5. CASE Device(port) = "ppi" /\ port % 4 = 1 /\ ~Ppi!ResetsKeyboard(x.ppi, v)
      BY <2>1, <3>1, <3>2, <3>3, <3>5, ClearedWaits
    <3>6. CASE ~(Device(port) = "ppi" /\ port % 4 = 1)
      BY <3>2, <3>3, <3>6
    <3>7. QED
      BY <3>4, <3>5, <3>6
  <2>8. QED
    BY <2>3, <2>4, <2>5, <2>6, <2>7 DEF Kept
<1>4. CASE InByte(x)
  <2> DEFINE port == Instruction.port
  <2>1. port \in Port /\ Instruction.op \notin {"JMP", "IRET"}
    BY <1>2, <1>4, Operands DEF InByte, Op
  <2>2. /\ xt' = AfterIn(x, port) /\ cpu' = [Advanced EXCEPT !.al = Value(x, port)]
        /\ sent' = sent /\ handled' = handled
    BY <1>4 DEF InByte
  <2> HIDE DEF port
  <2>3. Value(x, port) \in Byte /\ DevicesOK(AfterIn(x, port)) /\ AfterIn(x, port).ppi = x.ppi
    BY <2>1, PortRead, KeyboardRead
  <2>4. cpu' \in CPUState
    BY <2>1, <2>2, <2>3, AdvancedInRange, RegisterChanges
  <2>5. QED
    BY <1>1, <2>2, <2>3, <2>4 DEF Kept
<1>5. CASE Take(x)
  <2>1. /\ xt' = x /\ cpu' = Advanced /\ sent' = sent /\ handled' = Append(handled, cpu.al)
        /\ Instruction.op \notin {"JMP", "IRET"}
    BY <1>5 DEF Take, Op
  <2>2. cpu.al \in Byte
    BY <1>1 DEF CPUState
  <2>3. Append(handled, cpu.al) \in Seq(Byte)
    BY <1>1, <2>2
  <2>4. QED
    BY <1>1, <2>1, <2>3, AdvancedInRange DEF Kept
<1>6. CASE SetIF(x)
  <2>1. /\ xt' = x /\ cpu' = [Advanced EXCEPT !.ifOn = Op("STI")]
        /\ sent' = sent /\ handled' = handled
        /\ Instruction.op \notin {"JMP", "IRET"}
    BY <1>6 DEF SetIF
  <2>2. Op("STI") \in BOOLEAN
    BY DEF Op
  <2>3. cpu' \in CPUState
    BY <2>1, <2>2, AdvancedInRange, RegisterChanges
  <2>4. QED
    BY <1>1, <2>1, <2>3 DEF Kept
<1>7. CASE Halt(x)
  <2>1. /\ xt' = x /\ cpu' = [Advanced EXCEPT !.halted = TRUE]
        /\ sent' = sent /\ handled' = handled
        /\ Instruction.op \notin {"JMP", "IRET"}
    BY <1>7 DEF Halt, Op
  <2>2. cpu' \in CPUState
    BY <2>1, AdvancedInRange, RegisterChanges
  <2>3. QED
    BY <1>1, <2>1, <2>2 DEF Kept
<1>8. CASE Jump(x)
  <2>1. /\ xt' = x /\ sent' = sent /\ handled' = handled
        /\ Instruction.op \in {"JMP", "JZ"}
        /\ \/ Op("JZ") /\ cpu' = Advanced
           \/ cpu' = [cpu EXCEPT !.pc = Instruction.target]
    BY <1>8 DEF Jump
  <2>2. Op("JZ") => Advanced \in CPUState
    BY AdvancedInRange DEF Op
  <2>3. Instruction.target \in DOMAIN Code
    BY <1>2, <2>1, Operands
  <2>4. [cpu EXCEPT !.pc = Instruction.target] \in CPUState
    BY <1>1, <2>3, RegisterChanges
  <2>5. QED
    BY <1>1, <2>1, <2>2, <2>4 DEF Kept
<1>9. CASE ReturnFromInterrupt(x)
  <2> DEFINE f == Head(cpu.stack)
             rest == Tail(cpu.stack)
  <2>1. /\ xt' = x /\ sent' = sent /\ handled' = handled
        /\ cpu.stack # <<>>
        /\ cpu' = [cpu EXCEPT !.pc = f.pc, !.ifOn = f.ifOn, !.al = f.al, !.stack = rest]
    BY <1>9 DEF ReturnFromInterrupt
  <2>2. cpu.stack \in Seq(Frame)
    BY <1>1 DEF CPUState
  <2>3. f \in Frame /\ rest \in Seq(Frame)
    BY <2>1, <2>2, HeadAndTail
  <2> HIDE DEF f, rest
  <2>4. f.pc \in DOMAIN Code /\ f.ifOn \in BOOLEAN /\ f.al \in Byte
    BY <1>2, <2>3 DEF Frame
  <2> DEFINE c1 == [cpu EXCEPT !.pc = f.pc]
             c2 == [c1 EXCEPT !.ifOn = f.ifOn]
             c3 == [c2 EXCEPT !.al = f.al]
             c4 == [c3 EXCEPT !.stack = rest]
  <2>5. cpu' = c4
    BY <1>1, <2>1 DEF CPUState
  <2>6. c1 \in CPUState
    BY <1>1, <2>4, RegisterChanges
  <2> HIDE DEF c1
  <2>7. c2 \in CPUState
    BY <2>4, <2>6, RegisterChanges
  <2> HIDE DEF c2
  <2>8. c3 \in CPUState
    BY <2>4, <2>7, RegisterChanges
  <2> HIDE DEF c3
  <2>9. c4 \in CPUState
    BY <2>3, <2>8, RegisterChanges
  <2>10. QED
    BY <1>1, <2>1, <2>5, <2>9 DEF Kept
<1>10. QED
  BY <1>3, <1>4, <1>5, <1>6, <1>7, <1>8, <1>9 DEF Execute

\* An interrupt that is served.
LEMMA InterruptKeeps ==
  ASSUME TypeOK, NEW x, DevicesOK(x), QueueOK(x.ppi, sent), ServeInterrupt(x)
  PROVE  Kept
<1> DEFINE vector == Pic!AcknowledgeVector(x.pic)
           f == [pc |-> cpu.pc, ifOn |-> cpu.ifOn, al |-> cpu.al, vector |-> vector]
           p == Pic!Acknowledge(x.pic)
           new == software.handlers[vector]
           stack == <<f>> \o cpu.stack
<1>1. /\ xt' = [x EXCEPT !.pic = p] /\ sent' = sent /\ handled' = handled
      /\ cpu' = [cpu EXCEPT !.pc = new, !.ifOn = FALSE, !.halted = FALSE, !.stack = stack]
  BY DEF ServeInterrupt
<1>2. sent \in Seq(Key) /\ handled \in Seq(Byte) /\ cpu \in CPUState
  BY DEF TypeOK, Key, CPUState
<1>3. PICOK(p) /\ vector \in Byte
  BY PICAcknowledged, Devices
<1> HIDE DEF vector, p
<1>4. new \in DOMAIN Code /\ DOMAIN Code = 1 .. Len(Code)
  BY <1>3, InstructionFetched
<1>5. f \in Frame
  BY <1>2, <1>3, <1>4 DEF CPUState, Frame
<1> HIDE DEF f, new
<1>6. stack \in Seq(Frame)
  <2>1. cpu.stack \in Seq(Frame) /\ <<f>> \in Seq(Frame)
    BY <1>2, <1>5 DEF CPUState
  <2>2. QED
    BY <2>1, ConcatProperties
<1> HIDE DEF stack
<1> DEFINE c1 == [cpu EXCEPT !.pc = new]
           c2 == [c1 EXCEPT !.ifOn = FALSE]
           c3 == [c2 EXCEPT !.halted = FALSE]
           c4 == [c3 EXCEPT !.stack = stack]
<1>7. cpu' = c4
  BY <1>1, <1>2 DEF CPUState
<1>8. c1 \in CPUState
  BY <1>2, <1>4, RegisterChanges
<1> HIDE DEF c1
<1>9. c2 \in CPUState
  BY <1>8, RegisterChanges
<1> HIDE DEF c2
<1>10. c3 \in CPUState
  BY <1>9, RegisterChanges
<1> HIDE DEF c3
<1>11. c4 \in CPUState
  BY <1>6, <1>10, RegisterChanges
<1>12. DevicesOK(xt')
  BY <1>1, <1>3, DeviceChanges
<1>13. xt'.ppi = x.ppi
  BY <1>1 DEF DevicesOK, XTState
<1>14. QED
  BY <1>1, <1>2, <1>7, <1>11, <1>12, <1>13 DEF Kept

-----------------------------------------------------------------------------
(***************************************************************************)
(* The machine.                                                            *)
(***************************************************************************)

\* Types are kept by what keeps the parts.
LEMMA TypesTogether ==
  ASSUME IInv, Kept, UNCHANGED software, unread' \in Seq(Key)
  PROVE  IInv'
<1>1. CPUState' = [pc : DOMAIN Code', ifOn : BOOLEAN, halted : BOOLEAN, al : Byte,
                   stack : Seq(Frame')]
  BY DEF CPUState
<1>2. Code' = Code /\ Frame' = Frame
  BY DEF Code, Frame
<1>3. cpu' \in CPUState'
  BY <1>1, <1>2 DEF Kept, CPUState
<1>4. software' \in Software
  BY DEF IInv, TypeOK
<1>5. DevicesOK(xt)' /\ xt' \in XTState
  BY DEF Kept, DevicesOK
<1>6. QueueOK(xt.ppi, sent)'
  BY DEF Kept, QueueOK, ShowsCurrent, Waiting
<1>7. QED
  BY <1>1, <1>3, <1>4, <1>5, <1>6 DEF IInv, TypeOK, Kept, Key

\* The inductive invariant holds at first, and every step keeps it.
THEOREM Invariance == Spec => []IInv
<1>1. Init => IInv
  <2> SUFFICES ASSUME Init PROVE IInv
    OBVIOUS
  <2>1. DevicesOK(xt)
    BY SwitchedOn DEF Init
  <2>2. xt \in XTState
    BY <2>1 DEF DevicesOK
  <2>3. software \in Software
    BY DEF Init
  <2>4. /\ Code \in Seq(Instructions(Len(Code))) /\ Code # <<>>
        /\ software.keys \in Seq(Byte \ {0})
    BY <2>3, SoftwareAssumption DEF Code
  <2>5. 1 \in DOMAIN Code
    BY <2>4, EmptySeq, LenProperties
  <2>6. cpu \in CPUState
    <3>1. <<>> \in Seq(Frame) /\ 0 \in Byte
      BY DEF Byte
    <3>2. QED
      BY <2>5, <3>1 DEF Init, CPUState
  <2>7. unread \in Seq(Byte \ {0}) /\ sent \in Seq(Byte \ {0}) /\ handled \in Seq(Byte)
    BY <2>4 DEF Init
  <2>8. QueueOK(xt.ppi, sent)
    <3>1. ShowsCurrent(xt.ppi) /\ Waiting(xt.ppi) = <<>> /\ sent = <<>>
      BY DEF Init, Ppi!NewPPI, ShowsCurrent, Waiting
    <3>2. <<>> \in Seq(Key) /\ <<>> = <<>> \o <<>>
      OBVIOUS
    <3>3. QED
      BY <3>1, <3>2 DEF QueueOK
  <2>9. QED
    BY <2>1, <2>2, <2>3, <2>6, <2>7, <2>8 DEF IInv, TypeOK, CPUState
<1>2. IInv /\ [Next]_vars => IInv'
  <2> SUFFICES ASSUME IInv, [Next]_vars PROVE IInv'
    OBVIOUS
  <2>1. TypeOK /\ DevicesOK(xt) /\ QueueOK(xt.ppi, sent)
    BY DEF IInv
  <2>2. /\ unread \in Seq(Key) /\ sent \in Seq(Key) /\ handled \in Seq(Byte)
        /\ cpu \in CPUState
    BY <2>1 DEF TypeOK, Key, CPUState
  <2>3. CASE Step
    <3> DEFINE x == Ticked(xt)
    <3>1. DevicesOK(x) /\ QueueOK(x.ppi, sent)
      BY <2>1, StrokesKeep
    <3>2. ServeInterrupt(x) \/ StayHalted(x) \/ Execute(x)
      BY <2>3 DEF Step
    <3>3. software' = software /\ unread' = unread
      BY <2>3 DEF Step
    <3> HIDE DEF x
    <3>4. Kept
      <4>1. CASE ServeInterrupt(x)
        BY <2>1, <3>1, <4>1, InterruptKeeps
      <4>2. CASE StayHalted(x)
        BY <2>2, <3>1, <4>2 DEF StayHalted, Kept
      <4>3. CASE Execute(x)
        BY <2>1, <3>1, <4>3, InstructionKeeps
      <4>4. QED
        BY <3>2, <4>1, <4>2, <4>3
    <3>5. QED
      BY <2>2, <3>3, <3>4, TypesTogether
  <2>4. CASE KeyGoesDown
    <3> DEFINE key == Head(unread)
               k == Ppi!PressScancode(xt.ppi, key)
               p == RaisedIf(xt.pic, 1, Ppi!PressRaisesIRQ1(xt.ppi))
    <3>1. key \in Key /\ Tail(unread) \in Seq(Key)
      BY <2>2, <2>4, HeadAndTail DEF KeyGoesDown
    <3>2. /\ xt' = [xt EXCEPT !.ppi = k, !.pic = p] /\ sent' = Append(sent, key)
          /\ unread' = Tail(unread) /\ software' = software /\ cpu' = cpu /\ handled' = handled
      BY <2>4 DEF KeyGoesDown
    <3>3. PICOK(xt.pic) /\ xt.ppi \in PPIState
      BY <2>1, Devices
    <3> HIDE DEF key
    <3>4. k \in PPIState /\ PICOK(p)
      BY <3>1, <3>3, KeyPressed, RaisedOrNot
    <3>5. Append(sent, key) \in Seq(Key)
      BY <2>2, <3>1
    <3>11. QueueOK(k, Append(sent, key))
      BY <2>1, <3>1, <3>3, PressedWaits
    <3> HIDE DEF k, p
    <3>12. xt'.ppi = k
      BY <2>1, <3>2 DEF DevicesOK, XTState
    <3> DEFINE y1 == [xt EXCEPT !.ppi = k]
               y2 == [y1 EXCEPT !.pic = p]
    <3>6. xt' = y2
      BY <2>1, <3>2 DEF DevicesOK, XTState
    <3>7. DevicesOK(y1)
      BY <2>1, <3>4, DeviceChanges
    <3> HIDE DEF y1
    <3>8. DevicesOK(y2)
      BY <3>4, <3>7, DeviceChanges
    <3>9. Kept
      BY <2>2, <3>2, <3>5, <3>6, <3>8, <3>11, <3>12 DEF Kept
    <3>10. QED
      BY <3>1, <3>2, <3>9, TypesTogether
  <2>5. CASE UNCHANGED vars
    <3>1. Kept /\ UNCHANGED software /\ unread' \in Seq(Key)
      BY <2>1, <2>2, <2>5 DEF vars, Kept
    <3>2. QED
      BY <3>1, TypesTogether
  <2>6. QED
    BY <2>3, <2>4, <2>5 DEF Next
<1>3. QED
  BY <1>1, <1>2, PTL DEF Spec

\* Whatever the program, the devices keep their registers in range and the CPU
\* stays within the program (NewXT, Step and PressKey of machine.go, with the
\* port handlers of pic.go, pit.go, ppi.go and dma.go).
THEOREM TypeCorrect == Spec => []TypeOK
<1>1. IInv => TypeOK
  BY DEF IInv
<1>2. QED
  BY <1>1, Invariance, PTL

\* Whatever the program, no code is lost, repeated or overtaken between the keys
\* and port A, which shows the oldest code announced (ppi.go:50-146; Step,
\* machine.go:172-187).
THEOREM KeysWaitInOrder == Spec => []CodesWaitInOrder
<1>1. IInv => CodesWaitInOrder
  <2> SUFFICES ASSUME IInv PROVE CodesWaitInOrder
    OBVIOUS
  <2> DEFINE p == xt.ppi
  <2>1. p \in PPIState /\ QueueOK(p, sent)
    BY Devices DEF IInv
  <2>2. PICK done \in Seq(Key) : sent = done \o Waiting(p)
    BY <2>1 DEF QueueOK
  <2>3. /\ Len(done) \in 0 .. Len(sent)
        /\ Waiting(p) = SubSeq(sent, Len(done) + 1, Len(sent))
    BY <2>1, <2>2, WaitingKeys, LastPart
  <2>4. ~Ppi!PB7(p.portB) => Ppi!In8(p, 0) = p.kbCurrent
    BY <2>1 DEF Ppi!In8, QueueOK, ShowsCurrent
  <2>5. p.kbCurrent # 0 => Head(Waiting(p)) = p.kbCurrent
    BY <2>1, WaitingKeys
  <2> HIDE DEF p
  <2>6. \E n \in 0 .. Len(sent) : Waiting(p) = SubSeq(sent, n + 1, Len(sent))
    BY <2>3
  <2>7. QED
    BY <2>4, <2>5, <2>6 DEF CodesWaitInOrder, p
<1>2. QED
  BY <1>1, Invariance, PTL
=============================================================================
