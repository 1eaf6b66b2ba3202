--------------------------------- MODULE PIT ---------------------------------
(***************************************************************************)
(* The 8253 timer, device/pit.go: pure operators on a counter and on the   *)
(* function from Counters to counters.  Register widths follow Radix       *)
(* (module Words).  The mode bits of a control word are stored by the code *)
(* and never read; they are left out.                                      *)
(***************************************************************************)
EXTENDS Naturals, Bits, Words

CONSTANT Counters     \* the counters modelled, of the chip's 0, 1 and 2

ASSUME PITAssumption == Counters \subseteq 0 .. 2

CounterState ==
  [reload : Word, count : Word, access : 0 .. 3, writeHi : BOOLEAN, readHi : BOOLEAN,
   latched : BOOLEAN, latch : Word, running : BOOLEAN]

NewCounter ==
  [reload |-> 0, count |-> 0, access |-> 0, writeHi |-> FALSE, readHi |-> FALSE,
   latched |-> FALSE, latch |-> 0, running |-> FALSE]

NewPIT == [c \in Counters |-> NewCounter]

(***************************************************************************)
(* The clock.                                                              *)
(***************************************************************************)
\* A reload of 0 stands for a full turn.
Period(c) == IF c.reload = 0 THEN WordSize ELSE c.reload

\* The strokes left to the next terminal count.
Remaining(c) == IF c.count = 0 THEN Period(c) ELSE c.count

\* The terminal counts that n strokes bring about.
Pulses(c, n) ==
  IF ~c.running \/ n < Remaining(c) THEN 0
  ELSE (n - Remaining(c)) \div Period(c) + 1

CounterTickForgets(c, n) ==   \* mutant: a terminal count reloads the whole period
  IF ~c.running THEN c
  ELSE [c EXCEPT !.count = IF Pulses(c, n) > 0 THEN c.reload ELSE Remaining(c) - n]

CounterTickUnwrapped(c, n) == \* mutant: the count is kept wider than 16 bits
  IF ~c.running THEN c
  ELSE [c EXCEPT !.count = Remaining(c) + Pulses(c, n) * Period(c) - n]

CounterTick(c, n) ==
  IF ~c.running THEN c
  ELSE [c EXCEPT !.count = (Remaining(c) + Pulses(c, n) * Period(c) - n) % WordSize]

Tick(t, n) == [c \in Counters |-> CounterTick(t[c], n)]

\* Whether Tick calls IRQ0, and how often it calls Counter1Out.
RaisesIRQ0(t, n) == 0 \in Counters /\ Pulses(t[0], n) > 0
RefreshCallsOnce(t, n) ==     \* mutant: treated like IRQ0
  IF 1 \in Counters /\ Pulses(t[1], n) > 0 THEN 1 ELSE 0
RefreshCalls(t, n) == IF 1 \in Counters THEN Pulses(t[1], n) ELSE 0

(***************************************************************************)
(* Writes to a counter's port and to the control port.                     *)
(***************************************************************************)
Load(c, reload) ==
  [c EXCEPT !.reload = reload, !.count = reload, !.running = TRUE]

WriteCounter(c, v) ==
  CASE c.access = 1 -> Load(c, v)
    [] c.access = 2 -> Load(c, v * Radix)
    [] c.access \notin {1, 2} /\ ~c.writeHi ->
         [c EXCEPT !.reload = WithLow(@, v), !.writeHi = TRUE]
    [] c.access \notin {1, 2} /\ c.writeHi ->
         [Load(c, WithHigh(c.reload, v)) EXCEPT !.writeHi = FALSE]

Selected(v) == v \div 64            \* 3 is the 8254's read-back: ignored
AccessOf(v) == (v \div 16) % 4
IsLatch(v) == AccessOf(v) = 0

Configure(c, v) ==
  [c EXCEPT !.access = AccessOf(v), !.writeHi = FALSE, !.readHi = FALSE,
            !.running = FALSE]

LatchCount(c) == [c EXCEPT !.latch = c.count, !.latched = TRUE]

ControlWord(t, v) ==
  IF Selected(v) \notin Counters THEN t
  ELSE [t EXCEPT ![Selected(v)] = IF IsLatch(v) THEN LatchCount(@) ELSE Configure(@, v)]

(***************************************************************************)
(* Reads of a counter's port.                                              *)
(***************************************************************************)
Presented(c) == IF c.latched THEN c.latch ELSE c.count

ReadByte(c) ==
  IF c.access = 1 \/ (c.access # 2 /\ ~c.readHi) THEN Low(Presented(c)) ELSE High(Presented(c))

AfterReadUnlatches(c) ==            \* mutant: the first byte releases the latch
  IF c.access \in {1, 2} THEN [c EXCEPT !.latched = FALSE]
  ELSE [c EXCEPT !.readHi = ~@, !.latched = FALSE]

AfterRead(c) ==
  IF c.access \in {1, 2} THEN [c EXCEPT !.latched = FALSE]
  ELSE [c EXCEPT !.readHi = ~@, !.latched = @ /\ ~c.readHi]
=============================================================================
