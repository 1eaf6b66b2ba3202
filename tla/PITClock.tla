------------------------------ MODULE PITClock ------------------------------
(***************************************************************************)
(* The timer under every interleaving of clock ticks and port accesses,    *)
(* with the history that tells whether it keeps time: the strokes since a  *)
(* counter was loaded, the callbacks it made since then, and the first     *)
(* half of a two-byte read.                                                *)
(***************************************************************************)
EXTENDS PIT

CONSTANTS
  Strokes,       \* the arguments of Tick (the machine passes 8)
  ControlBytes,  \* the bytes written to port 0x43
  DataBytes,     \* the bytes written to the counters' ports
  ReadCounters,  \* the counters whose ports are read
  MaxElapsed     \* bound of the model: strokes observed between two loads

ASSUME PITClockAssumption ==
  /\ Strokes \subseteq Nat \ {0}
  /\ ControlBytes \subseteq Byte
  /\ DataBytes \subseteq Digit
  /\ ReadCounters \subseteq Counters
  /\ MaxElapsed \in Nat

VARIABLES
  pit,
  torn,     \* the low half of a new reload was written while the counter ran
  elapsed,  \* strokes since the counter was loaded, while it keeps time
  calls,    \* callbacks since then: IRQ0 for counter 0, Counter1Out for counter 1
  clean,    \* a latched read is half done, with no control word since
  begun     \* then, the value whose low byte was read

vars == <<pit, elapsed, calls, torn, begun, clean>>

Init ==
  /\ pit = NewPIT
  /\ elapsed = [c \in Counters |-> 0]
  /\ calls = [c \in Counters |-> 0]
  /\ torn = [c \in Counters |-> FALSE]
  /\ begun = [c \in Counters |-> 0]
  /\ clean = [c \in Counters |-> FALSE]

CallsOf(c, n) ==
  CASE c = 0 -> IF RaisesIRQ0(pit, n) THEN 1 ELSE 0
    [] c = 1 -> RefreshCalls(pit, n)
    [] OTHER -> 0

KeepsTime(c) == pit[c].running /\ ~torn[c]

ClockTick(n) ==
  /\ \A c \in Counters : KeepsTime(c) => elapsed[c] + n <= MaxElapsed
  /\ pit' = Tick(pit, n)
  /\ elapsed' = [c \in Counters |-> elapsed[c] + IF KeepsTime(c) THEN n ELSE 0]
  /\ calls' = [c \in Counters |-> calls[c] + IF KeepsTime(c) THEN CallsOf(c, n) ELSE 0]
  /\ UNCHANGED <<torn, begun, clean>>

HalfWrite(c) == pit[c].access \notin {1, 2} /\ ~pit[c].writeHi

Restart(c) ==
  /\ elapsed' = [elapsed EXCEPT ![c] = 0]
  /\ calls' = [calls EXCEPT ![c] = 0]

WriteLowHalf(c, v) ==
  /\ HalfWrite(c)
  /\ pit' = [pit EXCEPT ![c] = WriteCounter(@, v)]
  /\ torn' = [torn EXCEPT ![c] = pit[c].running]
  /\ Restart(c)
  /\ UNCHANGED <<begun, clean>>

WriteAndLoad(c, v) ==
  /\ ~HalfWrite(c)
  /\ pit' = [pit EXCEPT ![c] = WriteCounter(@, v)]
  /\ torn' = [torn EXCEPT ![c] = FALSE]
  /\ Restart(c)
  /\ UNCHANGED <<begun, clean>>

LatchCommand(v) ==
  /\ IsLatch(v)
  /\ pit' = ControlWord(pit, v)
  /\ clean' = [c \in Counters |-> clean[c] /\ c # Selected(v)]
  /\ begun' = [c \in Counters |-> IF clean'[c] THEN begun[c] ELSE 0]
  /\ UNCHANGED <<elapsed, calls, torn>>

SetMode(v) ==
  /\ ~IsLatch(v)
  /\ Selected(v) \in Counters
  /\ pit' = ControlWord(pit, v)
  /\ torn' = [torn EXCEPT ![Selected(v)] = FALSE]
  /\ Restart(Selected(v))
  /\ clean' = [clean EXCEPT ![Selected(v)] = FALSE]
  /\ begun' = [begun EXCEPT ![Selected(v)] = 0]

Read(c) ==
  /\ pit' = [pit EXCEPT ![c] = AfterRead(@)]
  /\ clean' = [clean EXCEPT ![c] = pit[c].latched /\ pit[c].access \notin {1, 2} /\ ~pit[c].readHi]
  /\ begun' = [begun EXCEPT ![c] = IF clean'[c] THEN Presented(pit[c]) ELSE 0]
  /\ UNCHANGED <<elapsed, calls, torn>>

Next ==
  \/ \E n \in Strokes : ClockTick(n)
  \/ \E c \in Counters, v \in DataBytes : WriteLowHalf(c, v) \/ WriteAndLoad(c, v)
  \/ \E v \in ControlBytes : LatchCommand(v) \/ SetMode(v)
  \/ \E c \in ReadCounters : Read(c)

Spec == Init /\ [][Next]_vars

-----------------------------------------------------------------------------
\* Every variable has its type.
TypeOK ==
  /\ pit \in [Counters -> CounterState]
  /\ elapsed \in [Counters -> 0 .. MaxElapsed]
  /\ calls \in [Counters -> 0 .. MaxElapsed]
  /\ torn \in [Counters -> BOOLEAN]
  /\ begun \in [Counters -> Word]
  /\ clean \in [Counters -> BOOLEAN]

\* The system clock neither drifts nor skips: however the strokes are grouped
\* into calls of Tick, counter 0 has raised IRQ0 once per full period since it
\* was loaded, as long as no call brings more strokes than a period (tick,
\* pit.go:58-78; Tick, pit.go:45-47).
SystemClockExact ==
  \A c \in Counters \cap {0} :
    KeepsTime(c) /\ (\A n \in Strokes : n <= Period(pit[c])) =>
      calls[c] = elapsed[c] \div Period(pit[c])

\* The refresh clock is exact for every grouping: one Counter1Out per terminal
\* count, also when one Tick spans several (Tick, pit.go:48-52).
RefreshClockExact ==
  \A c \in Counters \cap {1} :
    KeepsTime(c) => calls[c] = elapsed[c] \div Period(pit[c])

\* What pit.go:19-20 says of IRQ0: it is called at every terminal count of
\* counter 0, also when one Tick spans several.
IRQ0AtEveryTerminalCount ==
  \A c \in Counters \cap {0} :
    KeepsTime(c) => calls[c] = elapsed[c] \div Period(pit[c])

\* A latched count is read whole: the high byte returned after a latched low
\* byte belongs to the same count, whatever ticks and writes came between the
\* two reads (In8, pit.go:131-157; latch, pit.go:119-122).
LatchedReadIsWhole ==
  [][\A c \in Counters : clean[c] /\ Read(c) => ReadByte(pit[c]) = High(begun[c])]_vars
=============================================================================
