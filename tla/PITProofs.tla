------------------------------ MODULE PITProofs ------------------------------
(***************************************************************************)
(* The timer keeps time for every width of its registers, every grouping   *)
(* of the strokes and every bytes the host writes.                         *)
(*                                                                         *)
(* The inductive invariant adds to the types, for each counter:            *)
(*   - OnTime: the strokes since it was loaded and those it has left are   *)
(*     one period more than its callbacks account for, and it has no more  *)
(*     left than a period;                                                 *)
(*   - CallsWithinStrokes: no more callbacks than strokes, which keeps the *)
(*     history within its bound;                                           *)
(*   - HalfRead: while a latched read is half done the latch still holds   *)
(*     the count whose low byte was read.                                  *)
(***************************************************************************)
EXTENDS PITClock, WordProofs, TLAPS

Due(c) ==
  /\ Remaining(pit[c]) <= Period(pit[c])
  /\ elapsed[c] + Remaining(pit[c]) = (calls[c] + 1) * Period(pit[c])

\* IRQ0 is called once per Tick, so counter 0 is on time only if no Tick brings
\* more strokes than a period.
Regular(c) == c = 1 \/ \A n \in Strokes : n <= Period(pit[c])

OnTime(c) == c \in {0, 1} /\ KeepsTime(c) /\ Regular(c) => Due(c)

CallsWithinStrokes(c) == calls[c] <= elapsed[c]

HalfRead(c) ==
  clean[c] => /\ pit[c].latched /\ pit[c].readHi /\ pit[c].access \notin {1, 2}
              /\ begun[c] = pit[c].latch

IInv ==
  /\ TypeOK
  /\ \A c \in Counters : OnTime(c) /\ CallsWithinStrokes(c) /\ HalfRead(c)

-----------------------------------------------------------------------------
(***************************************************************************)
(* The clock.                                                              *)
(***************************************************************************)

\* The periods of a counter and its distance to the terminal count.
LEMMA PeriodBounds ==
  ASSUME NEW k \in CounterState
  PROVE  /\ Period(k) \in 1 .. WordSize
         /\ Remaining(k) \in 1 .. WordSize
  BY TurnIsPositive DEF CounterState, Period, Remaining, Word

\* How many terminal counts n strokes bring about, and what they leave: a part of
\* the period under way, or of the last one begun.
LEMMA PulsesCount ==
  ASSUME NEW k \in CounterState, NEW n \in Nat \ {0}
  PROVE  LET left == Remaining(k) + Pulses(k, n) * Period(k) - n IN
         /\ Pulses(k, n) \in 0 .. n
         /\ n <= Period(k) => Pulses(k, n) <= 1
         /\ k.running /\ n < Remaining(k) => Pulses(k, n) = 0 /\ left \in 1 .. Remaining(k) - 1
         /\ k.running /\ n >= Remaining(k) => left \in 1 .. Period(k)
<1> DEFINE r == Remaining(k)
           p == Period(k)
           x == n - r
           q == x \div p
           s == x % p
<1>1. p \in Nat \ {0} /\ r \in Nat \ {0}
  BY PeriodBounds, TurnIsPositive
<1>2. CASE ~k.running \/ n < r
  <2>1. Pulses(k, n) = 0
    BY <1>2 DEF Pulses
  <2> HIDE DEF r, p
  <2>2. r + 0 * p - n = r - n
    BY <1>1
  <2>3. QED
    BY <1>1, <1>2, <2>1, <2>2 DEF r, p
<1>3. CASE k.running /\ n >= r
  <2>1. Pulses(k, n) = q + 1
    BY <1>1, <1>3 DEF Pulses
  <2> HIDE DEF r, p
  <2>2. x \in Nat /\ n = r + x
    BY <1>1, <1>3
  <2> HIDE DEF x
  <2>3. q \in Nat /\ s \in 0 .. p - 1 /\ x = q * p + s
    BY <1>1, <2>2, QuotientAndRest
  <2> HIDE DEF q, s
  <2>4. q * p \in Nat /\ q * p >= q /\ (q >= 1 => q * p >= p) /\ (q + 1) * p = q * p + p
    BY <1>1, <2>3
  <2>5. r + (q + 1) * p - n = p - s
    BY <1>1, <2>2, <2>3, <2>4
  <2>6. q + 1 \in 0 .. n /\ (n <= p => q + 1 <= 1)
    BY <1>1, <2>2, <2>3, <2>4
  <2>7. r + (q + 1) * p - n \in 1 .. p
    BY <1>1, <2>3, <2>5
  <2>8. /\ Pulses(k, n) \in 0 .. n
        /\ n <= p => Pulses(k, n) <= 1
        /\ r + Pulses(k, n) * p - n \in 1 .. p
        /\ ~(n < r)
    BY <1>1, <1>3, <2>1, <2>2, <2>6, <2>7
  <2>9. QED
    BY <2>8, Zenon DEF r, p
<1>4. QED
  BY <1>1, <1>2, <1>3

\* A tick leaves a counter in shape with the strokes left that its terminal
\* counts do not account for.
LEMMA TickCounts ==
  ASSUME NEW k \in CounterState, NEW n \in Nat \ {0}
  PROVE  LET j == CounterTick(k, n) IN
         /\ j \in CounterState
         /\ j.running = k.running /\ Period(j) = Period(k)
         /\ j.access = k.access /\ j.latched = k.latched /\ j.latch = k.latch /\ j.readHi = k.readHi
         /\ k.running => Remaining(j) = Remaining(k) + Pulses(k, n) * Period(k) - n
         /\ k.running /\ Remaining(k) <= Period(k) => Remaining(j) <= Period(j)
<1> DEFINE j == CounterTick(k, n)
           left == Remaining(k) + Pulses(k, n) * Period(k) - n
           count == left % WordSize
<1>1. CASE ~k.running
  <2>1. j = k
    BY <1>1 DEF CounterTick
  <2>2. QED
    BY <1>1, <2>1
<1>2. CASE k.running
  <2>1. j = [k EXCEPT !.count = count]
    BY <1>2 DEF CounterTick
  <2>2. /\ Period(k) \in 1 .. WordSize /\ Remaining(k) \in 1 .. WordSize
        /\ WordSize \in Nat \ {0}
    BY PeriodBounds, TurnIsPositive
  <2>3. left \in 1 .. Remaining(k) - 1 \/ left \in 1 .. Period(k)
    BY <1>2, <2>2, PulsesCount
  <2> HIDE DEF left
  <2>4. left \in 1 .. WordSize /\ (left = WordSize => Period(k) = WordSize)
    BY <2>2, <2>3
  <2>5. /\ left < WordSize => count = left
        /\ left = WordSize => count = 0
    BY <2>2, <2>4
  <2>6. count \in Word
    BY <2>2, <2>4, <2>5 DEF Word
  <2> HIDE DEF count
  <2>7. /\ j \in CounterState /\ j.count = count /\ j.reload = k.reload
        /\ j.running = k.running
        /\ j.access = k.access /\ j.latched = k.latched /\ j.latch = k.latch /\ j.readHi = k.readHi
    BY <2>1, <2>6 DEF CounterState
  <2> HIDE DEF j
  <2>8. Period(j) = Period(k)
    BY <2>7 DEF Period
  <2>9. Remaining(j) = left
    BY <2>2, <2>4, <2>5, <2>7, <2>8 DEF Remaining
  <2>10. Remaining(k) <= Period(k) => Remaining(j) <= Period(j)
    BY <2>2, <2>3, <2>8, <2>9
  <2>11. QED
    BY <2>7, <2>8, <2>9, <2>10, Zenon DEF j, left
<1>3. QED
  BY <1>1, <1>2

-----------------------------------------------------------------------------
(***************************************************************************)
(* The ports.                                                              *)
(***************************************************************************)

\* What a counter presents to readers stays as it is.
SameReader(j, k) ==
  j.access = k.access /\ j.latched = k.latched /\ j.latch = k.latch /\ j.readHi = k.readHi

\* A counter that is loaded runs and has a whole period left.
LEMMA LoadStarts ==
  ASSUME NEW k \in CounterState, NEW r \in Word
  PROVE  LET j == Load(k, r) IN
         /\ j \in CounterState /\ SameReader(j, k)
         /\ j.running /\ Remaining(j) = Period(j)
<1> DEFINE a == [k EXCEPT !.reload = r]
           b == [a EXCEPT !.count = r]
           d == [b EXCEPT !.running = TRUE]
<1>1. a \in CounterState /\ a.reload = r /\ SameReader(a, k)
  BY DEF CounterState, SameReader
<1> HIDE DEF a
<1>2. b \in CounterState /\ b.reload = r /\ b.count = r /\ SameReader(b, a)
  BY <1>1 DEF CounterState, SameReader
<1> HIDE DEF b
<1>3. /\ d \in CounterState /\ d.reload = r /\ d.count = r /\ SameReader(d, b)
      /\ d.running = TRUE
  BY <1>2 DEF CounterState, SameReader
<1>4. Load(k, r) = d
  BY DEF Load, a, b, d
<1> HIDE DEF d
<1>5. Remaining(d) = Period(d)
  BY <1>3 DEF Remaining, Period
<1>6. SameReader(d, k)
  BY <1>1, <1>2, <1>3 DEF SameReader
<1>7. QED
  BY <1>3, <1>4, <1>5, <1>6

\* A byte on a counter's port is the first of two halves, or it loads the counter.
LEMMA WriteLoads ==
  ASSUME NEW k \in CounterState, NEW v \in Digit
  PROVE  LET j == WriteCounter(k, v) IN
         /\ j \in CounterState /\ SameReader(j, k)
         /\ IF k.access \notin {1, 2} /\ ~k.writeHi
            THEN j.running = k.running
            ELSE j.running /\ Remaining(j) = Period(j)
<1> DEFINE j == WriteCounter(k, v)
<1>1. k.reload \in Word /\ k.access \in 0 .. 3
  BY DEF CounterState
<1>2. v \in Word /\ v * Radix \in Word
  BY FromDigits
<1>3. WithLow(k.reload, v) \in Word /\ WithHigh(k.reload, v) \in Word
  BY <1>1, HalvesWritten
<1>4. CASE k.access = 1
  <2>1. j = Load(k, v)
    BY <1>4 DEF WriteCounter
  <2>2. QED
    BY <1>2, <1>4, <2>1, LoadStarts
<1>5. CASE k.access = 2
  <2>1. j = Load(k, v * Radix)
    BY <1>5 DEF WriteCounter
  <2>2. QED
    BY <1>2, <1>5, <2>1, LoadStarts
<1>6. CASE k.access \notin {1, 2} /\ ~k.writeHi
  <2> DEFINE a == [k EXCEPT !.reload = WithLow(k.reload, v)]
             b == [a EXCEPT !.writeHi = TRUE]
  <2>1. j = b
    BY <1>6 DEF WriteCounter
  <2>2. a \in CounterState /\ SameReader(a, k) /\ a.running = k.running
    BY <1>3 DEF CounterState, SameReader
  <2> HIDE DEF a
  <2>3. b \in CounterState /\ SameReader(b, a) /\ b.running = a.running
    BY <2>2 DEF CounterState, SameReader
  <2> HIDE DEF b
  <2>4. SameReader(b, k)
    BY <2>2, <2>3 DEF SameReader
  <2>5. QED
    BY <1>6, <2>1, <2>2, <2>3, <2>4
<1>7. CASE k.access \notin {1, 2} /\ k.writeHi
  <2> DEFINE a == Load(k, WithHigh(k.reload, v))
             b == [a EXCEPT !.writeHi = FALSE]
  <2>1. j = b
    BY <1>7 DEF WriteCounter
  <2>2. a \in CounterState /\ SameReader(a, k) /\ a.running /\ Remaining(a) = Period(a)
    BY <1>3, LoadStarts
  <2> HIDE DEF a
  <2>3. /\ b \in CounterState /\ SameReader(b, a) /\ b.running = a.running
        /\ b.reload = a.reload /\ b.count = a.count
    BY <2>2 DEF CounterState, SameReader
  <2> HIDE DEF b
  <2>4. Remaining(b) = Period(b)
    BY <2>2, <2>3 DEF Remaining, Period
  <2>5. SameReader(b, k)
    BY <2>2, <2>3 DEF SameReader
  <2>6. QED
    BY <1>7, <2>1, <2>2, <2>3, <2>4, <2>5
<1>8. QED
  BY <1>4, <1>5, <1>6, <1>7

\* A control word that configures a counter stops it.
LEMMA ConfigureStops ==
  ASSUME NEW k \in CounterState, NEW v \in Byte
  PROVE  Configure(k, v) \in CounterState /\ ~Configure(k, v).running
<1> DEFINE a == [k EXCEPT !.access = AccessOf(v)]
           b == [a EXCEPT !.writeHi = FALSE]
           d == [b EXCEPT !.readHi = FALSE]
           e == [d EXCEPT !.running = FALSE]
<1>1. AccessOf(v) \in 0 .. 3
  BY DEF AccessOf, Byte
<1>2. a \in CounterState
  BY <1>1 DEF CounterState
<1> HIDE DEF a
<1>3. b \in CounterState
  BY <1>2 DEF CounterState
<1> HIDE DEF b
<1>4. d \in CounterState
  BY <1>3 DEF CounterState
<1> HIDE DEF d
<1>5. e \in CounterState /\ e.running = FALSE
  BY <1>4 DEF CounterState
<1>6. Configure(k, v) = e
  BY DEF Configure, a, b, d, e
<1> HIDE DEF e
<1>7. QED
  BY <1>5, <1>6

\* A latch command takes the count and lets the counter run.
LEMMA LatchTakes ==
  ASSUME NEW k \in CounterState
  PROVE  LET j == LatchCount(k) IN
         /\ j \in CounterState
         /\ j.running = k.running /\ j.reload = k.reload /\ j.count = k.count
<1> DEFINE a == [k EXCEPT !.latch = k.count]
           b == [a EXCEPT !.latched = TRUE]
<1>1. a \in CounterState /\ a.running = k.running /\ a.reload = k.reload /\ a.count = k.count
  BY DEF CounterState
<1> HIDE DEF a
<1>2. b \in CounterState /\ b.running = a.running /\ b.reload = a.reload /\ b.count = a.count
  BY <1>1 DEF CounterState
<1>3. LatchCount(k) = b
  BY DEF LatchCount, a, b
<1> HIDE DEF b
<1>4. QED
  BY <1>1, <1>2, <1>3

\* A read lets the counter run; the first half of a latched count leaves the
\* second to be read.
LEMMA ReadPasses ==
  ASSUME NEW k \in CounterState
  PROVE  LET j == AfterRead(k) IN
         /\ j \in CounterState
         /\ j.running = k.running /\ j.reload = k.reload /\ j.count = k.count
         /\ j.access = k.access /\ j.latch = k.latch
         /\ k.latched /\ k.access \notin {1, 2} /\ ~k.readHi => j.latched /\ j.readHi
<1> DEFINE j == AfterRead(k)
<1>1. CASE k.access \in {1, 2}
  <2>1. j = [k EXCEPT !.latched = FALSE]
    BY <1>1 DEF AfterRead
  <2>2. QED
    BY <1>1, <2>1 DEF CounterState
<1>2. CASE k.access \notin {1, 2}
  <2> DEFINE h == ~k.readHi
             l == k.latched /\ ~k.readHi
             a == [k EXCEPT !.readHi = h]
             b == [a EXCEPT !.latched = l]
  <2>1. j = b
    BY <1>2 DEF AfterRead, CounterState
  <2>2. h \in BOOLEAN /\ l \in BOOLEAN
    BY DEF CounterState
  <2>3. k.latched /\ ~k.readHi => h = TRUE /\ l = TRUE
    OBVIOUS
  <2> HIDE DEF h, l
  <2>4. /\ a \in CounterState /\ a.readHi = h
        /\ a.running = k.running /\ a.reload = k.reload /\ a.count = k.count
        /\ a.access = k.access /\ a.latch = k.latch
    BY <2>2 DEF CounterState
  <2> HIDE DEF a
  <2>5. /\ b \in CounterState /\ b.readHi = a.readHi /\ b.latched = l
        /\ b.running = a.running /\ b.reload = a.reload /\ b.count = a.count
        /\ b.access = a.access /\ b.latch = a.latch
    BY <2>2, <2>4 DEF CounterState
  <2> HIDE DEF b
  <2>6. QED
    BY <2>1, <2>3, <2>4, <2>5
<1>3. QED
  BY <1>1, <1>2

-----------------------------------------------------------------------------
(***************************************************************************)
(* The invariant.                                                          *)
(***************************************************************************)

\* The first state: nothing runs, nothing has been counted.
LEMMA InitIInv == Init => IInv
<1> SUFFICES ASSUME Init PROVE IInv
  OBVIOUS
<1>1. 0 \in Word /\ 0 \in 0 .. MaxElapsed
  BY TurnIsPositive, PITClockAssumption
<1>2. NewCounter \in CounterState
  BY <1>1 DEF NewCounter, CounterState
<1>3. TypeOK
  BY <1>1, <1>2 DEF Init, TypeOK, NewPIT
<1>4. ASSUME NEW c \in Counters PROVE OnTime(c) /\ CallsWithinStrokes(c) /\ HalfRead(c)
  <2>1. pit[c].running = FALSE /\ calls[c] = 0 /\ elapsed[c] = 0 /\ clean[c] = FALSE
    BY DEF Init, NewPIT, NewCounter
  <2>2. QED
    BY <2>1 DEF OnTime, KeepsTime, CallsWithinStrokes, HalfRead
<1>5. QED
  BY <1>3, <1>4 DEF IInv

\* A counter that runs as before, with the history as before, stays on time.
LEMMA ClockSame ==
  ASSUME NEW c \in Counters, OnTime(c), CallsWithinStrokes(c),
         pit'[c].running = pit[c].running, pit'[c].reload = pit[c].reload,
         pit'[c].count = pit[c].count, torn'[c] = torn[c],
         elapsed'[c] = elapsed[c], calls'[c] = calls[c]
  PROVE  OnTime(c)' /\ CallsWithinStrokes(c)'
<1>1. Period(pit'[c]) = Period(pit[c]) /\ Remaining(pit'[c]) = Remaining(pit[c])
  BY DEF Period, Remaining
<1>2. QED
  BY <1>1 DEF OnTime, CallsWithinStrokes, KeepsTime, Regular, Due

\* A counter that has just been loaded, or does not keep time, is on time.
LEMMA ClockRestarts ==
  ASSUME NEW c \in Counters, pit'[c] \in CounterState,
         elapsed'[c] = 0, calls'[c] = 0,
         KeepsTime(c)' => Remaining(pit'[c]) = Period(pit'[c])
  PROVE  OnTime(c)' /\ CallsWithinStrokes(c)'
<1> DEFINE p == Period(pit'[c])
<1>1. p \in Nat
  BY PeriodBounds, TurnIsPositive
<1>2. 0 + p = (0 + 1) * p /\ p <= p
  BY <1>1
<1>3. CallsWithinStrokes(c)'
  BY DEF CallsWithinStrokes
<1>4. KeepsTime(c)' => Due(c)'
  BY <1>2 DEF Due
<1>5. QED
  BY <1>3, <1>4 DEF OnTime

\* A reader that is served as before, and whose half-done read is not a new one,
\* finds what it has begun.
LEMMA ReaderSame ==
  ASSUME NEW c \in Counters, HalfRead(c), SameReader(pit'[c], pit[c]),
         clean'[c] => clean[c] /\ begun'[c] = begun[c]
  PROVE  HalfRead(c)'
  BY DEF HalfRead, SameReader

\* The callbacks of one Tick: never more than the strokes, and those of a counter
\* that is on time are its terminal counts.
LEMMA CallsAreCounts ==
  ASSUME NEW c \in Counters, pit[c] \in CounterState, NEW n \in Strokes
  PROVE  /\ CallsOf(c, n) \in 0 .. n
         /\ c \in {0, 1} /\ Regular(c) => CallsOf(c, n) = Pulses(pit[c], n)
<1>1. n \in Nat \ {0}
  BY PITClockAssumption
<1>2. /\ Pulses(pit[c], n) \in 0 .. n
      /\ n <= Period(pit[c]) => Pulses(pit[c], n) <= 1
  BY <1>1, PulsesCount
<1>3. CASE c = 0
  <2>1. CallsOf(c, n) = IF Pulses(pit[c], n) > 0 THEN 1 ELSE 0
    BY <1>3 DEF CallsOf, RaisesIRQ0
  <2>2. Regular(c) => n <= Period(pit[c])
    BY <1>3 DEF Regular
  <2>3. QED
    BY <1>1, <1>2, <2>1, <2>2
<1>4. CASE c = 1
  <2>1. CallsOf(c, n) = Pulses(pit[c], n)
    BY <1>4 DEF CallsOf, RefreshCalls
  <2>2. QED
    BY <1>2, <2>1
<1>5. CASE c \notin {0, 1}
  <2>1. CallsOf(c, n) = 0
    BY <1>5 DEF CallsOf
  <2>2. QED
    BY <1>1, <1>5, <2>1
<1>6. QED
  BY <1>3, <1>4, <1>5

\* Strokes that are counted and terminal counts that are called balance.
LEMMA Balance ==
  ASSUME NEW e \in Nat, NEW r \in Nat, NEW q \in Nat, NEW p \in Nat, NEW m \in Nat, NEW n \in Nat,
         e + r = (q + 1) * p
  PROVE  (e + n) + (r + m * p - n) = ((q + m) + 1) * p
<1>1. ((q + m) + 1) * p = (q + 1) * p + m * p
  OBVIOUS
<1>2. m * p \in Nat /\ (q + 1) * p \in Nat
  OBVIOUS
<1>3. QED
  BY <1>1, <1>2

\* A Tick keeps every counter on time.
LEMMA TickIInv ==
  ASSUME IInv, NEW n \in Strokes, ClockTick(n) PROVE IInv'
<1>1. n \in Nat \ {0} /\ MaxElapsed \in Nat
  BY PITClockAssumption
<1>2. /\ pit \in [Counters -> CounterState] /\ elapsed \in [Counters -> 0 .. MaxElapsed]
      /\ calls \in [Counters -> 0 .. MaxElapsed] /\ torn \in [Counters -> BOOLEAN]
      /\ begun \in [Counters -> Word] /\ clean \in [Counters -> BOOLEAN]
  BY DEF IInv, TypeOK
<1>3. /\ pit' = [c \in Counters |-> CounterTick(pit[c], n)]
      /\ elapsed' = [c \in Counters |-> elapsed[c] + IF KeepsTime(c) THEN n ELSE 0]
      /\ calls' = [c \in Counters |-> calls[c] + IF KeepsTime(c) THEN CallsOf(c, n) ELSE 0]
      /\ torn' = torn /\ begun' = begun /\ clean' = clean
      /\ \A c \in Counters : KeepsTime(c) => elapsed[c] + n <= MaxElapsed
  BY DEF ClockTick, Tick
<1>4. ASSUME NEW c \in Counters
      PROVE  /\ pit'[c] \in CounterState /\ elapsed'[c] \in 0 .. MaxElapsed
             /\ calls'[c] \in 0 .. MaxElapsed
             /\ OnTime(c)' /\ CallsWithinStrokes(c)' /\ HalfRead(c)'
  <2> DEFINE k == pit[c]
             j == CounterTick(k, n)
  <2>1. /\ k \in CounterState /\ elapsed[c] \in 0 .. MaxElapsed /\ calls[c] \in 0 .. MaxElapsed
        /\ OnTime(c) /\ CallsWithinStrokes(c) /\ HalfRead(c)
    BY <1>2 DEF IInv
  <2>2. pit'[c] = j
    BY <1>3
  <2>3. /\ j \in CounterState
        /\ j.running = k.running /\ Period(j) = Period(k)
        /\ SameReader(j, k)
        /\ k.running => Remaining(j) = Remaining(k) + Pulses(k, n) * Period(k) - n
        /\ k.running /\ Remaining(k) <= Period(k) => Remaining(j) <= Period(j)
    BY <1>1, <2>1, TickCounts DEF SameReader
  <2>4. /\ CallsOf(c, n) \in 0 .. n
        /\ c \in {0, 1} /\ Regular(c) => CallsOf(c, n) = Pulses(k, n)
    BY <2>1, CallsAreCounts
  <2>5. Period(k) \in Nat /\ Remaining(k) \in Nat /\ Pulses(k, n) \in Nat
    BY <1>1, <2>1, PeriodBounds, PulsesCount, TurnIsPositive
  <2> HIDE DEF j, k
  <2>6. HalfRead(c)'
    BY <1>3, <2>1, <2>2, <2>3, ReaderSame DEF k
  <2>7. CASE ~KeepsTime(c)
    <3>1. elapsed'[c] = elapsed[c] /\ calls'[c] = calls[c]
      BY <1>3, <2>1, <2>7
    <3>2. ~KeepsTime(c)'
      BY <1>3, <2>2, <2>3, <2>7 DEF KeepsTime, k
    <3>3. QED
      BY <2>1, <2>2, <2>3, <2>6, <3>1, <3>2 DEF OnTime, CallsWithinStrokes
  <2>8. CASE KeepsTime(c)
    <3>1. elapsed'[c] = elapsed[c] + n /\ calls'[c] = calls[c] + CallsOf(c, n)
      BY <1>3, <2>8
    <3>2. elapsed[c] + n <= MaxElapsed
      BY <1>3, <2>8
    <3>3. CallsWithinStrokes(c)' /\ elapsed'[c] \in 0 .. MaxElapsed /\ calls'[c] \in 0 .. MaxElapsed
      BY <1>1, <2>1, <2>4, <3>1, <3>2 DEF CallsWithinStrokes
    <3>4. Regular(c)' => Regular(c)
      BY <2>2, <2>3 DEF Regular, k
    <3>5. ASSUME c \in {0, 1}, Regular(c) PROVE Due(c)'
      <4>1. /\ Remaining(k) <= Period(k)
            /\ elapsed[c] + Remaining(k) = (calls[c] + 1) * Period(k)
        BY <2>1, <2>8, <3>5 DEF OnTime, Due, k
      <4>2. CallsOf(c, n) = Pulses(k, n)
        BY <2>4, <3>5
      <4>3. k.running
        BY <2>8 DEF KeepsTime, k
      <4>4. (elapsed[c] + n) + (Remaining(k) + Pulses(k, n) * Period(k) - n)
              = ((calls[c] + Pulses(k, n)) + 1) * Period(k)
        <5> DEFINE e == elapsed[c]
                   q == calls[c]
                   r == Remaining(k)
                   p == Period(k)
                   m == Pulses(k, n)
        <5>1. /\ e \in Nat /\ r \in Nat /\ q \in Nat /\ p \in Nat /\ m \in Nat /\ n \in Nat
              /\ e + r = (q + 1) * p
          BY <1>1, <2>1, <2>5, <4>1
        <5> HIDE DEF e, q, r, p, m
        <5>2. (e + n) + (r + m * p - n) = ((q + m) + 1) * p
          BY <5>1, Balance
        <5>3. QED
          BY <5>2 DEF e, q, r, p, m
      <4>5. elapsed'[c] + Remaining(j) = (calls'[c] + 1) * Period(j)
        BY <2>3, <3>1, <4>2, <4>3, <4>4
      <4>6. Remaining(j) <= Period(j)
        BY <2>3, <4>1, <4>3
      <4>7. QED
        BY <2>2, <4>5, <4>6 DEF Due
    <3>6. OnTime(c)'
      BY <3>4, <3>5 DEF OnTime
    <3>7. QED
      BY <2>2, <2>3, <2>6, <3>3, <3>6
  <2>9. QED
    BY <2>7, <2>8
<1>5. TypeOK'
  BY <1>2, <1>3, <1>4 DEF TypeOK
<1>6. QED
  BY <1>4, <1>5 DEF IInv

\* The first half of a new reload: a running counter is torn until the second.
LEMMA WriteLowHalfIInv ==
  ASSUME IInv, NEW d \in Counters, NEW v \in DataBytes, WriteLowHalf(d, v) PROVE IInv'
<1>1. v \in Digit /\ 0 \in 0 .. MaxElapsed
  BY PITClockAssumption
<1>2. TypeOK /\ \A c \in Counters : OnTime(c) /\ CallsWithinStrokes(c) /\ HalfRead(c)
  BY DEF IInv
<1>3. pit[d] \in CounterState /\ pit \in [Counters -> CounterState]
  BY <1>2 DEF TypeOK
<1>4. LET j == WriteCounter(pit[d], v) IN
      j \in CounterState /\ SameReader(j, pit[d]) /\ j.running = pit[d].running
  BY <1>1, <1>3, WriteLoads DEF WriteLowHalf, HalfWrite
<1>5. pit' = [pit EXCEPT ![d] = WriteCounter(pit[d], v)]
  BY DEF WriteLowHalf
<1>6. pit'[d] = WriteCounter(pit[d], v) /\ \A c \in Counters \ {d} : pit'[c] = pit[c]
  BY <1>3, <1>5
<1>7. TypeOK'
  <2>1. pit[d].running \in BOOLEAN
    BY <1>3 DEF CounterState
  <2>2. torn' \in [Counters -> BOOLEAN]
    BY <1>2, <2>1 DEF TypeOK, WriteLowHalf
  <2>3. pit' \in [Counters -> CounterState]
    BY <1>3, <1>4, <1>5
  <2>4. QED
    BY <1>1, <1>2, <2>2, <2>3 DEF TypeOK, WriteLowHalf, Restart
<1>8. ASSUME NEW c \in Counters PROVE OnTime(c)' /\ CallsWithinStrokes(c)' /\ HalfRead(c)'
  <2>1. clean'[c] = clean[c] /\ begun'[c] = begun[c]
    BY DEF WriteLowHalf
  <2>2. CASE c = d
    <3>1. elapsed'[c] = 0 /\ calls'[c] = 0 /\ torn'[c] = pit[c].running
      BY <1>2, <2>2 DEF WriteLowHalf, Restart, TypeOK
    <3>2. ~KeepsTime(c)'
      BY <1>4, <1>6, <2>2, <3>1 DEF KeepsTime
    <3>3. OnTime(c)' /\ CallsWithinStrokes(c)'
      BY <1>4, <1>6, <2>2, <3>1, <3>2, ClockRestarts
    <3>4. HalfRead(c)'
      BY <1>2, <1>4, <1>6, <2>1, <2>2, ReaderSame
    <3>5. QED
      BY <3>3, <3>4
  <2>3. CASE c # d
    <3>1. /\ pit'[c] = pit[c] /\ torn'[c] = torn[c]
          /\ elapsed'[c] = elapsed[c] /\ calls'[c] = calls[c]
      BY <1>2, <1>6, <2>3 DEF WriteLowHalf, Restart, TypeOK
    <3>2. OnTime(c)' /\ CallsWithinStrokes(c)'
      BY <1>2, <3>1, ClockSame
    <3>3. HalfRead(c)'
      BY <1>2, <2>1, <3>1, ReaderSame DEF SameReader
    <3>4. QED
      BY <3>2, <3>3
  <2>4. QED
    BY <2>2, <2>3
<1>9. QED
  BY <1>7, <1>8 DEF IInv

\* A byte that loads a counter starts its time again.
LEMMA WriteAndLoadIInv ==
  ASSUME IInv, NEW d \in Counters, NEW v \in DataBytes, WriteAndLoad(d, v) PROVE IInv'
<1>1. v \in Digit /\ 0 \in 0 .. MaxElapsed
  BY PITClockAssumption
<1>2. TypeOK /\ \A c \in Counters : OnTime(c) /\ CallsWithinStrokes(c) /\ HalfRead(c)
  BY DEF IInv
<1>3. pit[d] \in CounterState /\ pit \in [Counters -> CounterState]
  BY <1>2 DEF TypeOK
<1>4. LET j == WriteCounter(pit[d], v) IN
      j \in CounterState /\ SameReader(j, pit[d]) /\ Remaining(j) = Period(j)
  BY <1>1, <1>3, WriteLoads DEF WriteAndLoad, HalfWrite
<1>5. pit' = [pit EXCEPT ![d] = WriteCounter(pit[d], v)]
  BY DEF WriteAndLoad
<1>6. pit'[d] = WriteCounter(pit[d], v) /\ \A c \in Counters \ {d} : pit'[c] = pit[c]
  BY <1>3, <1>5
<1>7. TypeOK'
  <2>1. torn' \in [Counters -> BOOLEAN]
    BY <1>2 DEF TypeOK, WriteAndLoad
  <2>2. pit' \in [Counters -> CounterState]
    BY <1>3, <1>4, <1>5
  <2>3. QED
    BY <1>1, <1>2, <2>1, <2>2 DEF TypeOK, WriteAndLoad, Restart
<1>8. ASSUME NEW c \in Counters PROVE OnTime(c)' /\ CallsWithinStrokes(c)' /\ HalfRead(c)'
  <2>1. clean'[c] = clean[c] /\ begun'[c] = begun[c]
    BY DEF WriteAndLoad
  <2>2. CASE c = d
    <3>1. elapsed'[c] = 0 /\ calls'[c] = 0
      BY <1>2, <2>2 DEF WriteAndLoad, Restart, TypeOK
    <3>2. OnTime(c)' /\ CallsWithinStrokes(c)'
      BY <1>4, <1>6, <2>2, <3>1, ClockRestarts
    <3>3. HalfRead(c)'
      BY <1>2, <1>4, <1>6, <2>1, <2>2, ReaderSame
    <3>4. QED
      BY <3>2, <3>3
  <2>3. CASE c # d
    <3>1. /\ pit'[c] = pit[c] /\ torn'[c] = torn[c]
          /\ elapsed'[c] = elapsed[c] /\ calls'[c] = calls[c]
      BY <1>2, <1>6, <2>3 DEF WriteAndLoad, Restart, TypeOK
    <3>2. OnTime(c)' /\ CallsWithinStrokes(c)'
      BY <1>2, <3>1, ClockSame
    <3>3. HalfRead(c)'
      BY <1>2, <2>1, <3>1, ReaderSame DEF SameReader
    <3>4. QED
      BY <3>2, <3>3
  <2>4. QED
    BY <2>2, <2>3
<1>9. QED
  BY <1>7, <1>8 DEF IInv

\* A latch command takes a count and stops no clock.
LEMMA LatchIInv ==
  ASSUME IInv, NEW v \in ControlBytes, LatchCommand(v) PROVE IInv'
<1> DEFINE d == Selected(v)
<1>1. TypeOK /\ \A c \in Counters : OnTime(c) /\ CallsWithinStrokes(c) /\ HalfRead(c)
  BY DEF IInv
<1>2. pit \in [Counters -> CounterState] /\ 0 \in Word
  BY <1>1, TurnIsPositive DEF TypeOK
<1>3. pit' = IF d \notin Counters THEN pit ELSE [pit EXCEPT ![d] = LatchCount(pit[d])]
  BY DEF LatchCommand, ControlWord
<1>4. /\ clean' = [c \in Counters |-> clean[c] /\ c # d]
      /\ begun' = [c \in Counters |-> IF clean'[c] THEN begun[c] ELSE 0]
      /\ elapsed' = elapsed /\ calls' = calls /\ torn' = torn
  BY DEF LatchCommand
<1> HIDE DEF d
<1>5. ASSUME NEW c \in Counters
      PROVE  /\ pit'[c] \in CounterState
             /\ pit'[c].running = pit[c].running /\ pit'[c].reload = pit[c].reload
             /\ pit'[c].count = pit[c].count
             /\ c # d => pit'[c] = pit[c]
  <2>1. CASE c = d
    BY <1>2, <1>3, <2>1, LatchTakes
  <2>2. CASE c # d
    BY <1>2, <1>3, <2>2
  <2>3. QED
    BY <2>1, <2>2
<1>6. pit' \in [Counters -> CounterState]
  BY <1>2, <1>3, LatchTakes
<1>7. TypeOK'
  BY <1>1, <1>2, <1>4, <1>6 DEF TypeOK
<1>8. ASSUME NEW c \in Counters PROVE OnTime(c)' /\ CallsWithinStrokes(c)' /\ HalfRead(c)'
  <2>1. OnTime(c)' /\ CallsWithinStrokes(c)'
    BY <1>1, <1>4, <1>5, ClockSame
  <2>2. clean'[c] => clean[c] /\ begun'[c] = begun[c] /\ pit'[c] = pit[c]
    BY <1>4, <1>5
  <2>3. HalfRead(c)'
    BY <1>1, <2>2 DEF HalfRead
  <2>4. QED
    BY <2>1, <2>3
<1>9. QED
  BY <1>7, <1>8 DEF IInv

\* A control word stops the counter it configures and forgets its half-done read.
LEMMA SetModeIInv ==
  ASSUME IInv, NEW v \in ControlBytes, SetMode(v) PROVE IInv'
<1> DEFINE d == Selected(v)
<1>1. TypeOK /\ \A c \in Counters : OnTime(c) /\ CallsWithinStrokes(c) /\ HalfRead(c)
  BY DEF IInv
<1>2. /\ pit \in [Counters -> CounterState] /\ 0 \in Word /\ 0 \in 0 .. MaxElapsed
      /\ v \in Byte
  BY <1>1, TurnIsPositive, PITClockAssumption DEF TypeOK
<1>3. d \in Counters /\ pit' = [pit EXCEPT ![d] = Configure(pit[d], v)]
  BY DEF SetMode, ControlWord
<1>4. /\ torn' = [torn EXCEPT ![d] = FALSE]
      /\ elapsed' = [elapsed EXCEPT ![d] = 0] /\ calls' = [calls EXCEPT ![d] = 0]
      /\ clean' = [clean EXCEPT ![d] = FALSE] /\ begun' = [begun EXCEPT ![d] = 0]
  BY DEF SetMode, Restart
<1> HIDE DEF d
<1>5. Configure(pit[d], v) \in CounterState /\ ~Configure(pit[d], v).running
  BY <1>2, <1>3, ConfigureStops
<1>6. pit' \in [Counters -> CounterState]
  BY <1>2, <1>3, <1>5
<1>7. TypeOK'
  BY <1>1, <1>2, <1>4, <1>6 DEF TypeOK
<1>8. ASSUME NEW c \in Counters PROVE OnTime(c)' /\ CallsWithinStrokes(c)' /\ HalfRead(c)'
  <2>1. CASE c = d
    <3>1. elapsed'[c] = 0 /\ calls'[c] = 0 /\ ~clean'[c]
      BY <1>1, <1>4, <2>1 DEF TypeOK
    <3>2. pit'[c] \in CounterState /\ ~pit'[c].running
      BY <1>2, <1>3, <1>5, <2>1
    <3>3. OnTime(c)' /\ CallsWithinStrokes(c)'
      BY <3>1, <3>2, ClockRestarts DEF KeepsTime
    <3>4. HalfRead(c)'
      BY <3>1 DEF HalfRead
    <3>5. QED
      BY <3>3, <3>4
  <2>2. CASE c # d
    <3>1. /\ pit'[c] = pit[c] /\ torn'[c] = torn[c]
          /\ elapsed'[c] = elapsed[c] /\ calls'[c] = calls[c]
          /\ clean'[c] = clean[c] /\ begun'[c] = begun[c]
      BY <1>1, <1>2, <1>3, <1>4, <2>2 DEF TypeOK
    <3>2. OnTime(c)' /\ CallsWithinStrokes(c)'
      BY <1>1, <3>1, ClockSame
    <3>3. HalfRead(c)'
      BY <1>1, <3>1, ReaderSame DEF SameReader
    <3>4. QED
      BY <3>2, <3>3
  <2>3. QED
    BY <2>1, <2>2
<1>9. QED
  BY <1>7, <1>8 DEF IInv

\* A read stops no clock; the first half of a latched count begins a read.
LEMMA ReadIInv ==
  ASSUME IInv, NEW d \in Counters, Read(d) PROVE IInv'
<1> DEFINE k == pit[d]
           j == AfterRead(pit[d])
           half == k.latched /\ k.access \notin {1, 2} /\ ~k.readHi
<1>1. TypeOK /\ \A c \in Counters : OnTime(c) /\ CallsWithinStrokes(c) /\ HalfRead(c)
  BY DEF IInv
<1>2. pit \in [Counters -> CounterState] /\ k \in CounterState /\ 0 \in Word
  BY <1>1, TurnIsPositive DEF TypeOK
<1>3. pit' = [pit EXCEPT ![d] = j] /\ UNCHANGED <<elapsed, calls, torn>>
  BY DEF Read
<1>4. /\ clean' = [clean EXCEPT ![d] = half]
      /\ begun' = [begun EXCEPT ![d] = IF clean'[d] THEN Presented(k) ELSE 0]
  BY DEF Read
<1>5. /\ j \in CounterState
      /\ j.running = k.running /\ j.reload = k.reload /\ j.count = k.count
      /\ j.access = k.access /\ j.latch = k.latch
      /\ half => j.latched /\ j.readHi
  BY <1>2, ReadPasses
<1>6. half \in BOOLEAN /\ Presented(k) \in Word /\ (half => Presented(k) = k.latch)
  BY <1>2 DEF CounterState, Presented
<1>7. half => k.access \notin {1, 2}
  OBVIOUS
<1> HIDE DEF j, half
<1>8. TypeOK'
  <2>1. pit' \in [Counters -> CounterState]
    BY <1>2, <1>3, <1>5
  <2>2. clean' \in [Counters -> BOOLEAN] /\ begun' \in [Counters -> Word]
    BY <1>1, <1>2, <1>4, <1>6 DEF TypeOK
  <2>3. QED
    BY <1>1, <1>3, <2>1, <2>2 DEF TypeOK
<1>9. ASSUME NEW c \in Counters PROVE OnTime(c)' /\ CallsWithinStrokes(c)' /\ HalfRead(c)'
  <2>1. CASE c = d
    <3>1. pit'[c] = j
      BY <1>2, <1>3, <2>1
    <3>2. OnTime(c)' /\ CallsWithinStrokes(c)'
      BY <1>1, <1>3, <1>5, <2>1, <3>1, ClockSame
    <3>3. clean'[c] = half /\ (half => begun'[c] = Presented(k))
      BY <1>1, <1>4, <2>1 DEF TypeOK
    <3>4. HalfRead(c)'
      BY <1>5, <1>6, <1>7, <3>1, <3>3 DEF HalfRead
    <3>5. QED
      BY <3>2, <3>4
  <2>2. CASE c # d
    <3>1. /\ pit'[c] = pit[c] /\ torn'[c] = torn[c]
          /\ elapsed'[c] = elapsed[c] /\ calls'[c] = calls[c]
          /\ clean'[c] = clean[c] /\ begun'[c] = begun[c]
      BY <1>1, <1>2, <1>3, <1>4, <2>2 DEF TypeOK
    <3>2. OnTime(c)' /\ CallsWithinStrokes(c)'
      BY <1>1, <3>1, ClockSame
    <3>3. HalfRead(c)'
      BY <1>1, <3>1, ReaderSame DEF SameReader
    <3>4. QED
      BY <3>2, <3>3
  <2>3. QED
    BY <2>1, <2>2
<1>10. QED
  BY <1>8, <1>9 DEF IInv

\* Every step keeps the invariant.
LEMMA StepIInv == IInv /\ [Next]_vars => IInv'
<1> SUFFICES ASSUME IInv, [Next]_vars PROVE IInv'
  OBVIOUS
<1>1. CASE UNCHANGED vars
  BY <1>1 DEF vars, IInv, TypeOK, OnTime, KeepsTime, Regular, Due, CallsWithinStrokes, HalfRead
<1>2. ASSUME NEW n \in Strokes, ClockTick(n) PROVE IInv'
  BY <1>2, TickIInv
<1>3. ASSUME NEW c \in Counters, NEW v \in DataBytes, WriteLowHalf(c, v) PROVE IInv'
  BY <1>3, WriteLowHalfIInv
<1>4. ASSUME NEW c \in Counters, NEW v \in DataBytes, WriteAndLoad(c, v) PROVE IInv'
  BY <1>4, WriteAndLoadIInv
<1>5. ASSUME NEW v \in ControlBytes, LatchCommand(v) PROVE IInv'
  BY <1>5, LatchIInv
<1>6. ASSUME NEW v \in ControlBytes, SetMode(v) PROVE IInv'
  BY <1>6, SetModeIInv
<1>7. ASSUME NEW c \in ReadCounters, Read(c) PROVE IInv'
  BY <1>7, ReadIInv, PITClockAssumption
<1>8. QED
  BY <1>1, <1>2, <1>3, <1>4, <1>5, <1>6, <1>7 DEF Next

\* The invariant holds in every state, for every width of the registers, every
\* set of strokes and every bytes written.
THEOREM Invariance == Spec => []IInv
  BY InitIInv, StepIInv, PTL DEF Spec

\* The registers and the history keep their types.
THEOREM TypeCorrect == Spec => []TypeOK
<1>1. IInv => TypeOK
  BY DEF IInv
<1>2. QED
  BY <1>1, Invariance, PTL

\* A counter that is on time has called back once per full period.
LEMMA OnTimeIsExact ==
  ASSUME IInv, NEW c \in Counters, Due(c)
  PROVE  calls[c] = elapsed[c] \div Period(pit[c])
<1> DEFINE p == Period(pit[c])
           q == calls[c]
           rest == Remaining(pit[c])
<1>1. pit[c] \in CounterState /\ q \in Int /\ elapsed[c] \in Int
  BY DEF IInv, TypeOK
<1>2. p \in Nat \ {0} /\ rest \in Nat \ {0}
  BY <1>1, PeriodBounds, TurnIsPositive
<1>3. rest <= p /\ elapsed[c] + rest = (q + 1) * p
  BY DEF Due
<1> HIDE DEF p, q, rest
<1>4. p - rest \in 0 .. p - 1
  BY <1>2, <1>3
<1>5. (q + 1) * p = q * p + p /\ q * p \in Int
  BY <1>1, <1>2
<1>6. elapsed[c] = q * p + (p - rest)
  BY <1>1, <1>2, <1>3, <1>5
<1>7. q = elapsed[c] \div p
  BY <1>1, <1>2, <1>4, <1>6, Quotient
<1>8. QED
  BY <1>7 DEF p, q

\* The system clock is exact as long as no Tick brings more strokes than a period
\* (Tick, pit.go:45-47).
THEOREM SystemClock == Spec => []SystemClockExact
<1>1. IInv => SystemClockExact
  <2> SUFFICES ASSUME IInv, NEW c \in Counters \cap {0}, KeepsTime(c),
                      \A n \in Strokes : n <= Period(pit[c])
               PROVE  calls[c] = elapsed[c] \div Period(pit[c])
    BY DEF SystemClockExact
  <2>1. Due(c)
    BY DEF IInv, OnTime, Regular
  <2>2. QED
    BY <2>1, OnTimeIsExact
<1>2. QED
  BY <1>1, Invariance, PTL

\* The refresh clock is exact for every grouping of the strokes (Tick,
\* pit.go:48-52).
THEOREM RefreshClock == Spec => []RefreshClockExact
<1>1. IInv => RefreshClockExact
  <2> SUFFICES ASSUME IInv, NEW c \in Counters \cap {1}, KeepsTime(c)
               PROVE  calls[c] = elapsed[c] \div Period(pit[c])
    BY DEF RefreshClockExact
  <2>1. Due(c)
    BY DEF IInv, OnTime, Regular
  <2>2. QED
    BY <2>1, OnTimeIsExact
<1>2. QED
  BY <1>1, Invariance, PTL

\* The second half of a latched read belongs to the count of the first (In8,
\* pit.go:131-157).
THEOREM LatchedReads == Spec => LatchedReadIsWhole
<1>1. IInv => [\A c \in Counters : clean[c] /\ Read(c) => ReadByte(pit[c]) = High(begun[c])]_vars
  <2> SUFFICES ASSUME IInv, NEW c \in Counters, clean[c]
               PROVE  ReadByte(pit[c]) = High(begun[c])
    OBVIOUS
  <2>1. /\ pit[c].latched /\ pit[c].readHi /\ pit[c].access \notin {1, 2}
        /\ begun[c] = pit[c].latch
    BY DEF IInv, HalfRead
  <2>2. QED
    BY <2>1 DEF ReadByte, Presented
<1>2. QED
  BY <1>1, Invariance, PTL DEF LatchedReadIsWhole
=============================================================================
