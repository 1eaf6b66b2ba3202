---------------------------- MODULE FloppyProofs ----------------------------
(***************************************************************************)
(* What the status register and IRQ6 of the floppy controller promise, and *)
(* what the controller does with the data, holds for every geometry, every *)
(* memory and disk, every set of commands and any number of them.          *)
(*                                                                         *)
(* There are two inductive invariants.  IInv is about the phases and the   *)
(* interrupt.  DataInv adds the types; that a result has at most seven     *)
(* bytes and is read no further than its end, which bounds resIdx; and     *)
(* that memory keeps its read-only ranges.                                 *)
(***************************************************************************)
EXTENDS Floppy, WordProofs, SequenceTheorems, WellFoundedInduction, TLAPS

\* A controller as a record; what its result bytes and cylinders are is left
\* open.
Shape(f) ==
  /\ f \in [dor : {f.dor}, phase : 0 .. 2, cmd : Seq(Byte), needed : Nat, result : {f.result},
            resIdx : Nat, pcn : {f.pcn}, st0 : {f.st0}, intPending : BOOLEAN]
  /\ Len(f.result) \in Nat

\* The phase register keeps its word.
PhaseHolds(f) ==
  /\ f.phase = 1 => /\ Len(f.cmd) \in 1 .. f.needed - 1
                    /\ f.needed = 1 + ParamCount(f.cmd[1])
  /\ f.phase = 2 => f.resIdx < Len(f.result)

IInv == Shape(fdc) /\ PhaseHolds(fdc) /\ irq6 \in BOOLEAN /\ InterruptIsExplained

-----------------------------------------------------------------------------
(***************************************************************************)
(* Commands.                                                               *)
(***************************************************************************)

\* After a command the controller is idle or has a result to give.
Executed(g) ==
  /\ Shape(g)
  /\ g.phase = 0 \/ (g.phase = 2 /\ g.resIdx < Len(g.result))

\* Only the phase changes.
LEMMA PhaseChanges ==
  ASSUME NEW f, Shape(f), NEW p \in 0 .. 2
  PROVE  LET b == [f EXCEPT !.phase = p] IN
         /\ Shape(b) /\ b.phase = p
         /\ b.cmd = f.cmd /\ b.needed = f.needed
         /\ b.result = f.result /\ b.resIdx = f.resIdx /\ b.intPending = f.intPending
  BY DEF Shape

\* Only the pending interrupt changes.
LEMMA PendingChanges ==
  ASSUME NEW f, Shape(f), NEW p \in BOOLEAN
  PROVE  LET b == [f EXCEPT !.intPending = p] IN
         /\ Shape(b) /\ b.intPending = p
         /\ b.phase = f.phase /\ b.cmd = f.cmd /\ b.needed = f.needed
         /\ b.result = f.result /\ b.resIdx = f.resIdx
  BY DEF Shape

\* A result that is not empty is there to be read.
LEMMA ResultIsThere ==
  ASSUME NEW f, Shape(f), NEW bytes, Len(bytes) \in Nat \ {0}
  PROVE  LET g == GiveResult(f, bytes) IN
         /\ Shape(g) /\ g.phase = 2 /\ g.resIdx < Len(g.result)
         /\ g.intPending = f.intPending
<1> DEFINE g == GiveResult(f, bytes)
           a == [f EXCEPT !.result = bytes]
           b == [a EXCEPT !.resIdx = 0]
           c == [b EXCEPT !.phase = 2]
<1>1. Shape(a) /\ a.result = bytes /\ a.intPending = f.intPending
  BY DEF Shape
<1> HIDE DEF a
<1>2. Shape(b) /\ b.resIdx = 0 /\ b.result = bytes /\ b.intPending = f.intPending
  BY <1>1 DEF Shape
<1> HIDE DEF b
<1>3. /\ Shape(c) /\ c.phase = 2 /\ c.resIdx = 0 /\ c.result = bytes
      /\ c.intPending = f.intPending
  BY <1>2 DEF Shape
<1>4. g = c
  BY DEF GiveResult, a, b, c
<1> HIDE DEF c
<1>5. QED
  BY <1>3, <1>4

\* A seek leaves an interrupt to sense.
LEMMA SeekLeavesPending ==
  ASSUME NEW f, Shape(f), NEW cylinder
  PROVE  LET g == SeekDone(f, cylinder) IN
         Shape(g) /\ g.phase = 0 /\ g.intPending
<1> DEFINE a == [f EXCEPT !.pcn[DriveOf(f)] = cylinder, !.st0 = 32 + DriveOf(f)]
           b == [a EXCEPT !.intPending = TRUE]
           c == [b EXCEPT !.phase = 0]
<1>1. Shape(a)
  BY DEF Shape
<1> HIDE DEF a
<1>2. Shape(b) /\ b.intPending
  BY <1>1, PendingChanges
<1> HIDE DEF b
<1>3. 0 \in 0 .. 2
  OBVIOUS
<1>4. Shape(c) /\ c.phase = 0 /\ c.intPending = b.intPending
  BY <1>2, <1>3, PhaseChanges, Zenon
<1>5. SeekDone(f, cylinder) = c
  BY DEF SeekDone, a, b, c
<1> HIDE DEF c
<1>6. QED
  BY <1>2, <1>4, <1>5

\* So does a data command, however it ends.
LEMMA TerminateLeavesPending ==
  ASSUME NEW f, Shape(f), NEW ok, NEW r
  PROVE  LET g == Terminate(f, ok, r) IN
         Shape(g) /\ g.phase = 2 /\ g.resIdx < Len(g.result) /\ g.intPending
<1> DEFINE st0 == DriveOf(f) + 4 * HeadOf(f) + IF ok THEN 0 ELSE 64
           st1 == IF ok THEN 0 ELSE 4
           h == [f EXCEPT !.st0 = st0, !.pcn[DriveOf(f)] = C(f), !.intPending = TRUE]
           bytes == <<st0, st1, 0, C(f), H(f), r % 256, N(f)>>
<1>1. Terminate(f, ok, r) = GiveResult(h, bytes)
  BY DEF Terminate
<1>2. Shape(h) /\ h.intPending
  BY DEF Shape
<1>3. Len(bytes) \in Nat \ {0}
  OBVIOUS
<1> HIDE DEF h, bytes
<1>4. QED
  BY <1>1, <1>2, <1>3, ResultIsThere

\* A world as a record, whatever its memory, channel and disk are.
WorldOf(w) == w \in [fdc : {w.fdc}, dma : {w.dma}, mem : {w.mem}, image : {w.image}]

\* The controller a command leaves, and the interrupt it owes.
Answers(f, g) ==
  /\ Executed(g)
  /\ f.intPending /\ Opcode(f.cmd[1]) # 8 => g.intPending
  /\ Interrupting(Opcode(f.cmd[1])) => g.intPending

\* Every command leaves the controller idle or with a result; the pending
\* interrupt is forgotten only by Sense Interrupt Status, and the commands that
\* raise IRQ6 leave one.
LEMMA ExecuteAnswers ==
  ASSUME NEW w, WorldOf(w), Shape(w.fdc), NEW ins
  PROVE  Answers(w.fdc, Execute(w, ins).fdc)
<1> DEFINE f == w.fdc
           op == Opcode(f.cmd[1])
           g == Execute(w, ins).fdc
<1>1. ASSUME NEW h PROVE [w EXCEPT !.fdc = h].fdc = h
  BY DEF WorldOf
<1>2. ASSUME Shape(g), g.phase = 2, g.resIdx < Len(g.result), g.intPending PROVE Answers(f, g)
  BY <1>2 DEF Answers, Executed
<1>3. ASSUME NEW bytes, Len(bytes) \in Nat \ {0}, g = GiveResult(f, bytes), ~Interrupting(op)
      PROVE  Answers(f, g)
  BY <1>3, ResultIsThere DEF Answers, Executed
<1>4. CASE op = 3
  <2>1. g = [f EXCEPT !.phase = 0]
    BY <1>4, <1>1 DEF Execute, WorldOf
  <2>2. Shape(g) /\ g.phase = 0 /\ g.intPending = f.intPending
    BY <2>1 DEF Shape
  <2>3. QED
    BY <1>4, <2>2 DEF Answers, Executed, Interrupting
<1>5. CASE op \in {7, 15}
  <2>1. \E cylinder : g = SeekDone(f, cylinder)
    BY <1>5, <1>1 DEF Execute
  <2>2. Shape(g) /\ g.phase = 0 /\ g.intPending
    BY <2>1, SeekLeavesPending
  <2>3. QED
    BY <2>2 DEF Answers, Executed
<1>6. CASE op = 8
  <2>1. Execute(w, ins) = [w EXCEPT !.fdc = SenseInterrupt(f)]
    BY <1>6 DEF Execute
  <2>2. g = SenseInterrupt(f)
    BY <2>1, <1>1
  <2>3. CASE f.intPending
    <3> DEFINE h == [f EXCEPT !.intPending = FALSE]
               bytes == <<f.st0, f.pcn[f.st0 % 4] % 256>>
    <3>1. g = GiveResult(h, bytes)
      BY <2>2, <2>3 DEF SenseInterrupt
    <3>2. Shape(h)
      BY DEF Shape
    <3>3. Len(bytes) \in Nat \ {0}
      OBVIOUS
    <3> HIDE DEF h, bytes
    <3>4. Executed(g)
      BY <3>1, <3>2, <3>3, ResultIsThere DEF Executed
    <3>5. QED
      BY <1>6, <3>4 DEF Answers, Interrupting
  <2>4. CASE ~f.intPending
    <3>1. g = GiveResult(f, <<128>>) /\ Len(<<128>>) \in Nat \ {0}
      BY <2>2, <2>4 DEF SenseInterrupt
    <3>2. ~Interrupting(op)
      BY <1>6 DEF Interrupting
    <3>3. QED
      BY <1>3, <3>1, <3>2
  <2>5. QED
    BY <2>3, <2>4
<1>7. CASE op = 4
  <2> DEFINE bytes == <<DriveOf(f) + 32 + IF f.pcn[DriveOf(f)] = 0 THEN 16 ELSE 0>>
  <2>1. Execute(w, ins) = [w EXCEPT !.fdc = SenseDrive(f)]
    BY <1>7 DEF Execute
  <2>2. g = GiveResult(f, bytes)
    BY <2>1, <1>1 DEF SenseDrive
  <2>3. Len(bytes) \in Nat \ {0}
    OBVIOUS
  <2>4. ~Interrupting(op)
    BY <1>7 DEF Interrupting
  <2> HIDE DEF bytes
  <2>5. QED
    BY <1>3, <2>2, <2>3, <2>4
<1>8. CASE op = 10
  <2> DEFINE st0 == DriveOf(f) + 4 * HeadOf(f)
             a == [f EXCEPT !.st0 = st0]
             b == [a EXCEPT !.intPending = TRUE]
             bytes == <<st0, 0, 0, f.pcn[DriveOf(f)], HeadOf(f), 1, 2>>
  <2>1. Execute(w, ins) = [w EXCEPT !.fdc = ReadID(f)]
    BY <1>8 DEF Execute
  <2>2. g = ReadID(f)
    BY <2>1, <1>1
  <2>3. ReadID(f) = GiveResult(b, bytes)
    BY DEF ReadID
  <2>4. Shape(a)
    BY DEF Shape
  <2> HIDE DEF a
  <2>5. Shape(b) /\ b.intPending
    BY <2>4 DEF Shape
  <2>6. Len(bytes) \in Nat \ {0}
    OBVIOUS
  <2> HIDE DEF b, bytes
  <2>7. QED
    BY <1>2, <2>2, <2>3, <2>5, <2>6, ResultIsThere
<1>9. CASE op \in {5, 6}
  <2>1. \E ok, r : g = Terminate(f, ok, r)
    <3>1. CASE op = 6 /\ ins
      BY <3>1 DEF Execute, ReadSectors
    <3>2. CASE op = 5 /\ ins
      BY <3>2 DEF Execute, WriteSectors
    <3>3. CASE ~ins
      <4>1. Execute(w, ins) = NoDisk(w)
        BY <1>9, <3>3 DEF Execute
      <4>2. NoDisk(w) = [w EXCEPT !.fdc = Terminate(f, FALSE, R(f))]
        BY DEF NoDisk
      <4>3. g = Terminate(f, FALSE, R(f))
        BY <4>1, <4>2, <1>1
      <4>4. QED
        BY <4>3, Zenon
    <3>4. QED
      BY <1>9, <3>1, <3>2, <3>3
  <2>2. QED
    BY <1>2, <2>1, TerminateLeavesPending
<1>10. CASE op \notin {3, 4, 5, 6, 7, 8, 10, 15}
  <2>1. g = GiveResult(f, <<128>>) /\ Len(<<128>>) \in Nat \ {0}
    BY <1>10, <1>1 DEF Execute
  <2>2. ~Interrupting(op)
    BY <1>10 DEF Interrupting
  <2>3. QED
    BY <1>3, <2>1, <2>2
<1>11. QED
  BY <1>4, <1>5, <1>6, <1>7, <1>8, <1>9, <1>10

-----------------------------------------------------------------------------
(***************************************************************************)
(* Bytes on the data port.                                                 *)
(***************************************************************************)

\* How many parameters a command has.
LEMMA ParamCountIsNatural ==
  ASSUME NEW v \in Byte
  PROVE  /\ ParamCount(v) \in Nat
         /\ Opcode(v) = 8 => ParamCount(v) = 0
  BY DEF ParamCount

\* The first byte of a command begins to collect it.
LEMMA FirstByte ==
  ASSUME NEW f, Shape(f), f.phase = 0, NEW v \in Byte
  PROVE  LET g == Collected(f, v) IN
         /\ Shape(g) /\ g.phase = 1 /\ g.cmd = <<v>> /\ g.needed = 1 + ParamCount(v)
         /\ g.intPending = f.intPending
<1> DEFINE a == [f EXCEPT !.cmd = <<v>>]
           b == [a EXCEPT !.needed = 1 + ParamCount(v)]
           c == [b EXCEPT !.phase = 1]
<1>1. <<v>> \in Seq(Byte)
  OBVIOUS
<1>2. Shape(a) /\ a.cmd = <<v>> /\ a.intPending = f.intPending
  BY <1>1 DEF Shape
<1> HIDE DEF a
<1>3. 1 + ParamCount(v) \in Nat
  BY ParamCountIsNatural
<1>4. Shape(b) /\ b.cmd = <<v>> /\ b.needed = 1 + ParamCount(v) /\ b.intPending = f.intPending
  BY <1>2, <1>3 DEF Shape
<1> HIDE DEF b
<1>5. 1 \in 0 .. 2
  OBVIOUS
<1>6. /\ Shape(c) /\ c.phase = 1 /\ c.cmd = <<v>> /\ c.needed = 1 + ParamCount(v)
      /\ c.intPending = f.intPending
  BY <1>4, <1>5, PhaseChanges, Zenon
<1>7. Collected(f, v) = c
  BY DEF Collected, a, b, c
<1> HIDE DEF c
<1>8. QED
  BY <1>6, <1>7

\* Every other byte is added to it.
LEMMA OtherByte ==
  ASSUME NEW f, Shape(f), f.phase = 1, Len(f.cmd) \in Nat \ {0}, NEW v \in Byte
  PROVE  LET g == Collected(f, v) IN
         /\ Shape(g) /\ g.phase = 1 /\ g.cmd = Append(f.cmd, v) /\ g.needed = f.needed
         /\ g.intPending = f.intPending
         /\ Len(g.cmd) = Len(f.cmd) + 1 /\ g.cmd[1] = f.cmd[1]
<1> DEFINE c == [f EXCEPT !.cmd = Append(f.cmd, v)]
<1>1. f.cmd \in Seq(Byte)
  BY DEF Shape
<1>2. /\ Append(f.cmd, v) \in Seq(Byte)
      /\ Len(Append(f.cmd, v)) = Len(f.cmd) + 1
      /\ Append(f.cmd, v)[1] = f.cmd[1]
  BY <1>1
<1>3. /\ Shape(c) /\ c.phase = 1 /\ c.cmd = Append(f.cmd, v) /\ c.needed = f.needed
      /\ c.intPending = f.intPending
  BY <1>2 DEF Shape
<1>4. Collected(f, v) = c
  BY DEF Collected
<1> HIDE DEF c
<1>5. QED
  BY <1>2, <1>3, <1>4

\* A byte that was collected: the command it belongs to, and that a command of
\* several bytes is not Sense Interrupt Status.
LEMMA CollectedHolds ==
  ASSUME NEW f, Shape(f), PhaseHolds(f), f.phase # 2, NEW v \in Byte
  PROVE  LET g == Collected(f, v) IN
         /\ Shape(g) /\ g.phase = 1 /\ Len(g.cmd) \in Nat \ {0}
         /\ g.needed = 1 + ParamCount(g.cmd[1])
         /\ g.intPending = f.intPending
         /\ f.phase # 0 => Opcode(g.cmd[1]) # 8
         /\ f.phase = 0 => g.cmd[1] = v
<1> DEFINE g == Collected(f, v)
<1>1. f.phase \in 0 .. 1 /\ f.cmd \in Seq(Byte) /\ f.needed \in Nat
  BY DEF Shape
<1>2. CASE f.phase = 0
  <2>1. /\ Shape(g) /\ g.phase = 1 /\ g.cmd = <<v>> /\ g.needed = 1 + ParamCount(v)
        /\ g.intPending = f.intPending
    BY <1>2, FirstByte
  <2> HIDE DEF g
  <2>2. Len(<<v>>) = 1 /\ <<v>>[1] = v
    OBVIOUS
  <2>3. QED
    BY <1>2, <2>1, <2>2 DEF g
<1>3. CASE f.phase = 1
  <2>1. Len(f.cmd) \in 1 .. f.needed - 1 /\ f.needed = 1 + ParamCount(f.cmd[1])
    BY <1>3 DEF PhaseHolds
  <2>2. Len(f.cmd) \in Nat \ {0} /\ f.cmd[1] \in Byte
    BY <1>1, <2>1
  <2>3. /\ Shape(g) /\ g.phase = 1 /\ g.needed = f.needed /\ g.intPending = f.intPending
        /\ Len(g.cmd) = Len(f.cmd) + 1 /\ g.cmd[1] = f.cmd[1]
    BY <1>3, <2>2, OtherByte
  <2>4. Opcode(f.cmd[1]) # 8
    BY <2>1, <2>2, ParamCountIsNatural
  <2> HIDE DEF g
  <2>5. QED
    BY <1>3, <2>1, <2>2, <2>3, <2>4 DEF g
<1>4. QED
  BY <1>1, <1>2, <1>3

\* A byte on the data port keeps the promise of the phase; it makes the
\* controller forget an interrupt only when it is a Sense Interrupt Status, and
\* when it raises IRQ6 it leaves an interrupt to sense.
LEMMA WriteDataHolds ==
  ASSUME NEW w, WorldOf(w), Shape(w.fdc), PhaseHolds(w.fdc), w.fdc.phase # 2,
         NEW ins, NEW v \in Byte
  PROVE  LET g == WriteData(w, ins, v).fdc IN
         /\ Shape(g) /\ PhaseHolds(g)
         /\ w.fdc.intPending /\ (w.fdc.phase # 0 \/ Opcode(v) # 8) => g.intPending
         /\ WriteDataInterrupts(w.fdc, v) => g.intPending
<1> DEFINE f == w.fdc
           c == Collected(f, v)
           x == [w EXCEPT !.fdc = c]
           g == WriteData(w, ins, v).fdc
<1>1. /\ Shape(c) /\ c.phase = 1 /\ Len(c.cmd) \in Nat \ {0}
      /\ c.needed = 1 + ParamCount(c.cmd[1])
      /\ c.intPending = f.intPending
      /\ f.phase # 0 => Opcode(c.cmd[1]) # 8
      /\ f.phase = 0 => c.cmd[1] = v
  BY CollectedHolds
<1>2. WriteDataInterrupts(f, v) => Complete(c) /\ Interrupting(Opcode(c.cmd[1]))
  BY DEF WriteDataInterrupts
<1>3. WriteData(w, ins, v) = IF Complete(x.fdc) THEN Execute(x, ins) ELSE x
  BY DEF WriteData
<1> HIDE DEF c
<1>4. WorldOf(x) /\ x.fdc = c
  BY DEF WorldOf
<1> HIDE DEF x
<1>5. CASE Complete(c)
  <2>1. Answers(c, g)
    BY <1>1, <1>3, <1>4, <1>5, ExecuteAnswers
  <2> HIDE DEF g
  <2>2. Shape(g) /\ PhaseHolds(g)
    BY <2>1 DEF Answers, Executed, PhaseHolds
  <2>3. f.intPending /\ (f.phase # 0 \/ Opcode(v) # 8) => g.intPending
    BY <1>1, <2>1 DEF Answers
  <2>4. WriteDataInterrupts(f, v) => g.intPending
    BY <1>2, <2>1 DEF Answers
  <2>5. QED
    BY <2>2, <2>3, <2>4 DEF g
<1>6. CASE ~Complete(c)
  <2>1. g = c
    BY <1>3, <1>4, <1>6
  <2>2. PhaseHolds(c)
    BY SMTT(30), <1>1, <1>6 DEF PhaseHolds, Complete, Shape
  <2>3. QED
    BY <1>1, <1>2, <1>6, <2>1, <2>2
<1>7. QED
  BY <1>5, <1>6

\* A write to the DOR that leaves reset makes the controller idle with an
\* interrupt to sense, and no other interrupts; none makes it forget one.
LEMMA WriteDORHolds ==
  ASSUME NEW f, Shape(f), PhaseHolds(f), NEW v
  PROVE  LET g == WriteDOR(f, v) IN
         /\ Shape(g) /\ PhaseHolds(g)
         /\ f.intPending => g.intPending
         /\ WriteDORInterrupts(f, v) => g.intPending
<1> DEFINE a == [f EXCEPT !.dor = v]
           b == [a EXCEPT !.resIdx = 0]
           c == [b EXCEPT !.st0 = 192]
           d == [c EXCEPT !.intPending = TRUE]
           e == [d EXCEPT !.phase = 0]
           g == WriteDOR(f, v)
<1>1. /\ Shape(a) /\ PhaseHolds(a) /\ a.intPending = f.intPending
  BY DEF Shape, PhaseHolds
<1>2. CASE LeavesReset(f, v)
  <2>1. g = e
    BY <1>2 DEF WriteDOR
  <2> HIDE DEF a
  <2>2. Shape(b)
    BY <1>1 DEF Shape
  <2> HIDE DEF b
  <2>3. Shape(c)
    BY <2>2 DEF Shape
  <2> HIDE DEF c
  <2>4. Shape(d) /\ d.intPending
    BY <2>3, PendingChanges
  <2> HIDE DEF d
  <2>5. 0 \in 0 .. 2
    OBVIOUS
  <2>6. Shape(e) /\ e.phase = 0 /\ e.intPending = d.intPending
    BY <2>4, <2>5, PhaseChanges, Zenon
  <2> HIDE DEF e
  <2>7. QED
    BY <2>1, <2>4, <2>6 DEF PhaseHolds
<1>3. CASE ~LeavesReset(f, v)
  <2>1. g = a
    BY <1>3 DEF WriteDOR
  <2> HIDE DEF a
  <2>2. QED
    BY <1>1, <1>3, <2>1 DEF WriteDORInterrupts
<1>4. QED
  BY <1>2, <1>3

\* Reading a result goes on to the next byte or ends the command.
LEMMA ReadDataHolds ==
  ASSUME NEW f, Shape(f), PhaseHolds(f)
  PROVE  LET g == ReadData(f) IN
         Shape(g) /\ PhaseHolds(g) /\ g.intPending = f.intPending
<1> DEFINE p == IF f.resIdx + 1 >= Len(f.result) THEN 0 ELSE 2
           a == [f EXCEPT !.resIdx = f.resIdx + 1]
           b == [a EXCEPT !.phase = p]
           g == ReadData(f)
<1>1. CASE ~ToHost(f) \/ Exhausted(f)
  BY <1>1 DEF ReadData
<1>2. CASE ~(~ToHost(f) \/ Exhausted(f))
  <2>1. g = b
    BY <1>2 DEF ReadData
  <2>2. f.resIdx \in Nat /\ Len(f.result) \in Nat
    BY DEF Shape
  <2>3. /\ Shape(a) /\ a.resIdx = f.resIdx + 1 /\ a.result = f.result
        /\ a.intPending = f.intPending
    BY <2>2 DEF Shape
  <2> HIDE DEF a
  <2>4. p \in 0 .. 2
    OBVIOUS
  <2>5. p = 0 \/ (p = 2 /\ f.resIdx + 1 < Len(f.result))
    BY <2>2
  <2> HIDE DEF p
  <2>6. /\ Shape(b) /\ b.phase = p /\ b.result = a.result /\ b.resIdx = a.resIdx
        /\ b.intPending = a.intPending
    BY <2>3, <2>4, PhaseChanges, Zenon
  <2> HIDE DEF b
  <2>7. QED
    BY <2>1, <2>3, <2>5, <2>6 DEF PhaseHolds
<1>3. QED
  BY <1>1, <1>2

-----------------------------------------------------------------------------
(***************************************************************************)
(* The driver.                                                             *)
(***************************************************************************)

\* The driver sends bytes.
LEMMA NextBytesAreBytes == NextBytes \subseteq Byte
<1> SUFFICES ASSUME NEW c \in Commands, Len(c) > Len(Sent), SubSeq(c, 1, Len(Sent)) = Sent
             PROVE  c[Len(Sent) + 1] \in Byte
  BY DEF NextBytes
<1>1. c \in Seq(Byte)
  BY DriverAssumption
<1> QED
  BY <1>1

\* The first state: idle, nothing raised.
LEMMA InitIInv == Init => IInv
<1> SUFFICES ASSUME Init PROVE IInv
  OBVIOUS
<1>1. fdc = NewFDC /\ irq6 = FALSE
  BY DEF Init
<1>2. Shape(NewFDC)
  BY DEF Shape, NewFDC
<1>3. NewFDC.phase = 0
  BY DEF NewFDC
<1>4. Shape(fdc)
  BY <1>1, <1>2
<1>5. PhaseHolds(fdc)
  BY <1>1, <1>3 DEF PhaseHolds
<1>6. QED
  BY <1>1, <1>4, <1>5 DEF IInv, InterruptIsExplained

\* Every step of the driver keeps the invariant.
LEMMA StepIInv == IInv /\ [Next]_vars => IInv'
<1> SUFFICES ASSUME IInv, [Next]_vars PROVE IInv'
  OBVIOUS
<1>1. Shape(fdc) /\ PhaseHolds(fdc) /\ irq6 \in BOOLEAN /\ (irq6 => fdc.intPending)
  BY DEF IInv, InterruptIsExplained
<1>2. ASSUME Shape(fdc'), PhaseHolds(fdc'), irq6' \in BOOLEAN, irq6' => fdc'.intPending PROVE IInv'
  BY <1>2 DEF IInv, Shape, PhaseHolds, InterruptIsExplained
<1>3. ASSUME NEW v \in ResetBytes, Reset(v) PROVE IInv'
  <2>1. fdc' = WriteDOR(fdc, v) /\ irq6' = (irq6 \/ WriteDORInterrupts(fdc, v))
    BY <1>3 DEF Reset
  <2>2. /\ Shape(fdc') /\ PhaseHolds(fdc')
        /\ fdc.intPending => fdc'.intPending
        /\ WriteDORInterrupts(fdc, v) => fdc'.intPending
    BY <1>1, <2>1, WriteDORHolds
  <2>3. QED
    BY <1>1, <1>2, <2>1, <2>2
<1>4. ASSUME NEW v \in NextBytes, SendByte(v) PROVE IInv'
  <2> DEFINE g == WriteData(World, inserted, v).fdc
  <2>1. WorldOf(World) /\ World.fdc = fdc
    BY DEF WorldOf, World
  <2>2. fdc.phase # 2 /\ v \in Byte
    BY <1>4, NextBytesAreBytes DEF SendByte, ToHost
  <2>3. fdc' = g
    BY <1>4 DEF SendByte
  <2>4. irq6' = IF fdc.phase = 0 /\ Opcode(v) = 8 THEN FALSE
                ELSE irq6 \/ WriteDataInterrupts(fdc, v)
    BY <1>4 DEF SendByte, Busy
  <2>5. /\ Shape(g) /\ PhaseHolds(g)
        /\ fdc.intPending /\ (fdc.phase # 0 \/ Opcode(v) # 8) => g.intPending
        /\ WriteDataInterrupts(fdc, v) => g.intPending
    BY <1>1, <2>1, <2>2, WriteDataHolds
  <2> HIDE DEF g
  <2>6. irq6' \in BOOLEAN /\ (irq6' => g.intPending)
    BY <1>1, <2>4, <2>5
  <2>7. QED
    BY <1>2, <2>3, <2>5, <2>6
<1>5. CASE ReadResult
  <2>1. fdc' = ReadData(fdc) /\ irq6' = irq6
    BY <1>5 DEF ReadResult
  <2>2. Shape(fdc') /\ PhaseHolds(fdc') /\ fdc'.intPending = fdc.intPending
    BY <1>1, <2>1, ReadDataHolds
  <2>3. QED
    BY <1>1, <1>2, <2>1, <2>2
<1>6. CASE UNCHANGED <<fdc, irq6>>
  BY <1>1, <1>2, <1>6
<1>7. ASSUME NEW s \in Setups, SetupChannel(s) PROVE IInv'
  BY <1>6, <1>7 DEF SetupChannel
<1>8. QED
  BY <1>3, <1>4, <1>5, <1>6, <1>7 DEF Next, StartCommand, SendParameter, vars

\* The invariant holds in every state, whatever the geometry, the memory, the
\* commands and the bounds are.
THEOREM Invariance == Spec => []IInv
<1>1. Init => IInv
  BY InitIInv
<1>2. IInv /\ [Next]_vars => IInv'
  BY StepIInv
<1>3. QED
  BY <1>1, <1>2, PTL DEF Spec

\* The status register never promises what the controller cannot keep (msr,
\* fdc.go:65-74).
THEOREM PhaseCorrect == Spec => []PhaseConsistent
<1>1. IInv => PhaseConsistent
  BY DEF IInv, PhaseHolds, PhaseConsistent
<1>2. QED
  BY <1>1, Invariance, PTL

\* As long as the driver has not asked, Sense Interrupt Status has an answer for
\* IRQ6 (senseInterrupt, fdc.go:178-185).
THEOREM InterruptExplained == Spec => []InterruptIsExplained
<1>1. IInv => InterruptIsExplained
  BY DEF IInv
<1>2. QED
  BY <1>1, Invariance, PTL

-----------------------------------------------------------------------------
(***************************************************************************)
(* The ROMs.                                                               *)
(***************************************************************************)

\* Memory with the ranges and the ROM bytes it was given at the start.
Intact(m) ==
  /\ m \in [data : {m.data}, rom : {InitialMem.rom}]
  /\ \A a \in ROM : m.data[a] = InitialMem.data[a]

\* The protected addresses are those of the ROMs.
LEMMA ProtectedIsROM ==
  ASSUME NEW m, Intact(m), NEW a \in ROM
  PROVE  a \in Address /\ Bus!IsROM(m, a)
<1>1. m.rom = InitialMem.rom
  BY DEF Intact
<1>2. a \in Address /\ \E r \in InitialMem.rom : a \in r.lo .. r.hi
  BY DEF ROM
<1>3. \A r \in InitialMem.rom : r.lo \in Address /\ r.hi \in Address
  BY DriverAssumption
<1>4. ASSUME NEW n \in Address PROVE n \in Int
  BY DEF Address
<1>5. \A r \in InitialMem.rom : a \in r.lo .. r.hi => r.lo <= a /\ a <= r.hi
  BY <1>2, <1>3, <1>4
<1>6. QED
  BY <1>1, <1>2, <1>5 DEF Bus!IsROM

\* What a read brings from the disk falls on RAM only.
LEMMA ReadKeepsROM ==
  ASSUME NEW w, Intact(w.mem)
  PROVE  Intact(ReadSectors(w).mem)
<1> DEFINE m == w.mem
           n == BytesMoved(w.fdc, w.dma)
           Lands(a) == {i \in 0 .. n - 1 : Where(w.dma, i) = a}
           d == [a \in Address |->
                   IF Lands(a) = {} \/ Bus!IsROM(m, a) THEN m.data[a]
                   ELSE w.image[Start(w.fdc) + CHOOSE i \in Lands(a) : \A j \in Lands(a) : j <= i]]
           b == [m EXCEPT !.data = d]
<1>1. ReadSectors(w).mem = b
  BY DEF ReadSectors
<1>2. ASSUME NEW a \in ROM PROVE d[a] = m.data[a]
  BY ProtectedIsROM
<1> HIDE DEF d
<1>3. b.data = d /\ b.rom = m.rom /\ b \in [data : {b.data}, rom : {InitialMem.rom}]
  BY DEF Intact
<1>4. \A a \in ROM : m.data[a] = InitialMem.data[a]
  BY DEF Intact
<1> HIDE DEF b
<1>5. Intact(b)
  BY <1>2, <1>3, <1>4 DEF Intact
<1>6. QED
  BY <1>1, <1>5

\* Only a read changes memory.
LEMMA OnlyReadChangesMemory ==
  ASSUME NEW w, WorldOf(w), NEW ins
  PROVE  Execute(w, ins).mem \in {w.mem, ReadSectors(w).mem}
<1> DEFINE op == Opcode(w.fdc.cmd[1])
<1>1. ASSUME NEW h PROVE [w EXCEPT !.fdc = h].mem = w.mem
  BY DEF WorldOf
<1>2. \/ Execute(w, ins) = ReadSectors(w)
      \/ Execute(w, ins) = WriteSectors(w)
      \/ \E h : Execute(w, ins) = [w EXCEPT !.fdc = h]
  <2>1. CASE op = 3
    BY <2>1 DEF Execute
  <2>2. CASE op = 7
    <3>1. Execute(w, ins) = [w EXCEPT !.fdc = SeekDone(w.fdc, 0)]
      BY <2>2 DEF Execute
    <3>2. QED
      BY <3>1
  <2>3. CASE op = 15
    <3>1. Execute(w, ins) = [w EXCEPT !.fdc = SeekDone(w.fdc, w.fdc.cmd[3])]
      BY <2>3 DEF Execute
    <3>2. QED
      BY <3>1
  <2>4. CASE op = 8
    <3>1. Execute(w, ins) = [w EXCEPT !.fdc = SenseInterrupt(w.fdc)]
      BY <2>4 DEF Execute
    <3>2. QED
      BY <3>1
  <2>5. CASE op = 4
    <3>1. Execute(w, ins) = [w EXCEPT !.fdc = SenseDrive(w.fdc)]
      BY <2>5 DEF Execute
    <3>2. QED
      BY <3>1
  <2>6. CASE op = 10
    <3>1. Execute(w, ins) = [w EXCEPT !.fdc = ReadID(w.fdc)]
      BY <2>6 DEF Execute
    <3>2. QED
      BY <3>1
  <2>7. CASE op = 6 /\ ins
    BY <2>7 DEF Execute
  <2>8. CASE op = 5 /\ ins
    BY <2>8 DEF Execute
  <2>9. CASE op \in {5, 6} /\ ~ins
    <3>1. Execute(w, ins) = NoDisk(w)
      BY <2>9 DEF Execute
    <3>2. NoDisk(w) = [w EXCEPT !.fdc = Terminate(w.fdc, FALSE, R(w.fdc))]
      BY DEF NoDisk
    <3>3. QED
      BY <3>1, <3>2
  <2>10. CASE op \notin {3, 4, 5, 6, 7, 8, 10, 15}
    BY <2>10 DEF Execute
  <2>11. QED
    BY <2>1, <2>2, <2>3, <2>4, <2>5, <2>6, <2>7, <2>8, <2>9, <2>10
<1>3. WriteSectors(w).mem = w.mem
  BY DEF WriteSectors
<1>4. QED
  BY <1>1, <1>2, <1>3

\* A byte on the data port leaves the ROMs as they are.
LEMMA WriteDataKeepsROM ==
  ASSUME NEW w, WorldOf(w), Intact(w.mem), NEW ins, NEW v
  PROVE  Intact(WriteData(w, ins, v).mem)
<1> DEFINE x == [w EXCEPT !.fdc = Collected(w.fdc, v)]
<1>1. WriteData(w, ins, v) = IF Complete(x.fdc) THEN Execute(x, ins) ELSE x
  BY DEF WriteData
<1>2. WorldOf(x) /\ x.mem = w.mem
  BY DEF WorldOf
<1> HIDE DEF x
<1>3. Intact(x.mem) /\ Intact(ReadSectors(x).mem)
  BY <1>2, ReadKeepsROM
<1>4. QED
  BY <1>1, <1>2, <1>3, OnlyReadChangesMemory

\* Whatever channel 2 is programmed with and whatever is read, no transfer
\* changes a ROM (TransferToMemory, dma.go:164-179; Write8, bus.go:28-36).
THEOREM ROMSafe == Spec => ROMStaysAsLoaded
<1>1. Init => Intact(mem)
  <2>1. InitialMem \in [data : {InitialMem.data}, rom : {InitialMem.rom}]
    BY DriverAssumption
  <2>2. QED
    BY <2>1 DEF Init, Intact
<1>2. Intact(mem) /\ [Next]_vars => Intact(mem)'
  <2> SUFFICES ASSUME Intact(mem), [Next]_vars PROVE Intact(mem')
    BY DEF Intact, ROM
  <2>1. CASE UNCHANGED mem
    BY <2>1
  <2>2. ASSUME NEW v \in NextBytes, SendByte(v) PROVE Intact(mem')
    <3>1. WorldOf(World) /\ World.mem = mem
      BY DEF WorldOf, World
    <3>2. mem' = WriteData(World, inserted, v).mem
      BY <2>2 DEF SendByte
    <3>3. QED
      BY <3>1, <3>2, WriteDataKeepsROM
  <2>3. QED
    BY <2>1, <2>2 DEF Next, Reset, SetupChannel, StartCommand, SendParameter, ReadResult, vars
<1>3. Intact(mem)' => [\A a \in ROM : mem'.data[a] = InitialMem.data[a]]_vars
  BY DEF Intact, ROM
<1>4. QED
  BY <1>1, <1>2, <1>3, PTL DEF Spec, ROMStaysAsLoaded

-----------------------------------------------------------------------------
(***************************************************************************)
(* The data.                                                               *)
(***************************************************************************)
\* The registers have their types, and a result its length.
Registers(f) ==
  /\ f \in FDCState
  /\ f.resIdx <= Len(f.result) /\ Len(f.result) <= 7

DMAState == [channels : [Channels -> ChannelState], flipHi : BOOLEAN, tcStatus : SUBSET Channels]

MemoryState == [data : [Address -> Byte], rom : {InitialMem.rom}]

ImageState == [Image -> Byte]

DataInv ==
  /\ Registers(fdc)
  /\ dma \in DMAState
  /\ mem \in MemoryState /\ image \in ImageState
  /\ inserted \in BOOLEAN

-----------------------------------------------------------------------------
(***************************************************************************)
(* The registers of the controller.                                        *)
(***************************************************************************)

\* Each register takes the values of its type.
LEMMA RegisterChanges ==
  ASSUME NEW f \in FDCState
  PROVE  /\ \A x \in Byte : [f EXCEPT !.dor = x] \in FDCState
         /\ \A x \in 0 .. 2 : [f EXCEPT !.phase = x] \in FDCState
         /\ \A x \in Seq(Byte) : [f EXCEPT !.cmd = x] \in FDCState
         /\ \A x \in 0 .. 9 : [f EXCEPT !.needed = x] \in FDCState
         /\ \A x \in Seq(Byte) : [f EXCEPT !.result = x] \in FDCState
         /\ \A x \in 0 .. 7 : [f EXCEPT !.resIdx = x] \in FDCState
         /\ \A x \in Byte : [f EXCEPT !.st0 = x] \in FDCState
         /\ \A x \in BOOLEAN : [f EXCEPT !.intPending = x] \in FDCState
         /\ \A d \in Drive, x \in Byte : [f EXCEPT !.pcn[d] = x] \in FDCState
  BY DEF FDCState

\* What is left alone when the result registers are not touched.
SameResult(g, f) == g.result = f.result /\ g.resIdx = f.resIdx

\* A result of bytes can be given.
LEMMA ResultIsTyped ==
  ASSUME NEW f \in FDCState, NEW bytes \in Seq(Byte), Len(bytes) <= 7
  PROVE  Registers(GiveResult(f, bytes))
<1> DEFINE a == [f EXCEPT !.result = bytes]
           b == [a EXCEPT !.resIdx = 0]
           c == [b EXCEPT !.phase = 2]
<1>1. GiveResult(f, bytes) = c
  BY DEF GiveResult
<1>2. 0 \in 0 .. 7 /\ 2 \in 0 .. 2
  OBVIOUS
<1>3. a \in FDCState /\ a.result = bytes
  BY RegisterChanges DEF FDCState
<1> HIDE DEF a
<1>4. b \in FDCState /\ b.result = bytes /\ b.resIdx = 0
  <2>1. b \in FDCState
    BY <1>2, <1>3, RegisterChanges, Zenon
  <2>2. QED
    BY <1>3, <2>1 DEF FDCState
<1> HIDE DEF b
<1>5. c \in FDCState /\ c.result = bytes /\ c.resIdx = 0
  <2>1. c \in FDCState
    BY <1>2, <1>4, RegisterChanges, Zenon
  <2>2. QED
    BY <1>4, <2>1 DEF FDCState
<1> HIDE DEF c
<1>6. Len(bytes) \in Nat
  OBVIOUS
<1>7. QED
  BY <1>1, <1>5, <1>6 DEF Registers

\* A command that has all its bytes.
Executable(f) ==
  /\ Registers(f)
  /\ Len(f.cmd) > 0 /\ Len(f.cmd) >= 1 + ParamCount(f.cmd[1])

\* Its parameters are there.
LEMMA ParametersAreThere ==
  ASSUME NEW f, Executable(f)
  PROVE  LET op == Opcode(f.cmd[1]) IN
         /\ f.cmd[1] \in Byte
         /\ op \in {4, 7, 10, 15, 5, 6} => /\ f.cmd[2] \in Byte
                                           /\ DriveOf(f) \in Drive /\ HeadOf(f) \in 0 .. 1
         /\ op \in {5, 6, 15} => f.cmd[3] \in Byte
         /\ op \in {5, 6} => /\ C(f) \in Byte /\ H(f) \in Byte /\ R(f) \in Byte /\ N(f) \in Byte
                             /\ EOT(f) \in Byte
<1> DEFINE op == Opcode(f.cmd[1])
<1>1. f.cmd \in Seq(Byte) /\ Len(f.cmd) \in Nat \ {0}
  BY DEF Executable, Registers, FDCState
<1>2. \A i \in 1 .. Len(f.cmd) : f.cmd[i] \in Byte
  BY <1>1
<1>3. op \in {4, 7, 10, 15, 5, 6} => Len(f.cmd) >= 2
  BY <1>1 DEF Executable, ParamCount
<1>4. op \in {15, 5, 6} => Len(f.cmd) >= 3
  BY <1>1 DEF Executable, ParamCount
<1>5. op \in {5, 6} => Len(f.cmd) >= 9
  BY <1>1 DEF Executable, ParamCount
<1> HIDE DEF op
<1>6. f.cmd[1] \in Byte
  BY <1>1, <1>2
<1>7. ASSUME op \in {4, 7, 10, 15, 5, 6}
      PROVE  f.cmd[2] \in Byte /\ DriveOf(f) \in Drive /\ HeadOf(f) \in 0 .. 1
  <2>1. f.cmd[2] \in Byte
    BY <1>1, <1>2, <1>3, <1>7
  <2>2. QED
    BY <2>1 DEF DriveOf, HeadOf, Drive, Byte
<1>8. op \in {5, 6, 15} => f.cmd[3] \in Byte
  BY <1>1, <1>2, <1>4
<1>9. op \in {5, 6} => /\ C(f) \in Byte /\ H(f) \in Byte /\ R(f) \in Byte /\ N(f) \in Byte
                       /\ EOT(f) \in Byte
  BY <1>1, <1>2, <1>5 DEF C, H, R, N, EOT
<1>10. QED
  BY <1>6, <1>7, <1>8, <1>9 DEF op

\* A seek leaves registers of their types.
LEMMA SeekIsTyped ==
  ASSUME NEW f, Registers(f), DriveOf(f) \in Drive, NEW cylinder \in Byte
  PROVE  Registers(SeekDone(f, cylinder))
<1> DEFINE a == [f EXCEPT !.pcn[DriveOf(f)] = cylinder]
           b == [a EXCEPT !.st0 = 32 + DriveOf(f)]
           c == [b EXCEPT !.intPending = TRUE]
           d == [c EXCEPT !.phase = 0]
<1>1. SeekDone(f, cylinder) = d
  BY DEF SeekDone
<1>2. 32 + DriveOf(f) \in Byte /\ 0 \in 0 .. 2 /\ TRUE \in BOOLEAN
  BY DEF Drive, Byte
<1>3. a \in FDCState /\ SameResult(a, f)
  BY RegisterChanges DEF Registers, FDCState, SameResult
<1> HIDE DEF a
<1>4. b \in FDCState /\ SameResult(b, a)
  BY <1>2, <1>3, RegisterChanges DEF FDCState, SameResult
<1> HIDE DEF b
<1>5. c \in FDCState /\ SameResult(c, b)
  BY <1>2, <1>4, RegisterChanges, ZenonT(60) DEF FDCState, SameResult
<1> HIDE DEF c
<1>6. d \in FDCState /\ SameResult(d, c)
  BY <1>2, <1>5, RegisterChanges DEF FDCState, SameResult
<1> HIDE DEF d
<1>7. QED
  BY <1>1, <1>3, <1>4, <1>5, <1>6 DEF Registers, SameResult

\* So does the end of a data command.
LEMMA TerminateIsTyped ==
  ASSUME NEW f, Executable(f), Opcode(f.cmd[1]) \in {5, 6}, NEW ok \in BOOLEAN, NEW r \in Nat
  PROVE  Registers(Terminate(f, ok, r))
<1> DEFINE st0 == DriveOf(f) + 4 * HeadOf(f) + IF ok THEN 0 ELSE 64
           st1 == IF ok THEN 0 ELSE 4
           a == [f EXCEPT !.st0 = st0]
           b == [a EXCEPT !.pcn[DriveOf(f)] = C(f)]
           c == [b EXCEPT !.intPending = TRUE]
           bytes == <<st0, st1, 0, C(f), H(f), r % 256, N(f)>>
<1>1. Terminate(f, ok, r) = GiveResult(c, bytes)
  BY DEF Terminate
<1>2. /\ DriveOf(f) \in Drive /\ HeadOf(f) \in 0 .. 1
      /\ C(f) \in Byte /\ H(f) \in Byte /\ N(f) \in Byte
  BY ParametersAreThere
<1>3. st0 \in Byte /\ st1 \in Byte /\ 0 \in Byte /\ r % 256 \in Byte /\ TRUE \in BOOLEAN
  BY <1>2 DEF Drive, Byte
<1>4. a \in FDCState
  BY <1>3, RegisterChanges, Zenon DEF Executable, Registers
<1> HIDE DEF a, st0, st1
<1>5. b \in FDCState
  BY <1>2, <1>4, RegisterChanges, Zenon
<1> HIDE DEF b
<1>6. c \in FDCState
  BY <1>3, <1>5, RegisterChanges, Zenon
<1>7. bytes \in Seq(Byte) /\ Len(bytes) <= 7
  BY <1>2, <1>3
<1> HIDE DEF c, bytes
<1>8. QED
  BY <1>1, <1>6, <1>7, ResultIsTyped

-----------------------------------------------------------------------------
(***************************************************************************)
(* How much a data command moves, and where.                               *)
(***************************************************************************)

\* The sizes that a geometry has.
LEMMA Sizes ==
  /\ WordSize \in Nat \ {0} /\ Pages \in Nat \ {0} /\ MemSize \in Nat \ {0}
  /\ Cylinders \in 1 .. 255 /\ Heads \in 1 .. 2 /\ Sectors \in 1 .. 254
  /\ SectorSize \in Nat \ {0}
  /\ MemSize = Pages * WordSize
<1>1. WordSize \in Nat \ {0} /\ Pages \in Nat \ {0}
  BY TurnIsPositive, DMAAssumption
<1>2. Pages * WordSize \in Nat \ {0}
  BY <1>1
<1>3. QED
  BY <1>1, <1>2, GeometryAssumption DEF MemSize

\* A data command with its parameters, and a channel.
DataCommand(f, d) ==
  /\ C(f) \in Byte /\ H(f) \in Byte /\ R(f) \in Byte /\ EOT(f) \in Byte
  /\ d \in DMAState

\* Channel 2 is one of the channels.
LEMMA ChannelIsThere ==
  ASSUME NEW d \in DMAState
  PROVE  /\ Channel(d) \in ChannelState
         /\ Channel(d).addr \in Word /\ Channel(d).count \in Word /\ Channel(d).page \in Nat
         /\ Channel(d).addr \in Nat /\ Channel(d).count \in Nat
<1>1. Channel(d) \in ChannelState
  BY GeometryAssumption DEF DMAState, Channel
<1>2. QED
  BY <1>1, Sizes, RadixAssumption DEF ChannelState, Word, Digit

\* The sectors that are wanted: at least one, no more than the count asks for
\* nor EOT allows, and one of the two stops the command.
LEMMA Wanted ==
  ASSUME NEW f, NEW d, DataCommand(f, d)
  PROVE  LET k == SectorsWanted(f, d)
             n == Channel(d).count + 1
         IN /\ k \in Nat \ {0} /\ k * SectorSize \in Nat
            /\ k * SectorSize - SectorSize < n
            /\ k * SectorSize >= n \/ R(f) + k > EOT(f)
<1> DEFINE n == Channel(d).count + 1
           t == SectorsToTC(d)
           e == SectorsToEOT(f)
           k == SectorsWanted(f, d)
<1>1. n \in Nat \ {0} /\ SectorSize \in Nat \ {0}
  BY ChannelIsThere, Sizes DEF DataCommand
<1>2. t = (n + SectorSize - 1) \div SectorSize
  BY DEF SectorsToTC, Length
<1>3. t \in Nat \ {0} /\ t * SectorSize >= n /\ t * SectorSize - SectorSize < n
  BY <1>1, <1>2, Ceiling
<1>4. R(f) \in Nat /\ EOT(f) \in Nat
  BY DEF DataCommand, Byte
<1>5. e \in Nat \ {0} /\ R(f) + e > EOT(f)
  BY <1>4 DEF SectorsToEOT
<1>6. k = IF t < e THEN t ELSE e
  BY DEF SectorsWanted, MinOf
<1> HIDE DEF n, t, e, k
<1>7. k \in Nat \ {0} /\ k <= t /\ (k = t \/ k = e)
  BY <1>3, <1>5, <1>6
<1>8. k * SectorSize \in Nat /\ t * SectorSize \in Nat /\ k * SectorSize <= t * SectorSize
  BY <1>1, <1>3, <1>7, Products
<1>9. QED
  BY <1>1, <1>3, <1>5, <1>7, <1>8 DEF n, k

\* The sectors that are moved lie on one track of the disk; a command that does
\* not run out of sectors moves all that are wanted.
LEMMA Moved ==
  ASSUME NEW f, NEW d, DataCommand(f, d)
  PROVE  LET k == SectorsMoved(f, d) IN
         /\ k \in Nat
         /\ k > 0 => InGeometry(C(f), H(f), R(f)) /\ R(f) + k <= Sectors + 1
         /\ ~RunsOut(f, d) => k = SectorsWanted(f, d) /\ k > 0
         /\ RunsOut(f, d) \in BOOLEAN
<1> DEFINE k == SectorsMoved(f, d)
           w == SectorsWanted(f, d)
           t == SectorsThere(f)
<1>1. w \in Nat \ {0}
  BY Wanted
<1>2. R(f) \in Nat /\ Sectors \in Nat
  BY Sizes DEF DataCommand, Byte
<1>3. t \in Nat /\ (t > 0 => InGeometry(C(f), H(f), R(f)) /\ t = Sectors - R(f) + 1)
  BY <1>2 DEF SectorsThere, InGeometry
<1>4. k = IF w < t THEN w ELSE t
  BY DEF SectorsMoved, MinOf
<1>5. RunsOut(f, d) \in BOOLEAN /\ (RunsOut(f, d) <=> w > t)
  BY DEF RunsOut
<1> HIDE DEF k, w, t
<1>6. t \in Nat
  BY <1>3
<1>7. k \in Nat /\ k <= t /\ (~(w > t) => k = w)
  BY <1>1, <1>4, <1>6
<1>8. ASSUME k > 0 PROVE InGeometry(C(f), H(f), R(f)) /\ R(f) + k <= Sectors + 1
  <2>1. t > 0
    BY <1>6, <1>7, <1>8
  <2>2. InGeometry(C(f), H(f), R(f)) /\ t = Sectors - R(f) + 1
    BY <1>3, <2>1
  <2>3. R(f) + k <= Sectors + 1
    BY <1>2, <1>7, <2>2
  <2>4. QED
    BY <2>2, <2>3
<1>9. ~RunsOut(f, d) => k = w /\ k > 0
  BY <1>1, <1>5, <1>7
<1>10. QED
  BY <1>5, <1>7, <1>8, <1>9, Zenon DEF k, w

\* Consecutive sectors of a track lie one after the other in the image.
LEMMA OnTheTrack ==
  ASSUME NEW c \in Nat, NEW h \in Nat, NEW r \in Nat \ {0}, NEW k \in Nat,
         c < Cylinders, h < Heads, r + k <= Sectors + 1
  PROVE  /\ Offset(c, h, 1) \in Nat /\ Offset(c, h, r) \in Nat /\ k * SectorSize \in Nat
         /\ Sectors * SectorSize \in Nat
         /\ Offset(c, h, 1) <= Offset(c, h, r)
         /\ Offset(c, h, r) + k * SectorSize <= Offset(c, h, 1) + Sectors * SectorSize
         /\ Offset(c, h, 1) + Sectors * SectorSize <= ImageSize
<1>1. /\ Cylinders \in Nat /\ Heads \in Nat /\ Sectors \in Nat /\ SectorSize \in Nat
  BY Sizes
<1> DEFINE t == c * Heads + h
<1>2. t \in Nat /\ t + 1 <= Cylinders * Heads /\ Cylinders * Heads \in Nat
  <2>1. (c + 1) * Heads <= Cylinders * Heads /\ Cylinders * Heads \in Nat
    BY <1>1, Products
  <2>2. (c + 1) * Heads = c * Heads + Heads /\ c * Heads \in Nat
    BY <1>1
  <2>3. QED
    BY <1>1, <2>1, <2>2
<1>3. /\ Offset(c, h, 1) = (t * Sectors + (1 - 1)) * SectorSize
      /\ Offset(c, h, r) = (t * Sectors + (r - 1)) * SectorSize
  BY DEF Offset
<1>4. ImageSize = ((Cylinders * Heads) * Sectors) * SectorSize
  BY DEF ImageSize
<1> DEFINE ch == Cylinders * Heads
<1> HIDE DEF t, ch
<1> DEFINE x == t * Sectors
           y == ch * Sectors
<1>5. x \in Nat /\ y \in Nat /\ x + Sectors <= y
  <2>1. (t + 1) * Sectors <= ch * Sectors /\ ch * Sectors \in Nat
    BY <1>1, <1>2, Products DEF ch
  <2>2. (t + 1) * Sectors = t * Sectors + Sectors /\ t * Sectors \in Nat
    BY <1>1, <1>2
  <2>3. QED
    BY <1>1, <2>1, <2>2
<1>6. /\ Offset(c, h, 1) = x * SectorSize
      /\ Offset(c, h, r) = (x + (r - 1)) * SectorSize
      /\ ImageSize = y * SectorSize
  <2>1. x + (1 - 1) = x
    BY <1>5
  <2>2. QED
    BY <1>3, <1>4, <2>1 DEF ch
<1> HIDE DEF x, y
<1>7. /\ x * SectorSize \in Nat /\ (x + (r - 1)) * SectorSize \in Nat
      /\ x * SectorSize <= (x + (r - 1)) * SectorSize
  BY <1>1, <1>5, Products
<1>8. /\ (x + (r - 1) + k) * SectorSize <= (x + Sectors) * SectorSize
  BY <1>1, <1>5, Products
<1>9. (x + Sectors) * SectorSize <= y * SectorSize
  BY <1>1, <1>5, Products
<1>10. /\ (x + (r - 1) + k) * SectorSize = (x + (r - 1)) * SectorSize + k * SectorSize
       /\ (x + Sectors) * SectorSize = x * SectorSize + Sectors * SectorSize
       /\ k * SectorSize \in Nat /\ Sectors * SectorSize \in Nat
  BY <1>1, <1>5
<1>11. QED
  BY <1>6, <1>7, <1>8, <1>9, <1>10

\* What is moved lies on its track of the disk.
LEMMA MovedBytes ==
  ASSUME NEW f, NEW d, DataCommand(f, d)
  PROVE  LET n == BytesMoved(f, d)
             track == Offset(C(f), H(f), 1)
         IN /\ n \in Nat /\ n <= Channel(d).count + 1
            /\ n > 0 => /\ Start(f) \in Nat /\ track \in Nat /\ Sectors * SectorSize \in Nat
                        /\ track <= Start(f)
                        /\ Start(f) + n <= track + Sectors * SectorSize
                        /\ Start(f) + n <= ImageSize
<1> DEFINE k == SectorsMoved(f, d)
           l == Channel(d).count + 1
           n == BytesMoved(f, d)
<1>1. k \in Nat /\ (k > 0 => InGeometry(C(f), H(f), R(f)) /\ R(f) + k <= Sectors + 1)
  BY Moved
<1>2. l \in Nat \ {0} /\ SectorSize \in Nat \ {0}
  BY ChannelIsThere, Sizes DEF DataCommand
<1>3. n = IF k * SectorSize < l THEN k * SectorSize ELSE l
  BY DEF BytesMoved, MinOf, Length
<1> HIDE DEF k, l, n
<1>4. k * SectorSize \in Nat /\ (k = 0 => k * SectorSize = 0)
  BY <1>1, <1>2
<1>5. n \in Nat /\ n <= l /\ n <= k * SectorSize /\ (n > 0 => k > 0)
  BY <1>1, <1>2, <1>3, <1>4
<1>6. ASSUME n > 0
      PROVE  LET track == Offset(C(f), H(f), 1) IN
             /\ Start(f) \in Nat /\ track \in Nat /\ Sectors * SectorSize \in Nat
             /\ track <= Start(f)
             /\ Start(f) + n <= track + Sectors * SectorSize
             /\ Start(f) + n <= ImageSize
  <2>1. InGeometry(C(f), H(f), R(f)) /\ R(f) + k <= Sectors + 1
    BY <1>1, <1>5, <1>6
  <2>2. C(f) \in Nat /\ H(f) \in Nat /\ R(f) \in Nat \ {0} /\ C(f) < Cylinders /\ H(f) < Heads
    BY <2>1, Sizes DEF DataCommand, Byte, InGeometry
  <2> DEFINE track == Offset(C(f), H(f), 1)
             start == Offset(C(f), H(f), R(f))
             size == Sectors * SectorSize
             moved == k * SectorSize
  <2>3. /\ track \in Nat /\ start \in Nat /\ moved \in Nat /\ size \in Nat
        /\ track <= start
        /\ start + moved <= track + size
        /\ track + size <= ImageSize
    BY <1>1, <2>1, <2>2, OnTheTrack
  <2>4. Start(f) = start
    BY DEF Start
  <2>5. ImageSize \in Nat
    BY Sizes DEF ImageSize
  <2> HIDE DEF track, start, size, moved
  <2>6. n <= moved
    BY <1>5 DEF moved
  <2>7. /\ start \in Nat /\ track \in Nat /\ size \in Nat
        /\ track <= start
        /\ start + n <= track + size
        /\ start + n <= ImageSize
    BY <1>5, <2>3, <2>5, <2>6
  <2>8. QED
    BY <2>4, <2>7 DEF track, size
<1>7. QED
  BY <1>5, <1>6 DEF n, l

\* The address of a byte of the transfer is an address.
LEMMA WhereIsAddress ==
  ASSUME NEW d \in DMAState, NEW i \in Nat
  PROVE  Where(d, i) \in Address
<1> DEFINE ch == Channel(d)
           q == SectorSize * (i \div SectorSize)
           a == (ch.addr + q) % WordSize
           x == ch.page * WordSize + a + (i % SectorSize)
<1>1. ch.addr \in Nat /\ ch.page \in Nat /\ SectorSize \in Nat \ {0} /\ WordSize \in Nat \ {0}
  BY ChannelIsThere, Sizes
<1>2. i \div SectorSize \in Nat /\ i % SectorSize \in Nat
  BY <1>1
<1>3. q \in Nat
  BY <1>1, <1>2
<1> HIDE DEF q
<1>4. a \in Nat
  BY <1>1, <1>3
<1> HIDE DEF a
<1>5. ch.page * WordSize \in Nat
  BY <1>1
<1>6. x \in Nat
  BY <1>2, <1>4, <1>5
<1>7. Where(d, i) = x % MemSize
  BY DEF Where, TransferAddr, a, q
<1> HIDE DEF x
<1>8. QED
  BY <1>6, <1>7, Sizes DEF Address

\* Within a word the transfer goes through memory address by address.
LEMMA WhereWithinWord ==
  ASSUME NEW d \in DMAState, Channel(d).addr + Channel(d).count < WordSize,
         NEW i \in 0 .. Channel(d).count
  PROVE  /\ Where(d, i) = FirstAddress(Channel(d)) + i
         /\ FirstAddress(Channel(d)) \in Nat
         /\ FirstAddress(Channel(d)) + i \in Address
<1> DEFINE ch == Channel(d)
           q == i \div SectorSize
           r == i % SectorSize
<1>1. /\ ch.addr \in Nat /\ ch.count \in Nat /\ ch.page \in Nat
      /\ SectorSize \in Nat \ {0} /\ WordSize \in Nat \ {0} /\ Pages \in Nat \ {0}
  BY ChannelIsThere, Sizes
<1>2. i \in Nat /\ ch.addr + i < WordSize
  BY <1>1
<1>3. q \in Nat /\ r \in 0 .. SectorSize - 1 /\ i = q * SectorSize + r
  BY <1>1, <1>2, QuotientAndRest
<1>4. Where(d, i) = (ch.page * WordSize + ((ch.addr + SectorSize * q) % WordSize) + r) % (Pages * WordSize)
  BY DEF Where, TransferAddr, MemSize
<1>5. FirstAddress(ch) = (ch.page % Pages) * WordSize + ch.addr
  BY DEF FirstAddress
<1> DEFINE p == ch.page
           a == ch.addr
<1>6. p \in Nat /\ a \in Nat /\ a + i < WordSize
  BY <1>1, <1>2
<1> HIDE DEF p, a, q, r
<1>7. SectorSize * q \in Nat /\ SectorSize * q = i - r
  BY <1>1, <1>3
<1>8. (a + SectorSize * q) % WordSize = a + SectorSize * q
  <2> DEFINE y == SectorSize * q
  <2>1. y \in Nat /\ y = i - r
    BY <1>7
  <2> HIDE DEF y
  <2>2. r \in Nat /\ r < SectorSize
    BY <1>1, <1>3
  <2>3. a + y \in 0 .. WordSize - 1
    BY <1>1, <1>2, <1>6, <2>1, <2>2
  <2>4. (a + y) % WordSize = a + y
    BY <1>1, <2>3, WithinTurn
  <2>5. QED
    BY <2>4 DEF y
<1>9. a + i \in 0 .. WordSize - 1
  BY <1>1, <1>2, <1>6
<1>10. /\ (p * WordSize + (a + i)) % (Pages * WordSize) = (p % Pages) * WordSize + (a + i)
       /\ (p % Pages) * WordSize + (a + i) \in 0 .. Pages * WordSize - 1
  BY <1>1, <1>6, <1>9, PageWraps
<1>11. p * WordSize \in Nat /\ (p % Pages) * WordSize \in Nat
  BY <1>1, <1>6
<1>12. p * WordSize + ((a + SectorSize * q) % WordSize) + r = p * WordSize + (a + i)
  BY <1>3, <1>6, <1>7, <1>8, <1>11
<1>13. (p % Pages) * WordSize + (a + i) = ((p % Pages) * WordSize + a) + i
  BY <1>2, <1>6, <1>11
<1>14. Where(d, i) = FirstAddress(ch) + i
  BY <1>4, <1>5, <1>10, <1>12, <1>13 DEF p, a
<1>15. FirstAddress(ch) \in Nat
  BY <1>5, <1>6, <1>11 DEF p, a
<1>16. FirstAddress(ch) + i \in Address
  BY <1>5, <1>10, <1>13 DEF Address, MemSize, p, a
<1>17. QED
  BY <1>14, <1>15, <1>16

-----------------------------------------------------------------------------
(***************************************************************************)
(* The channel.                                                            *)
(***************************************************************************)

\* Address and count of channel 2 are what was written last.
LEMMA ChannelChanges ==
  ASSUME NEW d \in DMAState
  PROVE  /\ \A x \in Word : LET g == [d EXCEPT !.channels[2].addr = x] IN
              /\ g \in DMAState
              /\ Channel(g).count = Channel(d).count /\ g.tcStatus = d.tcStatus
         /\ \A x \in Word : LET g == [d EXCEPT !.channels[2].count = x] IN
              /\ g \in DMAState
              /\ Channel(g).count = x /\ g.tcStatus = d.tcStatus
         /\ \A x \in Digit : [d EXCEPT !.channels[2].page = x] \in DMAState
         /\ \A x \in BOOLEAN : [d EXCEPT !.flipHi = x] \in DMAState
<1>1. 2 \in Channels
  BY GeometryAssumption
<1>2. ASSUME NEW x \in Word
      PROVE  LET g == [d EXCEPT !.channels[2].addr = x] IN
             /\ g \in DMAState
             /\ Channel(g).count = Channel(d).count /\ g.tcStatus = d.tcStatus
  BY <1>1 DEF DMAState, ChannelState, Channel
<1>3. ASSUME NEW x \in Word
      PROVE  LET g == [d EXCEPT !.channels[2].count = x] IN
             /\ g \in DMAState
             /\ Channel(g).count = x /\ g.tcStatus = d.tcStatus
  BY <1>1 DEF DMAState, ChannelState, Channel
<1>4. \A x \in Digit : [d EXCEPT !.channels[2].page = x] \in DMAState
  BY <1>1, ZenonT(60) DEF DMAState, ChannelState
<1>5. \A x \in BOOLEAN : [d EXCEPT !.flipHi = x] \in DMAState
  BY DEF DMAState
<1>6. QED
  BY <1>2, <1>3, <1>4, <1>5

\* A transfer of n bytes takes n from the count, around the end of a word, and
\* sets the terminal-count bit when the count underflows.
LEMMA AdvanceCounts ==
  ASSUME NEW d \in DMAState, NEW n \in Nat
  PROVE  LET g == Advance(d, 2, n) IN
         /\ g \in DMAState
         /\ Channel(g).count = (Channel(d).count - n) % WordSize
         /\ 2 \in g.tcStatus <=> 2 \in d.tcStatus \/ n > Channel(d).count
<1> DEFINE x == (Channel(d).addr + n) % WordSize
           y == (Channel(d).count - n) % WordSize
           z == IF n > Channel(d).count THEN d.tcStatus \cup {2} ELSE d.tcStatus
           a == [d EXCEPT !.channels[2].addr = x]
           b == [a EXCEPT !.channels[2].count = y]
           c == [b EXCEPT !.tcStatus = z]
<1>1. 2 \in Channels
  BY GeometryAssumption
<1>2. Advance(d, 2, n) = c
  BY <1>1 DEF Advance, Channel, DMAState, ChannelState
<1>3. /\ Channel(d).addr \in Nat /\ Channel(d).count \in Nat /\ WordSize \in Nat \ {0}
  BY ChannelIsThere, Sizes
<1>4. x \in Word /\ y \in Word
  BY <1>3 DEF Word
<1>5. z \in SUBSET Channels /\ (2 \in z <=> 2 \in d.tcStatus \/ n > Channel(d).count)
  BY <1>1 DEF DMAState
<1> HIDE DEF x, y, z
<1>6. a \in DMAState
  BY <1>4, ChannelChanges
<1> HIDE DEF a
<1>7. b \in DMAState /\ Channel(b).count = y
  BY <1>4, <1>6, ChannelChanges
<1> HIDE DEF b
<1>8. c \in DMAState /\ Channel(c).count = y /\ c.tcStatus = z
  BY <1>5, <1>7 DEF DMAState, Channel
<1> HIDE DEF c
<1>9. QED
  BY <1>2, <1>5, <1>8 DEF y

\* The driver's routine leaves a channel of its type.
LEMMA ProgrammedIsTyped ==
  ASSUME NEW d \in DMAState, NEW s \in Setups
  PROVE  Programmed(d, s) \in DMAState
<1>1. s.addr \in Word /\ s.count \in Word /\ s.page \in Digit
  BY DriverAssumption
<1>2. /\ Low(s.addr) \in Digit /\ High(s.addr) \in Digit
      /\ Low(s.count) \in Digit /\ High(s.count) \in Digit
  BY <1>1, Digits DEF Low, High
<1>3. ASSUME NEW e \in DMAState, NEW v \in Digit PROVE WriteAddr(e, 2, v) \in DMAState
  <2> DEFINE x == WordWritten(e.channels[2].addr, v, e.flipHi)
             a == [e EXCEPT !.channels[2].addr = x]
  <2>1. e.channels[2].addr \in Word /\ e.flipHi \in BOOLEAN
    BY GeometryAssumption DEF DMAState, ChannelState
  <2>2. x \in Word
    BY <2>1, HalvesWritten DEF WordWritten
  <2> HIDE DEF x
  <2>3. a \in DMAState /\ a.flipHi = e.flipHi
    BY <2>2, ChannelChanges DEF DMAState
  <2>4. WriteAddr(e, 2, v) = [a EXCEPT !.flipHi = ~e.flipHi]
    BY GeometryAssumption DEF WriteAddr, x, DMAState, ChannelState
  <2> HIDE DEF a
  <2>5. QED
    BY <2>1, <2>3, <2>4, ChannelChanges
<1>4. ASSUME NEW e \in DMAState, NEW v \in Digit PROVE WriteCount(e, 2, v) \in DMAState
  <2> DEFINE x == WordWritten(e.channels[2].count, v, e.flipHi)
             a == [e EXCEPT !.channels[2].count = x]
  <2>1. e.channels[2].count \in Word /\ e.flipHi \in BOOLEAN
    BY GeometryAssumption DEF DMAState, ChannelState
  <2>2. x \in Word
    BY <2>1, HalvesWritten DEF WordWritten
  <2> HIDE DEF x
  <2>3. a \in DMAState /\ a.flipHi = e.flipHi
    BY <2>2, ChannelChanges DEF DMAState
  <2>4. WriteCount(e, 2, v) = [a EXCEPT !.flipHi = ~e.flipHi]
    BY GeometryAssumption DEF WriteCount, x, DMAState, ChannelState
  <2> HIDE DEF a
  <2>5. QED
    BY <2>1, <2>3, <2>4, ChannelChanges
<1> DEFINE z == ClearFlipFlop(d)
           a == WriteAddr(z, 2, Low(s.addr))
           b == WriteAddr(a, 2, High(s.addr))
           p == WritePage(b, 2, s.page)
           c == WriteCount(p, 2, Low(s.count))
<1>5. z \in DMAState
  BY ChannelChanges DEF ClearFlipFlop
<1> HIDE DEF z
<1>6. a \in DMAState
  BY <1>2, <1>3, <1>5
<1> HIDE DEF a
<1>7. b \in DMAState
  BY <1>2, <1>3, <1>6
<1> HIDE DEF b
<1>8. p \in DMAState
  BY <1>1, <1>7, ChannelChanges DEF WritePage
<1> HIDE DEF p
<1>9. c \in DMAState
  BY <1>2, <1>4, <1>8
<1>10. Programmed(d, s) = WriteCount(c, 2, High(s.count))
  BY DEF Programmed, z, a, b, p, c
<1> HIDE DEF c
<1>11. QED
  BY <1>2, <1>4, <1>9, <1>10

-----------------------------------------------------------------------------
(***************************************************************************)
(* Memory and disk.                                                        *)
(***************************************************************************)

\* Of some numbers below n one is the greatest.
LEMMA Greatest ==
  ASSUME NEW n \in Nat, NEW T \in SUBSET (0 .. n - 1), T # {}
  PROVE  \E i \in T : \A j \in T : j <= i
<1> DEFINE M == {n - 1 - i : i \in T}
<1>1. M \subseteq Nat /\ M # {}
  <2>1. \A i \in T : n - 1 - i \in Nat
    OBVIOUS
  <2>2. M \subseteq Nat
    BY <2>1, Zenon
  <2>3. M # {}
    BY Zenon
  <2>4. QED
    BY <2>2, <2>3
<1> HIDE DEF M
<1>2. PICK x \in M : \A y \in M : <<y, x>> \notin OpToRel(<, Nat)
  BY <1>1, NatLessThanWellFounded, WFMin
<1>3. \A y \in M : x <= y
  <2>1. OpToRel(<, Nat) = {ss \in Nat \X Nat : ss[1] < ss[2]}
    BY Zenon DEF OpToRel
  <2>2. \A y \in M : ~(y < x)
    BY <1>1, <1>2, <2>1
  <2>3. QED
    BY <1>1, <2>2
<1>4. PICK i \in T : x = n - 1 - i
  BY DEF M
<1>5. ASSUME NEW j \in T PROVE j <= i
  <2>1. n - 1 - j \in M
    BY DEF M
  <2>2. x <= n - 1 - j
    BY <1>3, <2>1
  <2>3. QED
    BY <1>4, <2>2
<1>6. QED
  BY <1>5

\* The state a command works on.
WorldTyped(w) ==
  /\ w \in [fdc : FDCState, dma : DMAState, mem : MemoryState, image : ImageState]
  /\ Registers(w.fdc)

\* Whatever a read brings, memory holds bytes.
LEMMA ReadIsTyped ==
  ASSUME NEW w, WorldTyped(w), DataCommand(w.fdc, w.dma)
  PROVE  ReadSectors(w).mem \in MemoryState
<1> DEFINE f == w.fdc
           m == w.mem
           n == BytesMoved(f, w.dma)
           Lands(a) == {i \in 0 .. n - 1 : Where(w.dma, i) = a}
           Last(a) == CHOOSE i \in Lands(a) : \A j \in Lands(a) : j <= i
           d == [a \in Address |->
                   IF Lands(a) = {} \/ Bus!IsROM(m, a) THEN m.data[a]
                   ELSE w.image[Start(f) + Last(a)]]
<1>1. ReadSectors(w).mem = [m EXCEPT !.data = d]
  BY DEF ReadSectors
<1>2. m \in MemoryState /\ w.image \in ImageState
  BY DEF WorldTyped
<1>3. n \in Nat /\ (n > 0 => Start(f) \in Nat /\ Start(f) + n <= ImageSize)
  BY MovedBytes
<1>4. ASSUME NEW a \in Address, Lands(a) # {} PROVE w.image[Start(f) + Last(a)] \in Byte
  <2>1. Lands(a) \in SUBSET (0 .. n - 1)
    OBVIOUS
  <2>2. \E i \in Lands(a) : \A j \in Lands(a) : j <= i
    BY <1>3, <1>4, <2>1, Greatest
  <2>3. Last(a) \in Lands(a)
    BY <2>2
  <2>4. Last(a) \in 0 .. n - 1
    BY <2>1, <2>3
  <2>5. ImageSize \in Nat
    BY Sizes DEF ImageSize
  <2> HIDE DEF Last, n
  <2>6. Start(f) + Last(a) \in Image
    BY <1>3, <2>4, <2>5 DEF Image
  <2>7. QED
    BY <1>2, <2>6 DEF ImageState
<1> HIDE DEF Lands, Last
<1>5. d \in [Address -> Byte]
  BY <1>2, <1>4 DEF MemoryState
<1> HIDE DEF d
<1>6. QED
  BY <1>1, <1>2, <1>5 DEF MemoryState

\* Whatever a write takes, the disk holds bytes.
LEMMA WriteIsTyped ==
  ASSUME NEW w, WorldTyped(w), DataCommand(w.fdc, w.dma)
  PROVE  WriteSectors(w).image \in ImageState
<1> DEFINE f == w.fdc
           n == BytesMoved(f, w.dma)
           first == Start(f)
           i == [o \in Image |->
                   IF n > 0 /\ o \in first .. first + n - 1 THEN Bus!Read8(w.mem, Where(w.dma, o - first))
                   ELSE w.image[o]]
<1>1. WriteSectors(w).image = i
  BY DEF WriteSectors
<1>2. w.mem \in MemoryState /\ w.image \in ImageState /\ w.dma \in DMAState
  BY DEF WorldTyped
<1>3. n \in Nat /\ (n > 0 => first \in Nat)
  BY MovedBytes
<1>4. ASSUME NEW o \in Image, n > 0, o \in first .. first + n - 1
      PROVE  Bus!Read8(w.mem, Where(w.dma, o - first)) \in Byte
  <2>1. o \in Nat /\ o - first \in Nat
    BY <1>3, <1>4 DEF Image
  <2>2. Where(w.dma, o - first) \in Address
    BY <1>2, <2>1, WhereIsAddress
  <2>3. \A x \in Address : x % MemSize = x
    BY Sizes, WithinTurn DEF Address
  <2>4. Bus!Read8(w.mem, Where(w.dma, o - first)) = w.mem.data[Where(w.dma, o - first)]
    BY <2>2, <2>3 DEF Bus!Read8
  <2>5. QED
    BY <1>2, <2>2, <2>4 DEF MemoryState
<1> HIDE DEF n, first
<1>5. i \in ImageState
  BY <1>2, <1>4 DEF ImageState
<1>6. QED
  BY <1>1, <1>5

-----------------------------------------------------------------------------
(***************************************************************************)
(* The types.                                                              *)
(***************************************************************************)

\* A command of which only the registers matter.
LEMMA OnlyRegistersChange ==
  ASSUME NEW w, WorldTyped(w), NEW g, Registers(g)
  PROVE  LET x == [w EXCEPT !.fdc = g] IN
         WorldTyped(x) /\ x.fdc = g /\ x.dma = w.dma /\ x.mem = w.mem /\ x.image = w.image
  BY DEF WorldTyped, Registers

\* Every command keeps the types.
LEMMA ExecuteIsTyped ==
  ASSUME NEW w, WorldTyped(w), Executable(w.fdc), NEW ins \in BOOLEAN
  PROVE  WorldTyped(Execute(w, ins))
<1> DEFINE f == w.fdc
           op == Opcode(f.cmd[1])
<1>1. f \in FDCState /\ Registers(f)
  BY DEF WorldTyped
<1>2. ASSUME NEW g, Registers(g), Execute(w, ins) = [w EXCEPT !.fdc = g]
      PROVE  WorldTyped(Execute(w, ins))
  BY <1>2, OnlyRegistersChange
<1>3. CASE op = 3
  <2> DEFINE g == [f EXCEPT !.phase = 0]
  <2>1. Execute(w, ins) = [w EXCEPT !.fdc = g]
    BY <1>3 DEF Execute, WorldTyped
  <2>2. 0 \in 0 .. 2
    OBVIOUS
  <2>3. g \in FDCState /\ SameResult(g, f)
    BY <1>1, <2>2, RegisterChanges DEF FDCState, SameResult
  <2> HIDE DEF g
  <2>4. Registers(g)
    BY <1>1, <2>3 DEF Registers, SameResult
  <2>5. QED
    BY <1>2, <2>1, <2>4
<1>4. CASE op = 7
  <2>1. Execute(w, ins) = [w EXCEPT !.fdc = SeekDone(f, 0)]
    BY <1>4 DEF Execute
  <2>2. DriveOf(f) \in Drive /\ 0 \in Byte
    BY <1>4, ParametersAreThere DEF Byte
  <2>3. Registers(SeekDone(f, 0))
    BY <1>1, <2>2, SeekIsTyped
  <2>4. QED
    BY <1>2, <2>1, <2>3
<1>5. CASE op = 15
  <2>1. Execute(w, ins) = [w EXCEPT !.fdc = SeekDone(f, f.cmd[3])]
    BY <1>5 DEF Execute
  <2>2. DriveOf(f) \in Drive /\ f.cmd[3] \in Byte
    BY <1>5, ParametersAreThere
  <2>3. Registers(SeekDone(f, f.cmd[3]))
    BY <1>1, <2>2, SeekIsTyped
  <2>4. QED
    BY <1>2, <2>1, <2>3
<1>6. CASE op = 8
  <2>1. Execute(w, ins) = [w EXCEPT !.fdc = SenseInterrupt(f)]
    BY <1>6 DEF Execute
  <2>2. Registers(SenseInterrupt(f))
    <3>1. CASE f.intPending
      <4> DEFINE h == [f EXCEPT !.intPending = FALSE]
                 bytes == <<f.st0, f.pcn[f.st0 % 4] % 256>>
      <4>1. SenseInterrupt(f) = GiveResult(h, bytes)
        BY <3>1 DEF SenseInterrupt
      <4>2. FALSE \in BOOLEAN
        OBVIOUS
      <4>3. h \in FDCState
        BY <1>1, <4>2, RegisterChanges, Zenon
      <4>4. f.st0 \in Byte /\ f.pcn[f.st0 % 4] \in Byte
        <5>1. f.st0 \in Byte /\ f.pcn \in [Drive -> Byte]
          BY <1>1 DEF FDCState
        <5>2. f.st0 % 4 \in Drive
          BY <5>1 DEF Byte, Drive
        <5>3. QED
          BY <5>1, <5>2
      <4>5. f.pcn[f.st0 % 4] % 256 \in Byte
        <5>1. \A x \in Byte : x % 256 \in Byte
          BY DEF Byte
        <5>2. QED
          BY <4>4, <5>1
      <4>6. bytes \in Seq(Byte) /\ Len(bytes) <= 7
        BY <4>4, <4>5
      <4> HIDE DEF h, bytes
      <4>7. QED
        BY <4>1, <4>3, <4>6, ResultIsTyped
    <3>2. CASE ~f.intPending
      <4>1. SenseInterrupt(f) = GiveResult(f, <<128>>)
        BY <3>2 DEF SenseInterrupt
      <4>2. <<128>> \in Seq(Byte) /\ Len(<<128>>) <= 7
        BY DEF Byte
      <4>3. QED
        BY <1>1, <4>1, <4>2, ResultIsTyped
    <3>3. QED
      BY <3>1, <3>2
  <2>3. QED
    BY <1>2, <2>1, <2>2
<1>7. CASE op = 4
  <2> DEFINE bytes == <<DriveOf(f) + 32 + IF f.pcn[DriveOf(f)] = 0 THEN 16 ELSE 0>>
  <2>1. Execute(w, ins) = [w EXCEPT !.fdc = GiveResult(f, bytes)]
    BY <1>7 DEF Execute, SenseDrive
  <2>2. DriveOf(f) \in Drive
    BY <1>7, ParametersAreThere
  <2>3. bytes \in Seq(Byte) /\ Len(bytes) <= 7
    BY <2>2 DEF Drive, Byte
  <2> HIDE DEF bytes
  <2>4. QED
    BY <1>1, <1>2, <2>1, <2>3, ResultIsTyped
<1>8. CASE op = 10
  <2> DEFINE st0 == DriveOf(f) + 4 * HeadOf(f)
             a == [f EXCEPT !.st0 = st0]
             b == [a EXCEPT !.intPending = TRUE]
             bytes == <<st0, 0, 0, f.pcn[DriveOf(f)], HeadOf(f), 1, 2>>
  <2>1. Execute(w, ins) = [w EXCEPT !.fdc = GiveResult(b, bytes)]
    BY <1>8 DEF Execute, ReadID
  <2>2. DriveOf(f) \in Drive /\ HeadOf(f) \in 0 .. 1
    BY <1>8, ParametersAreThere
  <2>3. st0 \in Byte /\ 0 \in Byte /\ 1 \in Byte /\ 2 \in Byte /\ HeadOf(f) \in Byte
    BY <2>2 DEF Drive, Byte
  <2>4. f.pcn[DriveOf(f)] \in Byte /\ TRUE \in BOOLEAN
    BY <1>1, <2>2 DEF FDCState
  <2> HIDE DEF st0
  <2>5. a \in FDCState
    BY <1>1, <2>3, RegisterChanges, Zenon
  <2> HIDE DEF a
  <2>6. b \in FDCState
    BY <2>4, <2>5, RegisterChanges, Zenon
  <2>7. bytes \in Seq(Byte) /\ Len(bytes) <= 7
    BY <2>3, <2>4
  <2> HIDE DEF b, bytes
  <2>8. QED
    BY <1>2, <2>1, <2>6, <2>7, ResultIsTyped
<1>9. CASE op \in {5, 6}
  <2>1. DataCommand(f, w.dma)
    BY <1>9, ParametersAreThere DEF DataCommand, WorldTyped
  <2>2. /\ R(f) \in Nat /\ NextR(f, w.dma) \in Nat
        /\ (~RunsOut(f, w.dma)) \in BOOLEAN /\ FALSE \in BOOLEAN
    BY <2>1, Moved DEF DataCommand, Byte, NextR
  <2>3. /\ Registers(Terminate(f, ~RunsOut(f, w.dma), NextR(f, w.dma)))
        /\ Registers(Terminate(f, FALSE, R(f)))
    BY <1>9, <2>2, TerminateIsTyped, Zenon
  <2>4. CASE op = 6 /\ ins
    <3>1. Execute(w, ins) = ReadSectors(w)
      BY <2>4 DEF Execute
    <3>2. /\ ReadSectors(w).fdc = Terminate(f, ~RunsOut(f, w.dma), NextR(f, w.dma))
          /\ ReadSectors(w).dma = Advance(w.dma, 2, BytesMoved(f, w.dma))
          /\ ReadSectors(w).image = w.image
          /\ ReadSectors(w) = [fdc |-> ReadSectors(w).fdc, dma |-> ReadSectors(w).dma,
                               mem |-> ReadSectors(w).mem, image |-> ReadSectors(w).image]
      BY DEF ReadSectors
    <3>3. ReadSectors(w).dma \in DMAState
      BY <2>1, <3>2, MovedBytes, AdvanceCounts DEF DataCommand
    <3>4. ReadSectors(w).mem \in MemoryState
      BY <2>1, ReadIsTyped
    <3>5. w.image \in ImageState
      BY DEF WorldTyped
    <3>6. Registers(ReadSectors(w).fdc) /\ ReadSectors(w).image \in ImageState
      BY <2>3, <3>2, <3>5
    <3> DEFINE x == ReadSectors(w)
    <3> HIDE DEF x
    <3>7. WorldTyped(x)
      BY <3>2, <3>3, <3>4, <3>6 DEF WorldTyped, Registers, x
    <3>8. QED
      BY <3>1, <3>7 DEF x
  <2>5. CASE op = 5 /\ ins
    <3>1. Execute(w, ins) = WriteSectors(w)
      BY <2>5 DEF Execute
    <3>2. /\ WriteSectors(w).fdc = Terminate(f, ~RunsOut(f, w.dma), NextR(f, w.dma))
          /\ WriteSectors(w).dma = Advance(w.dma, 2, BytesTaken(f, w.dma))
          /\ WriteSectors(w).mem = w.mem
          /\ WriteSectors(w) = [fdc |-> WriteSectors(w).fdc, dma |-> WriteSectors(w).dma,
                                mem |-> WriteSectors(w).mem, image |-> WriteSectors(w).image]
      BY DEF WriteSectors
    <3>3. BytesTaken(f, w.dma) \in Nat
      <4>1. BytesMoved(f, w.dma) \in Nat /\ SectorsMoved(f, w.dma) \in Nat
        BY <2>1, MovedBytes, Moved
      <4>2. (SectorsMoved(f, w.dma) + 1) * SectorSize \in Nat
        BY <4>1, Sizes
      <4>3. Channel(w.dma).count + 1 \in Nat
        BY <2>1, ChannelIsThere DEF DataCommand
      <4>4. QED
        BY <4>1, <4>2, <4>3 DEF BytesTaken, MinOf, Length
    <3>4. WriteSectors(w).dma \in DMAState
      BY <2>1, <3>2, <3>3, AdvanceCounts DEF DataCommand
    <3>5. WriteSectors(w).image \in ImageState
      BY <2>1, WriteIsTyped
    <3>6. w.mem \in MemoryState
      BY DEF WorldTyped
    <3>7. Registers(WriteSectors(w).fdc) /\ WriteSectors(w).mem \in MemoryState
      BY <2>3, <3>2, <3>6
    <3> DEFINE x == WriteSectors(w)
    <3> HIDE DEF x
    <3>8. WorldTyped(x)
      BY <3>2, <3>4, <3>5, <3>7 DEF WorldTyped, Registers, x
    <3>9. QED
      BY <3>1, <3>8 DEF x
  <2>6. CASE ~ins
    <3>1. Execute(w, ins) = NoDisk(w)
      BY <1>9, <2>6 DEF Execute
    <3>2. NoDisk(w) = [w EXCEPT !.fdc = Terminate(f, FALSE, R(f))]
      BY DEF NoDisk
    <3>3. QED
      BY <1>2, <2>3, <3>1, <3>2
  <2>7. QED
    BY <1>9, <2>4, <2>5, <2>6
<1>10. CASE op \notin {3, 4, 5, 6, 7, 8, 10, 15}
  <2>1. Execute(w, ins) = [w EXCEPT !.fdc = GiveResult(f, <<128>>)]
    BY <1>10 DEF Execute
  <2>2. <<128>> \in Seq(Byte) /\ Len(<<128>>) <= 7
    BY DEF Byte
  <2>3. QED
    BY <1>1, <1>2, <2>1, <2>2, ResultIsTyped
<1>11. QED
  BY <1>3, <1>4, <1>5, <1>6, <1>7, <1>8, <1>9, <1>10

\* A byte of a command is added to those before it.
LEMMA CollectedIsTyped ==
  ASSUME NEW f, Registers(f), f.phase # 2, NEW v \in Byte
  PROVE  Registers(Collected(f, v))
<1>1. f \in FDCState /\ f.cmd \in Seq(Byte) /\ f.phase \in 0 .. 1
  BY DEF Registers, FDCState
<1>2. CASE f.phase = 0
  <2> DEFINE a == [f EXCEPT !.cmd = <<v>>]
             b == [a EXCEPT !.needed = 1 + ParamCount(v)]
             c == [b EXCEPT !.phase = 1]
  <2>1. Collected(f, v) = c
    BY <1>2 DEF Collected
  <2>2. <<v>> \in Seq(Byte) /\ 1 \in 0 .. 2
    OBVIOUS
  <2>3. 1 + ParamCount(v) \in 0 .. 9
    BY DEF ParamCount
  <2>4. a \in FDCState /\ SameResult(a, f)
    BY <1>1, <2>2, RegisterChanges DEF FDCState, SameResult
  <2> HIDE DEF a
  <2>5. b \in FDCState /\ SameResult(b, a)
    BY <2>3, <2>4, RegisterChanges DEF FDCState, SameResult
  <2> HIDE DEF b
  <2>6. c \in FDCState /\ SameResult(c, b)
    BY <2>2, <2>5, RegisterChanges DEF FDCState, SameResult
  <2> HIDE DEF c
  <2>7. QED
    BY <2>1, <2>4, <2>5, <2>6 DEF Registers, SameResult
<1>3. CASE f.phase = 1
  <2> DEFINE c == [f EXCEPT !.cmd = Append(f.cmd, v)]
  <2>1. Collected(f, v) = c
    BY <1>3 DEF Collected
  <2>2. Append(f.cmd, v) \in Seq(Byte)
    BY <1>1
  <2>3. c \in FDCState /\ SameResult(c, f)
    BY <1>1, <2>2, RegisterChanges DEF FDCState, SameResult
  <2> HIDE DEF c
  <2>4. QED
    BY <2>1, <2>3 DEF Registers, SameResult
<1>4. QED
  BY <1>1, <1>2, <1>3

\* A byte on the data port keeps the types.
LEMMA WriteDataIsTyped ==
  ASSUME NEW w, WorldTyped(w), Shape(w.fdc), PhaseHolds(w.fdc), w.fdc.phase # 2,
         NEW ins \in BOOLEAN, NEW v \in Byte
  PROVE  WorldTyped(WriteData(w, ins, v))
<1> DEFINE c == Collected(w.fdc, v)
           x == [w EXCEPT !.fdc = c]
<1>1. Registers(c)
  BY CollectedIsTyped DEF WorldTyped
<1>2. Len(c.cmd) \in Nat \ {0} /\ c.needed = 1 + ParamCount(c.cmd[1])
  BY CollectedHolds
<1>3. WriteData(w, ins, v) = IF Complete(x.fdc) THEN Execute(x, ins) ELSE x
  BY DEF WriteData
<1> HIDE DEF c
<1>4. WorldTyped(x) /\ x.fdc = c
  BY <1>1, OnlyRegistersChange
<1> HIDE DEF x
<1>5. Complete(c) => Executable(c)
  BY <1>1, <1>2 DEF Complete, Executable
<1>6. QED
  BY <1>3, <1>4, <1>5, ExecuteIsTyped

\* A write to the DOR keeps the types.
LEMMA WriteDORIsTyped ==
  ASSUME NEW f, Registers(f), NEW v \in Byte
  PROVE  Registers(WriteDOR(f, v))
<1> DEFINE a == [f EXCEPT !.dor = v]
           b == [a EXCEPT !.phase = 0]
           c == [b EXCEPT !.resIdx = 0]
           d == [c EXCEPT !.st0 = 192]
           e == [d EXCEPT !.intPending = TRUE]
<1>1. f \in FDCState /\ f.result \in Seq(Byte) /\ Len(f.result) \in Nat /\ Len(f.result) <= 7
  <2>1. f \in FDCState /\ f.result \in Seq(Byte) /\ Len(f.result) <= 7
    BY DEF Registers, FDCState
  <2>2. QED
    BY <2>1
<1>2. 0 \in 0 .. 2 /\ 0 \in 0 .. 7 /\ 192 \in Byte /\ TRUE \in BOOLEAN
  BY DEF Byte
<1>3. a \in FDCState /\ SameResult(a, f)
  BY <1>1, RegisterChanges DEF FDCState, SameResult
<1>4. CASE ~LeavesReset(f, v)
  <2>1. WriteDOR(f, v) = a
    BY <1>4 DEF WriteDOR
  <2> HIDE DEF a
  <2>2. QED
    BY <1>3, <2>1 DEF Registers, SameResult
<1>5. CASE LeavesReset(f, v)
  <2>1. WriteDOR(f, v) = e
    BY <1>5 DEF WriteDOR
  <2> HIDE DEF a
  <2>2. b \in FDCState /\ b.result = a.result
    BY <1>2, <1>3, RegisterChanges DEF FDCState
  <2> HIDE DEF b
  <2>3. c \in FDCState /\ c.result = b.result /\ c.resIdx = 0
    <3>1. c \in FDCState
      BY <1>2, <2>2, RegisterChanges, Zenon
    <3>2. QED
      BY <2>2, <3>1 DEF FDCState
  <2> HIDE DEF c
  <2>4. d \in FDCState /\ SameResult(d, c)
    <3>1. c \in FDCState
      BY <2>3
    <3>2. d \in FDCState
      <4>1. \A x \in Byte : [c EXCEPT !.st0 = x] \in FDCState
        BY <3>1, RegisterChanges, Zenon
      <4>2. QED
        BY <1>2, <4>1
    <3>3. d.result = c.result /\ d.resIdx = c.resIdx
      BY <3>1 DEF FDCState
    <3>4. QED
      BY <3>2, <3>3 DEF SameResult
  <2> HIDE DEF d
  <2>5. e \in FDCState /\ SameResult(e, d)
    <3>1. e \in FDCState
      BY <1>2, <2>4, RegisterChanges, Zenon
    <3>2. d \in FDCState
      BY <2>4
    <3>3. e.result = d.result /\ e.resIdx = d.resIdx
      BY <3>2 DEF FDCState
    <3>4. QED
      BY <3>1, <3>3 DEF SameResult
  <2> HIDE DEF e
  <2>6. e.result = f.result /\ e.resIdx = 0
    BY <1>3, <2>2, <2>3, <2>4, <2>5 DEF SameResult
  <2>7. QED
    BY <1>1, <2>1, <2>5, <2>6 DEF Registers
<1>6. QED
  BY <1>4, <1>5

\* Reading a result keeps the types.
LEMMA ReadDataIsTyped ==
  ASSUME NEW f, Registers(f)
  PROVE  Registers(ReadData(f))
<1> DEFINE p == IF f.resIdx + 1 >= Len(f.result) THEN 0 ELSE 2
           a == [f EXCEPT !.resIdx = f.resIdx + 1]
           b == [a EXCEPT !.phase = p]
<1>1. /\ f \in FDCState /\ f.resIdx \in Nat /\ Len(f.result) \in Nat
      /\ f.resIdx <= Len(f.result) /\ Len(f.result) <= 7
  <2>1. /\ f \in FDCState /\ f.resIdx \in Nat /\ f.result \in Seq(Byte)
        /\ f.resIdx <= Len(f.result) /\ Len(f.result) <= 7
    BY DEF Registers, FDCState
  <2>2. QED
    BY <2>1
<1>2. CASE ~ToHost(f) \/ Exhausted(f)
  BY <1>2 DEF ReadData
<1>3. CASE ~(~ToHost(f) \/ Exhausted(f))
  <2>1. ReadData(f) = b
    BY <1>3 DEF ReadData
  <2>2. f.resIdx + 1 <= Len(f.result)
    BY <1>1, <1>3 DEF Exhausted
  <2>3. f.resIdx + 1 \in 0 .. 7 /\ p \in 0 .. 2
    BY <1>1, <2>2
  <2>4. a \in FDCState /\ a.result = f.result /\ a.resIdx = f.resIdx + 1
    BY <1>1, <2>3, RegisterChanges DEF FDCState
  <2> HIDE DEF a, p
  <2>5. b \in FDCState /\ SameResult(b, a)
    BY <2>3, <2>4, RegisterChanges DEF FDCState, SameResult
  <2> HIDE DEF b
  <2>6. QED
    BY <1>1, <2>1, <2>2, <2>4, <2>5 DEF Registers, SameResult
<1>4. QED
  BY <1>2, <1>3

\* At first the disk and the memory are as they were loaded.
LEMMA InitDataInv == Init => DataInv
<1> SUFFICES ASSUME Init PROVE DataInv
  OBVIOUS
<1>1. /\ fdc = NewFDC /\ dma = NewDMA /\ mem = InitialMem /\ image = InitialImage
      /\ inserted \in BOOLEAN
  BY DEF Init
<1>2. Registers(NewFDC)
  <2>1. <<>> \in Seq(Byte) /\ Len(<<>>) = 0
    OBVIOUS
  <2>2. NewFDC \in FDCState
    BY <2>1 DEF NewFDC, FDCState, Byte
  <2>3. NewFDC.result = <<>> /\ NewFDC.resIdx = 0
    BY DEF NewFDC
  <2>4. QED
    BY <2>1, <2>2, <2>3 DEF Registers
<1>3. NewDMA \in DMAState
  <2>1. 0 \in Digit /\ 0 \in Word
    BY RadixAssumption, TurnIsPositive DEF Digit
  <2>2. NewChannel \in ChannelState
    BY <2>1 DEF NewChannel, ChannelState, Byte
  <2>3. QED
    BY <2>2 DEF NewDMA, DMAState
<1>4. InitialMem \in MemoryState
  BY DriverAssumption DEF MemoryState
<1>5. InitialImage \in ImageState
  BY DriverAssumption DEF ImageState
<1>6. QED
  BY <1>1, <1>2, <1>3, <1>4, <1>5 DEF DataInv

\* Every step keeps the types.
LEMMA StepDataInv == IInv /\ DataInv /\ [Next]_vars => DataInv'
<1> SUFFICES ASSUME IInv, DataInv, [Next]_vars PROVE DataInv'
  OBVIOUS
<1>1. /\ Registers(fdc) /\ dma \in DMAState /\ mem \in MemoryState /\ image \in ImageState
      /\ inserted \in BOOLEAN
  BY DEF DataInv
<1>2. ASSUME Registers(fdc'), dma' \in DMAState, mem' \in MemoryState, image' \in ImageState,
             inserted' \in BOOLEAN
      PROVE  DataInv'
  BY <1>2 DEF DataInv, Registers, FDCState, DMAState, MemoryState, ImageState
<1>3. ASSUME NEW v \in ResetBytes, Reset(v) PROVE DataInv'
  <2>1. fdc' = WriteDOR(fdc, v) /\ UNCHANGED <<dma, mem, image, inserted>> /\ v \in Byte
    BY <1>3, DriverAssumption DEF Reset
  <2>2. Registers(fdc')
    BY <1>1, <2>1, WriteDORIsTyped
  <2>3. QED
    BY <1>1, <1>2, <2>1, <2>2
<1>4. ASSUME NEW s \in Setups, SetupChannel(s) PROVE DataInv'
  <2>1. dma' = Programmed(dma, s) /\ UNCHANGED <<fdc, mem, image, inserted>>
    BY <1>4 DEF SetupChannel
  <2>2. dma' \in DMAState
    BY <1>1, <2>1, ProgrammedIsTyped
  <2>3. QED
    BY <1>1, <1>2, <2>1, <2>2
<1>5. ASSUME NEW v \in NextBytes, SendByte(v) PROVE DataInv'
  <2> DEFINE w == WriteData(World, inserted, v)
  <2>1. /\ fdc' = w.fdc /\ dma' = w.dma /\ mem' = w.mem /\ image' = w.image
        /\ inserted' = inserted
    BY <1>5 DEF SendByte
  <2>2. World.fdc = fdc /\ WorldTyped(World)
    BY <1>1 DEF World, WorldTyped, Registers
  <2>3. Shape(fdc) /\ PhaseHolds(fdc) /\ fdc.phase # 2 /\ v \in Byte
    BY <1>5, NextBytesAreBytes DEF IInv, SendByte, ToHost
  <2>4. WorldTyped(w)
    BY <1>1, <2>2, <2>3, WriteDataIsTyped
  <2> HIDE DEF w
  <2>5. /\ Registers(w.fdc) /\ w.dma \in DMAState /\ w.mem \in MemoryState
        /\ w.image \in ImageState
    BY <2>4 DEF WorldTyped
  <2>6. QED
    BY <1>1, <1>2, <2>1, <2>5
<1>6. CASE ReadResult
  <2>1. fdc' = ReadData(fdc) /\ UNCHANGED <<dma, mem, image, inserted>>
    BY <1>6 DEF ReadResult
  <2>2. Registers(fdc')
    BY <1>1, <2>1, ReadDataIsTyped
  <2>3. QED
    BY <1>1, <1>2, <2>1, <2>2
<1>7. CASE UNCHANGED vars
  BY <1>1, <1>2, <1>7 DEF vars
<1>8. QED
  BY <1>3, <1>4, <1>5, <1>6, <1>7 DEF Next, StartCommand, SendParameter

\* The types hold in every state.
THEOREM DataInvariance == Spec => []DataInv
<1>1. Init => DataInv
  BY InitDataInv
<1>2. IInv /\ DataInv /\ [Next]_vars => DataInv'
  BY StepDataInv
<1>3. QED
  BY <1>1, <1>2, Invariance, PTL DEF Spec

\* Every variable has its type: a result has no more than seven bytes, and
\* nothing a command is given drives a register, a byte of memory or a byte of
\* the disk out of its range (fdc.go:76-260, dma.go:164-209).
THEOREM TypeCorrect == Spec => []TypeOK
<1>1. IInv /\ DataInv => TypeOK
  BY DEF IInv, DataInv, TypeOK, Registers, DMAState, MemoryState, ImageState
<1>2. QED
  BY <1>1, Invariance, DataInvariance, PTL

-----------------------------------------------------------------------------
(***************************************************************************)
(* The step that executes a data command.                                  *)
(***************************************************************************)

\* The state a command f finds.
Given(f) == [fdc |-> f, dma |-> dma, mem |-> mem, image |-> image]

\* The step executes the data command f.
Performs(f, op) ==
  /\ Executable(f) /\ Opcode(f.cmd[1]) = op
  /\ fdc' = Execute(Given(f), inserted).fdc /\ dma' = Execute(Given(f), inserted).dma
  /\ mem' = Execute(Given(f), inserted).mem /\ image' = Execute(Given(f), inserted).image

\* Only the data port completes a command.
LEMMA OnlyDataPortExecutes ==
  ASSUME IInv, DataInv, [Next]_vars, NEW op, Executes(op)
  PROVE  \E f : Performs(f, op)
<1>1. /\ Registers(fdc) /\ fdc \in FDCState /\ fdc.cmd \in Seq(Byte) /\ Len(fdc.cmd) \in Nat
      /\ Shape(fdc) /\ PhaseHolds(fdc)
  BY DEF IInv, DataInv, Registers, FDCState
<1>2. /\ fdc.phase = 1 /\ Opcode(fdc.cmd[1]) = op
      /\ Len(fdc.cmd) < fdc.needed /\ Len(fdc'.cmd) = fdc.needed
  BY DEF Executes
<1>3. fdc'.cmd # fdc.cmd
  BY <1>1, <1>2
<1>4. ASSUME NEW v, Reset(v) PROVE fdc'.cmd = fdc.cmd
  BY <1>1, <1>4 DEF Reset, WriteDOR, FDCState
<1>5. CASE ReadResult
  <2>1. fdc'.cmd = fdc.cmd
    BY <1>1, <1>5 DEF ReadResult, ReadData, FDCState
  <2>2. QED
    BY <1>3, <2>1
<1>6. ASSUME NEW s, SetupChannel(s) PROVE fdc'.cmd = fdc.cmd
  BY <1>6 DEF SetupChannel
<1>7. ASSUME NEW v \in NextBytes, SendByte(v) PROVE \E f : Performs(f, op)
  <2> DEFINE c == Collected(fdc, v)
             x == [World EXCEPT !.fdc = c]
             w == WriteData(World, inserted, v)
  <2>1. v \in Byte
    BY NextBytesAreBytes
  <2>2. fdc' = w.fdc /\ dma' = w.dma /\ mem' = w.mem /\ image' = w.image
    BY <1>7 DEF SendByte
  <2>3. w = IF Complete(x.fdc) THEN Execute(x, inserted) ELSE x
    BY DEF WriteData, World
  <2>4. x = Given(c)
    BY DEF World, Given
  <2>5. /\ c.cmd = Append(fdc.cmd, v) /\ c.needed = fdc.needed /\ c.phase = 1
        /\ c.cmd[1] = fdc.cmd[1]
    <3>1. Len(fdc.cmd) \in Nat \ {0}
      BY <1>1, <1>2 DEF PhaseHolds
    <3>2. QED
      BY <1>1, <1>2, <2>1, <3>1, OtherByte
  <2>6. Registers(c)
    BY <1>1, <1>2, <2>1, CollectedIsTyped
  <2>7. Len(c.cmd) \in Nat \ {0} /\ c.needed = 1 + ParamCount(c.cmd[1])
    BY <1>1, <1>2, <2>1, CollectedHolds
  <2> HIDE DEF c
  <2>8. x.fdc = c
    BY <2>4 DEF Given
  <2> HIDE DEF x, w
  <2>9. CASE Complete(c)
    <3>1. Executable(c)
      BY <2>6, <2>7, <2>9 DEF Complete, Executable
    <3>2. w = Execute(Given(c), inserted)
      BY <2>3, <2>4, <2>8, <2>9
    <3>3. Opcode(c.cmd[1]) = op
      BY <1>2, <2>5
    <3>4. Performs(c, op)
      BY <2>2, <3>1, <3>2, <3>3 DEF Performs
    <3>5. QED
      BY <3>4
  <2>10. CASE ~Complete(c)
    <3>1. fdc' = c
      BY <2>2, <2>3, <2>8, <2>10
    <3>2. ~(Len(c.cmd) >= c.needed)
      BY <2>5, <2>10 DEF Complete
    <3>3. QED
      BY <1>2, <2>5, <2>7, <3>1, <3>2
  <2>11. QED
    BY <2>9, <2>10
<1>8. CASE UNCHANGED vars
  BY <1>3, <1>8 DEF vars
<1>9. QED
  BY <1>3, <1>4, <1>5, <1>6, <1>7, <1>8 DEF Next, StartCommand, SendParameter

\* What the result bytes of a data command say: the upper bits of ST0 whether
\* it ended normally, the sixth byte where it stopped.
LEMMA TerminateSays ==
  ASSUME NEW f, Executable(f), Opcode(f.cmd[1]) \in {5, 6}, NEW ok \in BOOLEAN, NEW r
  PROVE  LET g == Terminate(f, ok, r) IN
         /\ g.cmd = f.cmd /\ g.result[6] = r % 256
         /\ g.result[1] \div 64 = 0 <=> ok
<1> DEFINE st0 == DriveOf(f) + 4 * HeadOf(f) + IF ok THEN 0 ELSE 64
           st1 == IF ok THEN 0 ELSE 4
           a == [f EXCEPT !.st0 = st0]
           b == [a EXCEPT !.pcn[DriveOf(f)] = C(f)]
           c == [b EXCEPT !.intPending = TRUE]
           bytes == <<st0, st1, 0, C(f), H(f), r % 256, N(f)>>
           x == [c EXCEPT !.result = bytes]
           y == [x EXCEPT !.resIdx = 0]
           z == [y EXCEPT !.phase = 2]
           g == Terminate(f, ok, r)
<1>1. g = z
  BY DEF Terminate, GiveResult
<1>2. /\ DriveOf(f) \in Drive /\ HeadOf(f) \in 0 .. 1
  BY ParametersAreThere
<1>3. st0 \div 64 = 0 <=> ok
  BY <1>2 DEF Drive
<1>4. bytes[1] = st0 /\ bytes[6] = r % 256
  OBVIOUS
<1>5. f \in FDCState
  BY DEF Executable, Registers
<1> HIDE DEF st0, st1, bytes
<1>6. DOMAIN f = {"dor", "phase", "cmd", "needed", "result", "resIdx", "pcn", "st0", "intPending"}
  BY <1>5 DEF FDCState
<1>7. z.result = bytes /\ z.cmd = f.cmd
  BY <1>6
<1> HIDE DEF z, g
<1>8. g.cmd = f.cmd /\ g.result[6] = r % 256 /\ g.result[1] = st0
  BY <1>1, <1>4, <1>7
<1>9. QED
  BY <1>3, <1>8 DEF g
\* What the result bytes say of a data command: one that ended normally had a
\* disk and all its sectors, and reports those it moved.
LEMMA ResultTells ==
  ASSUME DataInv, NEW f, NEW op \in {5, 6}, Performs(f, op)
  PROVE  /\ DataCommand(f, dma) /\ Params = f.cmd
         /\ ~inserted => ~Normal /\ UNCHANGED <<dma, mem, image>>
         /\ Normal => /\ inserted /\ ~RunsOut(f, dma)
                      /\ fdc'.result[6] = R(f) + SectorsMoved(f, dma)
                      /\ ReportedSectors = SectorsMoved(f, dma)
         /\ inserted /\ op = 6 => /\ dma' = Advance(dma, 2, BytesMoved(f, dma))
                                  /\ mem' = ReadSectors(Given(f)).mem /\ image' = image
         /\ inserted /\ op = 5 => mem' = mem /\ image' = WriteSectors(Given(f)).image
<1> DEFINE w == Given(f)
           k == SectorsMoved(f, dma)
           good == ~RunsOut(f, dma)
           next == NextR(f, dma)
<1>1. w.fdc = f /\ w.dma = dma /\ w.mem = mem /\ w.image = image
  BY DEF Given
<1>2. Executable(f) /\ Opcode(f.cmd[1]) = op
  BY DEF Performs
<1>3. DataCommand(f, dma)
  BY <1>2, ParametersAreThere DEF DataCommand, DataInv
<1>4. /\ fdc' = Execute(w, inserted).fdc /\ dma' = Execute(w, inserted).dma
      /\ mem' = Execute(w, inserted).mem /\ image' = Execute(w, inserted).image
  BY DEF Performs
<1>5. inserted \in BOOLEAN
  BY DEF DataInv
<1>6. CASE ~inserted
  <2>1. Execute(w, inserted) = [w EXCEPT !.fdc = Terminate(f, FALSE, R(f))]
    BY <1>1, <1>2, <1>6 DEF Execute, NoDisk
  <2>2. fdc' = Terminate(f, FALSE, R(f)) /\ UNCHANGED <<dma, mem, image>>
    BY <1>4, <2>1 DEF Given
  <2>3. fdc'.cmd = f.cmd /\ ~(fdc'.result[1] \div 64 = 0)
    <3> DEFINE ok == FALSE
    <3>1. ok \in BOOLEAN /\ ~ok
      OBVIOUS
    <3> HIDE DEF ok
    <3>2. /\ Terminate(f, ok, R(f)).cmd = f.cmd
          /\ ~(Terminate(f, ok, R(f)).result[1] \div 64 = 0)
      BY <1>2, <3>1, TerminateSays
    <3>3. fdc' = Terminate(f, ok, R(f))
      BY <2>2 DEF ok
    <3>4. QED
      BY <3>2, <3>3
  <2>4. ~Normal /\ Params = f.cmd
    BY <2>3 DEF Normal, Params
  <2>5. QED
    BY <1>3, <1>6, <2>2, <2>4, Zenon
<1>7. CASE inserted
  <2>1. good \in BOOLEAN /\ k \in Nat
        /\ (good => k > 0 /\ R(f) + k <= Sectors + 1)
    BY <1>3, Moved
  <2>2. R(f) \in Nat /\ Sectors \in 1 .. 254
    BY <1>3, Sizes DEF DataCommand, Byte
  <2>3. good => next = R(f) + k
    BY <2>1 DEF NextR
  <2> HIDE DEF k, good, next
  <2>4. ASSUME fdc' = Terminate(f, good, next)
        PROVE  /\ Params = f.cmd
               /\ Normal => /\ good
                            /\ fdc'.result[6] = R(f) + k
                            /\ ReportedSectors = k
    <3>1. fdc'.cmd = f.cmd /\ fdc'.result[6] = next % 256 /\ (fdc'.result[1] \div 64 = 0 <=> good)
      BY <1>2, <2>1, <2>4, TerminateSays
    <3>2. ASSUME good PROVE next % 256 = R(f) + k /\ (R(f) + k) - R(f) = k
      <4>1. R(f) + k \in 0 .. 255
        BY SMTT(30), <2>1, <2>2, <3>2
      <4>2. \A x \in 0 .. 255 : x % 256 = x
        OBVIOUS
      <4>3. (R(f) + k) % 256 = R(f) + k
        BY <4>1, <4>2, Zenon
      <4>4. QED
        BY <2>1, <2>2, <2>3, <3>2, <4>3
    <3>3. R(f) = fdc'.cmd[5]
      BY <3>1 DEF R
    <3>4. QED
      BY <3>1, <3>2, <3>3 DEF Normal, Params, ReportedSectors
  <2>5. CASE op = 6
    <3>1. Execute(w, inserted) = ReadSectors(w)
      BY <1>1, <1>2, <1>7, <2>5 DEF Execute
    <3>2. /\ ReadSectors(w).fdc = Terminate(f, good, next)
          /\ ReadSectors(w).dma = Advance(dma, 2, BytesMoved(f, dma))
          /\ ReadSectors(w).image = image
      BY <1>1 DEF ReadSectors, good, next
    <3>3. /\ fdc' = Terminate(f, good, next)
          /\ dma' = Advance(dma, 2, BytesMoved(f, dma))
          /\ mem' = ReadSectors(w).mem /\ image' = image
      BY <1>4, <3>1, <3>2
    <3>4. op # 5
      BY <2>5
    <3>5. QED
      BY <1>3, <1>7, <2>4, <3>3, <3>4, Zenon DEF good, k
  <2>6. CASE op = 5
    <3>1. Execute(w, inserted) = WriteSectors(w)
      BY <1>1, <1>2, <1>7, <2>6 DEF Execute
    <3>2. /\ WriteSectors(w).fdc = Terminate(f, good, next)
          /\ WriteSectors(w).mem = mem
      BY <1>1 DEF WriteSectors, good, next
    <3>3. /\ fdc' = Terminate(f, good, next)
          /\ mem' = mem /\ image' = WriteSectors(w).image
      BY <1>4, <3>1, <3>2
    <3>4. op # 6
      BY <2>6
    <3>5. QED
      BY <1>3, <1>7, <2>4, <3>3, <3>4, Zenon DEF good, k
  <2>7. QED
    BY <2>5, <2>6
<1>8. QED
  BY <1>5, <1>6, <1>7

\* A data command that has all its sectors moves the bytes it reports, cut at
\* the count of the channel.
LEMMA MovesWhatItReports ==
  ASSUME NEW f, NEW d, DataCommand(f, d), ~RunsOut(f, d)
  PROVE  LET k == SectorsMoved(f, d)
             b == k * SectorSize
             c == Channel(d).count
             n == BytesMoved(f, d)
         IN /\ k \in Nat \ {0} /\ b \in Nat \ {0} /\ c \in Nat /\ n \in Nat \ {0}
            /\ n = IF b < c + 1 THEN b ELSE c + 1
            /\ b > c \/ R(f) + k > EOT(f)
            /\ b - SectorSize <= c
<1> DEFINE k == SectorsMoved(f, d)
           b == k * SectorSize
           c == Channel(d).count
           n == BytesMoved(f, d)
<1>1. k = SectorsWanted(f, d) /\ k > 0
  BY Moved
<1>2. /\ k \in Nat \ {0} /\ b \in Nat
      /\ b - SectorSize < c + 1
      /\ b >= c + 1 \/ R(f) + k > EOT(f)
  BY <1>1, Wanted
<1>3. c \in Nat /\ SectorSize \in Nat \ {0}
  BY ChannelIsThere, Sizes DEF DataCommand
<1>4. n = IF b < c + 1 THEN b ELSE c + 1
  BY DEF BytesMoved, MinOf, Length
<1>5. b # 0
  BY <1>2, <1>3
<1> HIDE DEF b, c, n, k
<1>6. /\ k \in Nat \ {0} /\ b \in Nat \ {0} /\ c \in Nat /\ n \in Nat \ {0}
      /\ n = IF b < c + 1 THEN b ELSE c + 1
      /\ b > c \/ R(f) + k > EOT(f)
      /\ b - SectorSize <= c
  BY <1>2, <1>3, <1>4, <1>5
<1>7. QED
  BY <1>6 DEF b, c, n, k
-----------------------------------------------------------------------------
(***************************************************************************)
(* What a data command does, step by step.                                 *)
(***************************************************************************)

\* The step of a normal read: count and terminal-count bit say what it moved.
LEMMA StepAccounts == IInv /\ DataInv /\ [Next]_vars => Accounts
<1> SUFFICES ASSUME IInv, DataInv, [Next]_vars, Executes(6), Normal, 2 \notin dma.tcStatus
             PROVE  IF 2 \in dma'.tcStatus
                    THEN Channel(dma').count = WordSize - 1
                    ELSE Channel(dma).count - Channel(dma').count = Reported
  BY Zenon DEF Accounts
<1> DEFINE k == ReportedSectors
           b == k * SectorSize
           c == Channel(dma).count
           n == IF b < c + 1 THEN b ELSE c + 1
<1>1. PICK f : Performs(f, 6)
  BY OnlyDataPortExecutes
<1>2. /\ DataCommand(f, dma) /\ ~RunsOut(f, dma)
      /\ k = SectorsMoved(f, dma)
      /\ dma' = Advance(dma, 2, BytesMoved(f, dma))
  BY <1>1, ResultTells
<1>3. /\ b \in Nat \ {0} /\ c \in Nat
      /\ n \in Nat /\ n = BytesMoved(f, dma)
  BY <1>2, MovesWhatItReports
<1>4. dma \in DMAState
  BY DEF DataInv
<1>5. /\ Channel(dma').count = (c - n) % WordSize
      /\ 2 \in dma'.tcStatus <=> n > c
  BY <1>2, <1>3, <1>4, AdvanceCounts
<1>6. c \in Word /\ WordSize \in Nat \ {0}
  BY <1>4, ChannelIsThere, Sizes
<1>7. Reported = b
  BY DEF Reported
<1> HIDE DEF b, c
<1>8. CASE n > c
  <2>1. n = c + 1
    BY <1>3, <1>8
  <2>2. c - n = (-1) * WordSize + (WordSize - 1) /\ WordSize - 1 \in 0 .. WordSize - 1
    BY <1>3, <1>6, <2>1
  <2>3. (c - n) % WordSize = WordSize - 1
    BY <1>6, <2>2, Rest
  <2>4. QED
    BY <1>5, <1>8, <2>3
<1>9. CASE ~(n > c)
  <2>1. n = b /\ c - n \in 0 .. WordSize - 1
    BY <1>3, <1>6, <1>9 DEF Word
  <2>2. (c - n) % WordSize = c - b
    BY <1>6, <2>1, WithinTurn
  <2>3. c - (c - b) = b
    BY <1>3
  <2>4. QED
    BY <1>5, <1>7, <1>9, <2>2, <2>3 DEF c
<1>10. QED
  BY <1>8, <1>9

\* The count of channel 2 and its terminal-count bit tell the driver how much a
\* normal read moved, around the end of a word and for any length of a sector
\* (advance, dma.go:204-209; readWrite, fdc.go:199-260).
THEOREM CountsAccounted == Spec => CountAccountsForBytes
<1>1. IInv /\ DataInv /\ [Next]_vars => [Accounts]_vars
  BY StepAccounts
<1>2. QED
  BY <1>1, Invariance, DataInvariance, PTL DEF Spec, CountAccountsForBytes

\* A transfer within a word of memory puts one byte on each address.
LEMMA OneByteEach ==
  ASSUME NEW d \in DMAState, WithinPage(Channel(d)),
         NEW n \in Nat, n <= Channel(d).count + 1, NEW a \in Address
  PROVE  LET first == FirstAddress(Channel(d)) IN
         /\ first \in Nat
         /\ {i \in 0 .. n - 1 : Where(d, i) = a} =
              IF a \in first .. first + n - 1 THEN {a - first} ELSE {}
<1> DEFINE first == FirstAddress(Channel(d))
           L == {i \in 0 .. n - 1 : Where(d, i) = a}
           c == Channel(d).count
<1>1. c \in Nat /\ Channel(d).addr \in Nat
  BY ChannelIsThere
<1>2. \A i \in 0 .. c : Where(d, i) = first + i /\ first \in Nat
  BY WhereWithinWord DEF WithinPage
<1>3. 0 \in 0 .. c
  BY <1>1
<1>4. first \in Nat /\ a \in Nat
  BY <1>2, <1>3 DEF Address
<1> HIDE DEF first, c
<1>5. \A i \in 0 .. n - 1 : i \in Nat /\ Where(d, i) = first + i
  <2>1. \A i \in 0 .. n - 1 : i \in Nat /\ i \in 0 .. c
    BY <1>1 DEF c
  <2>2. QED
    BY <1>2, <2>1
<1>6. \A i : i \in L <=> i \in 0 .. n - 1 /\ first + i = a
  BY <1>5
<1>7. CASE a \in first .. first + n - 1
  <2>1. a - first \in 0 .. n - 1 /\ first + (a - first) = a
    BY <1>4, <1>7
  <2>2. \A i : i \in L <=> i = a - first
    BY <1>4, <1>6, <2>1
  <2> HIDE DEF L
  <2>3. L = {a - first}
    BY <2>2
  <2>4. QED
    BY <1>4, <1>7, <2>3 DEF L, first
<1>8. CASE a \notin first .. first + n - 1
  <2>1. \A i : i \notin L
    BY <1>4, <1>6, <1>8
  <2> HIDE DEF L
  <2>2. L = {}
    BY <2>1
  <2>3. QED
    BY <1>4, <1>8, <2>2 DEF L, first
<1>9. QED
  BY <1>7, <1>8
\* The ROMs are the ranges that were loaded.
LEMMA ROMIsTheROM ==
  ASSUME NEW m \in MemoryState, NEW a \in Address \ ROM
  PROVE  ~Bus!IsROM(m, a)
<1>1. m.rom = InitialMem.rom
  BY DEF MemoryState
<1>2. \A r \in InitialMem.rom : r.lo \in Nat /\ r.hi \in Nat
  <2>1. InitialMem.rom \subseteq [lo : Address, hi : Address]
    BY DriverAssumption
  <2>2. QED
    BY <2>1 DEF Address
<1>3. a \in Nat
  BY DEF Address
<1>4. QED
  BY <1>1, <1>2, <1>3 DEF ROM, Bus!IsROM

\* What a data command that ends normally does: sizes and places are those that
\* its parameters, its result and the channel tell.
LEMMA NormalTransfer ==
  ASSUME DataInv, NEW op \in {5, 6}, NEW f, Performs(f, op), Normal
  PROVE  LET ch == Channel(dma)
             from == Offset(Params[3], Params[4], Params[5])
         IN /\ inserted
            /\ LetThrough(ch) \in Nat \ {0} /\ LetThrough(ch) <= ch.count + 1
            /\ LetThrough(ch) = BytesMoved(f, dma)
            /\ from = Start(f) /\ from \in Nat
            /\ ReportedSectors >= 1
            /\ Reported > ch.count \/ fdc'.result[6] > Params[7]
            /\ ReportedSectors = 1 \/ Reported - SectorSize <= ch.count
<1> DEFINE ch == Channel(dma)
           from == Offset(Params[3], Params[4], Params[5])
           k == ReportedSectors
           b == k * SectorSize
           c == ch.count
<1>1. /\ DataCommand(f, dma) /\ ~RunsOut(f, dma) /\ inserted /\ Params = f.cmd
      /\ k = SectorsMoved(f, dma) /\ fdc'.result[6] = R(f) + SectorsMoved(f, dma)
  BY ResultTells
<1>2. /\ k \in Nat \ {0} /\ b \in Nat \ {0} /\ c \in Nat
      /\ BytesMoved(f, dma) \in Nat \ {0}
      /\ BytesMoved(f, dma) = IF b < c + 1 THEN b ELSE c + 1
      /\ b > c \/ fdc'.result[6] > EOT(f)
      /\ b - SectorSize <= c
  BY <1>1, MovesWhatItReports
<1>3. Reported = b /\ LetThrough(ch) = BytesMoved(f, dma)
  BY <1>2 DEF Reported, LetThrough
<1>4. EOT(f) = Params[7] /\ from = Start(f)
  BY <1>1 DEF EOT, Start, C, H, R
<1>5. BytesMoved(f, dma) <= c + 1 /\ Start(f) \in Nat
  BY <1>1, <1>2, MovedBytes
<1> HIDE DEF b, c, k, from, ch
<1>6. k >= 1
  BY <1>2
<1>7. QED
  BY <1>1, <1>2, <1>3, <1>4, <1>5, <1>6 DEF b, c, k, from, ch

\* The step of a normal read: memory has the sectors.
LEMMA StepDelivers == IInv /\ DataInv /\ [Next]_vars => Delivers
<1> DEFINE ch == Channel(dma)
           first == FirstAddress(ch)
           from == Offset(Params[3], Params[4], Params[5])
           n == LetThrough(ch)
<1> SUFFICES ASSUME IInv, DataInv, [Next]_vars, Executes(6), WithinPage(ch), Normal
             PROVE  /\ ReportedSectors >= 1
                    /\ Reported > ch.count \/ fdc'.result[6] > Params[7]
                    /\ ReportedSectors = 1 \/ Reported - SectorSize <= ch.count
                    /\ \A a \in Address \ ROM :
                         mem'.data[a] = IF a \in first .. first + n - 1
                                        THEN image[from + a - first] ELSE mem.data[a]
                    /\ UNCHANGED image
  BY Zenon DEF Delivers
<1>1. PICK f : Performs(f, 6)
  BY OnlyDataPortExecutes
<1>2. /\ inserted
      /\ n \in Nat \ {0} /\ n <= ch.count + 1
      /\ n = BytesMoved(f, dma)
      /\ from = Start(f) /\ from \in Nat
      /\ ReportedSectors >= 1
      /\ Reported > ch.count \/ fdc'.result[6] > Params[7]
      /\ ReportedSectors = 1 \/ Reported - SectorSize <= ch.count
  BY <1>1, NormalTransfer
<1>3. mem' = ReadSectors(Given(f)).mem /\ image' = image
  BY <1>1, <1>2, ResultTells
<1>4. dma \in DMAState /\ mem \in MemoryState
  BY DEF DataInv
<1>5. ASSUME NEW a \in Address \ ROM
      PROVE  mem'.data[a] = IF a \in first .. first + n - 1
                            THEN image[from + a - first] ELSE mem.data[a]
  <2> DEFINE L(x) == {i \in 0 .. n - 1 : Where(dma, i) = x}
             Last(x) == CHOOSE i \in L(x) : \A j \in L(x) : j <= i
             d == [x \in Address |->
                     IF L(x) = {} \/ Bus!IsROM(mem, x) THEN mem.data[x]
                     ELSE image[from + Last(x)]]
  <2>1. mem' = [mem EXCEPT !.data = d]
    BY <1>2, <1>3 DEF ReadSectors, Given
  <2>2. /\ first \in Nat
        /\ L(a) = IF a \in first .. first + n - 1 THEN {a - first} ELSE {}
    BY <1>2, <1>4, OneByteEach
  <2>3. ~Bus!IsROM(mem, a)
    BY <1>4, ROMIsTheROM
  <2> HIDE DEF L
  <2>4. mem'.data[a] = IF L(a) = {} THEN mem.data[a] ELSE image[from + Last(a)]
    <3>1. mem'.data = d
      BY <1>4, <2>1 DEF MemoryState
    <3>2. QED
      BY <2>3, <3>1
  <2>5. CASE a \in first .. first + n - 1
    <3>1. L(a) = {a - first} /\ a - first \in Int
      BY <2>2, <2>5
    <3>2. Last(a) = a - first
      BY <3>1
    <3>3. from + (a - first) = from + a - first
      BY <1>2, <2>2, <2>5
    <3>4. L(a) # {}
      BY <3>1
    <3> HIDE DEF Last
    <3>5. QED
      BY <2>4, <2>5, <3>2, <3>3, <3>4
  <2>6. CASE a \notin first .. first + n - 1
    BY <2>2, <2>4, <2>6
  <2>7. QED
    BY <2>5, <2>6
<1> HIDE DEF ch, first, from, n
<1>6. QED
  BY <1>2, <1>3, <1>5

\* A read that ends normally has left in memory the sectors that it reports, cut
\* at the count of channel 2, for every geometry and page size; and only the
\* count or EOT has stopped it (readWrite, fdc.go:199-260; TransferToMemory,
\* dma.go:164-179).
THEOREM ReadsDeliver == Spec => ReadDelivers
<1>1. IInv /\ DataInv /\ [Next]_vars => [Delivers]_vars
  BY StepDelivers
<1>2. QED
  BY <1>1, Invariance, DataInvariance, PTL DEF Spec, ReadDelivers

\* The step of a write: the disk has what memory had, and no sector of another
\* track is touched.
LEMMA StepStores == IInv /\ DataInv /\ [Next]_vars => Stores
<1> DEFINE ch == Channel(dma)
           first == FirstAddress(ch)
           from == Offset(Params[3], Params[4], Params[5])
           track == Offset(Params[3], Params[4], 1)
           n == LetThrough(ch)
<1> SUFFICES ASSUME IInv, DataInv, [Next]_vars, Executes(5), WithinPage(ch)
             PROVE  /\ UNCHANGED mem
                    /\ Normal => \A o \in Image :
                         image'[o] = IF o \in from .. from + n - 1
                                     THEN mem.data[first + o - from] ELSE image[o]
                    /\ ~Normal => \A o \in Image :
                         image'[o] # image[o] => o \in track .. track + Sectors * SectorSize - 1
  BY Zenon DEF Stores
<1>1. PICK f : Performs(f, 5)
  BY OnlyDataPortExecutes
<1> DEFINE moved == BytesMoved(f, dma)
           start == Start(f)
           stored == [o \in Image |->
                        IF moved > 0 /\ o \in start .. start + moved - 1
                        THEN Bus!Read8(mem, Where(dma, o - start)) ELSE image[o]]
<1>2. /\ DataCommand(f, dma) /\ Params = f.cmd
      /\ ~inserted => ~Normal /\ UNCHANGED <<dma, mem, image>>
      /\ inserted => mem' = mem /\ image' = WriteSectors(Given(f)).image
  BY <1>1, ResultTells
<1>3. dma \in DMAState /\ mem \in MemoryState /\ inserted \in BOOLEAN
  BY DEF DataInv
<1>4. WriteSectors(Given(f)).image = stored
  BY DEF WriteSectors, Given
<1>5. /\ moved \in Nat /\ moved <= ch.count + 1
      /\ moved > 0 => /\ start \in Nat /\ track \in Nat /\ Sectors * SectorSize \in Nat
                      /\ track <= start
                      /\ start + moved <= track + Sectors * SectorSize
  <2>1. track = Offset(C(f), H(f), 1)
    BY <1>2 DEF C, H
  <2>2. QED
    BY <1>2, <2>1, MovedBytes
<1> HIDE DEF ch, first, from, track, n, moved, start
<1>6. mem' = mem
  BY <1>2, <1>3
<1>7. ASSUME Normal, NEW o \in Image
      PROVE  image'[o] = IF o \in from .. from + n - 1
                         THEN mem.data[first + o - from] ELSE image[o]
  <2>1. inserted /\ n = moved /\ n \in Nat \ {0} /\ from = start /\ from \in Nat
    BY <1>1, <1>7, NormalTransfer DEF n, ch, moved, from, start
  <2>2. image' = stored
    BY <1>2, <1>4, <2>1
  <2>3. o \in Nat
    BY DEF Image
  <2>4. ASSUME o \in from .. from + n - 1
        PROVE  Bus!Read8(mem, Where(dma, o - start)) = mem.data[first + o - from]
    <3>1. o - from \in 0 .. ch.count
      <4>1. ch.count \in Nat
        BY <1>3, ChannelIsThere DEF ch
      <4>2. QED
        BY <1>5, <2>1, <2>3, <2>4, <4>1
    <3>2. /\ Where(dma, o - from) = first + (o - from) /\ first \in Nat
          /\ first + (o - from) \in Address
      BY <1>3, <3>1, WhereWithinWord DEF WithinPage, ch, first
    <3>3. first + (o - from) = first + o - from
      BY <2>1, <2>3, <3>2
    <3>4. \A x \in Address : x % MemSize = x
      BY Sizes, WithinTurn DEF Address
    <3>5. QED
      BY <2>1, <3>2, <3>3, <3>4 DEF Bus!Read8
  <2>5. QED
    BY <2>1, <2>2, <2>4
<1>8. ASSUME ~Normal, NEW o \in Image, image'[o] # image[o]
      PROVE  o \in track .. track + Sectors * SectorSize - 1
  <2>1. inserted
    BY <1>2, <1>3, <1>8
  <2>2. image'[o] = stored[o]
    BY <1>2, <1>4, <2>1
  <2>3. moved > 0 /\ o \in start .. start + moved - 1
    BY <1>8, <2>2
  <2> DEFINE size == Sectors * SectorSize
  <2>4. /\ start \in Nat /\ track \in Nat /\ size \in Nat
        /\ track <= start /\ start + moved <= track + size
    BY <1>5, <2>3
  <2> HIDE DEF size
  <2>5. o \in track .. track + size - 1
    BY <1>5, <2>3, <2>4
  <2>6. QED
    BY <2>5 DEF size
<1>9. QED
  BY <1>6, <1>7, <1>8, Zenon

\* A write leaves memory alone; one that ends normally has stored the bytes that
\* channel 2 delivered in the sectors it reports, and one that fails has changed
\* nothing outside its track, for every geometry and page size (readWrite,
\* fdc.go:229-234; WriteSector, floppy.go:76-83).
THEOREM WritesStore == Spec => WriteStores
<1>1. IInv /\ DataInv /\ [Next]_vars => [Stores]_vars
  BY StepStores
<1>2. QED
  BY <1>1, Invariance, DataInvariance, PTL DEF Spec, WriteStores
=============================================================================
