--------------------------------- MODULE PIC ---------------------------------
(***************************************************************************)
(* The 8259 interrupt controller, device/pic.go.                           *)
(*                                                                         *)
(* The chip is a record.  Each method of the Go type is an operator from   *)
(* the record (and the method's arguments) to the record it leaves; the    *)
(* actions below apply one method to the variable pic.  irr, imr and isr   *)
(* are the sets of the lines whose bit is 1.  Line 0 has the highest       *)
(* priority.                                                               *)
(*                                                                         *)
(* Reads (In8) return imr or irr and change nothing.                       *)
(***************************************************************************)
EXTENDS Naturals, Bits

CONSTANTS
  NumLines,     \* number of request lines (8 on the chip)
  CommandBytes, \* the bytes the host writes to port 0x20
  DataBytes     \* the bytes the host writes to port 0x21

ASSUME PICAssumption ==
  /\ NumLines \in 1 .. 8
  /\ CommandBytes \subseteq Byte
  /\ DataBytes \subseteq Byte

VARIABLE pic

Line == 0 .. NumLines - 1

\* What the next write to port 0x21 means: 2 = ICW2, 4 = ICW4, 0 = the mask.
InitSteps == {0, 2, 4}

PICState ==
  [irr : SUBSET Line, imr : SUBSET Line, isr : SUBSET Line, base : Byte,
   autoEOI : BOOLEAN, initStep : InitSteps, icw4Needed : BOOLEAN]

NewPIC ==
  [irr |-> {}, imr |-> Line, isr |-> {}, base |-> 0,
   autoEOI |-> FALSE, initStep |-> 0, icw4Needed |-> FALSE]

\* The highest-priority member of a set of lines, as a set of at most one line.
Highest(lines) == {l \in lines : \A k \in lines : l <= k}

(***************************************************************************)
(* Requests and their delivery.                                            *)
(***************************************************************************)
RaiseIRQ(p, line) == [p EXCEPT !.irr = @ \cup ({line} \cap Line)]

HighestPendingIgnoresService(p) ==      \* mutant: the in-service scan is lost
  Highest(p.irr \ p.imr)

\* The unmasked request of highest priority, if every line in service has a
\* strictly lower priority.
HighestPending(p) ==
  {l \in Highest(p.irr \ p.imr) : \A k \in p.isr : l < k}

Pending(p) == HighestPending(p) # {}

AcknowledgedLine(p) == CHOOSE l \in HighestPending(p) : TRUE

\* The INTA cycle.  Without a pending request the chip is left as it was.
Acknowledge(p) ==
  [p EXCEPT !.irr = @ \ HighestPending(p),
            !.isr = IF p.autoEOI THEN @ ELSE @ \cup HighestPending(p)]

\* The vector the INTA cycle returns.
AcknowledgeVector(p) == IF Pending(p) THEN p.base + AcknowledgedLine(p) ELSE p.base

(***************************************************************************)
(* Port 0x20: ICW1 and OCW2.  OCW3 is ignored by the code.                 *)
(***************************************************************************)
IsICW1(v) == Bit(v, 4)
IsOCW2(v) == ~Bit(v, 4) /\ ~Bit(v, 3)
NonSpecificEOI(v) == IsOCW2(v) /\ Bit(v, 5) /\ ~Bit(v, 6)
SpecificEOI(v) == IsOCW2(v) /\ Bit(v, 5) /\ Bit(v, 6)

BeginInitKeepsISR(p, v) ==              \* mutant: isr survives ICW1
  [p EXCEPT !.icw4Needed = Bit(v, 0), !.imr = {}, !.irr = {}, !.initStep = 2]

BeginInit(p, v) ==
  [p EXCEPT !.icw4Needed = Bit(v, 0),
            !.imr = {}, !.isr = {}, !.irr = {}, !.initStep = 2]

HandleOCW2EndsLowest(p, v) ==           \* mutant: scans the lines downwards
  [p EXCEPT !.isr =
     IF NonSpecificEOI(v) THEN {l \in @ : \E k \in @ : k > l}
     ELSE IF SpecificEOI(v) THEN @ \ {v % 8} ELSE @]

HandleOCW2SpecificOnly(p, v) ==         \* mutant: the non-specific EOI is not known
  [p EXCEPT !.isr = IF SpecificEOI(v) THEN @ \ {v % 8} ELSE @]

HandleOCW2(p, v) ==
  [p EXCEPT !.isr = CASE NonSpecificEOI(v) -> @ \ Highest(@)
                      [] SpecificEOI(v)    -> @ \ {v % 8}
                      [] OTHER             -> @]

WriteCommand(p, v) ==
  CASE IsICW1(v) -> BeginInit(p, v)
    [] IsOCW2(v) -> HandleOCW2(p, v)
    [] OTHER     -> p

(***************************************************************************)
(* Port 0x21: ICW2, ICW4 or the mask, according to initStep.               *)
(***************************************************************************)
SetBaseExpectsICW3(p, v) ==             \* mutant: an ICW3 is awaited after ICW2
  [p EXCEPT !.base = v - (v % 8), !.initStep = IF p.icw4Needed THEN 3 ELSE 0]

SetBase(p, v) ==
  [p EXCEPT !.base = v - (v % 8), !.initStep = IF p.icw4Needed THEN 4 ELSE 0]

WriteData(p, v) ==
  CASE p.initStep = 2 -> SetBase(p, v)
    [] p.initStep = 4 -> [p EXCEPT !.autoEOI = Bit(v, 1), !.initStep = 0]
    [] OTHER          -> [p EXCEPT !.imr = BitSet(v, NumLines)]

(***************************************************************************)
(* The chip under any sequence of calls.  The machine calls Acknowledge    *)
(* only when Pending holds (machine.go, Step).                             *)
(***************************************************************************)
Init == pic = NewPIC

Raise(line) == pic' = RaiseIRQ(pic, line)

INTA == Pending(pic) /\ pic' = Acknowledge(pic)

Command(v) == pic' = WriteCommand(pic, v)

Data(v) == pic' = WriteData(pic, v)

Next ==
  \/ \E line \in Line : Raise(line)
  \/ INTA
  \/ \E v \in CommandBytes : Command(v)
  \/ \E v \in DataBytes : Data(v)

Spec == Init /\ [][Next]_pic
=============================================================================
