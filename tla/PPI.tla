--------------------------------- MODULE PPI ---------------------------------
(***************************************************************************)
(* The 8255 with the keyboard behind it, device/ppi.go: pure operators on  *)
(* a record.  The control byte (port 0x63) is stored and never read; it is *)
(* left out.  A scan code is a positive number: 0 means none, as in the    *)
(* code.                                                                   *)
(***************************************************************************)
EXTENDS Naturals, Sequences, Bits

CONSTANT KbReloadDelay      \* kbReloadDelay: strokes between two codes (12000), positive

SelfTestPassed == 170       \* 0xAA, the answer to a keyboard reset

NewPPI(switches) ==
  [portB |-> 0, dip |-> switches, keyboardData |-> 0,
   kbQueue |-> <<>>, kbCurrent |-> 0, kbDelay |-> 0]

PB3(b) == Bit(b, 3)         \* which half of the switches port C shows
PB6(b) == Bit(b, 6)         \* keyboard clock
PB7(b) == Bit(b, 7)         \* keyboard cleared, switches on port A

Present(p, code) == [p EXCEPT !.kbCurrent = code, !.keyboardData = code]

\* Present the next queued code.  Its callers have raised IRQ1 with it.
AdvanceKey(p) == [Present(p, Head(p.kbQueue)) EXCEPT !.kbQueue = Tail(@)]

(***************************************************************************)
(* A key goes down or up.                                                  *)
(***************************************************************************)
PressRaisesInDelay(p) ==    \* mutant: the delay is not looked at
  p.kbCurrent = 0 /\ ~PB7(p.portB)
PressRaisesIRQ1(p) == p.kbCurrent = 0 /\ p.kbDelay = 0 /\ ~PB7(p.portB)

PressScancode(p, code) ==
  LET queued == [p EXCEPT !.kbQueue = Append(@, code)] IN
  IF PressRaisesIRQ1(p) THEN AdvanceKey(queued) ELSE queued

(***************************************************************************)
(* The transmission delay runs only while a code waits behind it.          *)
(***************************************************************************)
KeyWaitsOverwrites(p) ==      \* mutant: the code on port A is not waited for
  p.kbQueue # <<>>
KeyWaits(p) == p.kbCurrent = 0 /\ p.kbQueue # <<>>

TickRaisesWhenZero(p, n) ==   \* mutant: the delay must have run out before
  KeyWaits(p) /\ p.kbDelay = 0
TickRaisesIRQ1(p, n) == KeyWaits(p) /\ p.kbDelay <= n

TickRunsDown(p, n) ==       \* mutant: the delay runs out and nothing is presented
  IF KeyWaits(p) THEN [p EXCEPT !.kbDelay = IF @ > n THEN @ - n ELSE 0] ELSE p

Tick(p, n) ==
  IF TickRaisesIRQ1(p, n) THEN AdvanceKey([p EXCEPT !.kbDelay = 0])
  ELSE IF KeyWaits(p) THEN [p EXCEPT !.kbDelay = @ - n]
  ELSE p

(***************************************************************************)
(* Port 0x61.                                                              *)
(***************************************************************************)
ClearsKeyboard(p, v) == PB7(v) /\ ~PB7(p.portB)
ResetsKeyboard(p, v) == PB6(v) /\ ~PB6(p.portB)

ClearedWithoutDelay(p) ==   \* mutant: the delay is not started on the rising edge
  Present(p, 0)
Cleared(p) == [Present(p, 0) EXCEPT !.kbDelay = KbReloadDelay]

ResetKeyboardQuietly(p) ==  \* mutant: the answer is not put on port A
  [p EXCEPT !.kbCurrent = SelfTestPassed, !.kbQueue = <<>>]
ResetKeyboard(p) == [Present(p, SelfTestPassed) EXCEPT !.kbQueue = <<>>]

WritePortBResetFirst(p, v) ==   \* mutant: the two edges are handled in the other order
  LET reset == IF ResetsKeyboard(p, v) THEN ResetKeyboard(p) ELSE p
      after == IF ClearsKeyboard(p, v) THEN Cleared(reset) ELSE reset
  IN  [after EXCEPT !.portB = v]

\* Both edges may come with one write: the clear is handled first, so that the
\* answer of the reset is what stays on port A.
WritePortB(p, v) ==
  LET cleared == IF ClearsKeyboard(p, v) THEN Cleared(p) ELSE p
      after == IF ResetsKeyboard(p, v) THEN ResetKeyboard(cleared) ELSE cleared
  IN  [after EXCEPT !.portB = v]

In8(p, reg) ==
  CASE reg = 0 -> IF PB7(p.portB) THEN p.dip ELSE p.keyboardData
    [] reg = 1 -> p.portB
    [] reg = 2 -> IF PB3(p.portB) THEN p.dip \div 16 ELSE p.dip % 16
    [] reg = 3 -> 255
=============================================================================
