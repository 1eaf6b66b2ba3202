------------------------------ MODULE Keyboard ------------------------------
(***************************************************************************)
(* The keyboard interface, device/ppi.go, and the request line it drives,  *)
(* under any software: it may write any value to port B and take the       *)
(* interrupt at any moment, or never.                                      *)
(***************************************************************************)
EXTENDS PPI

CONSTANTS
  Codes,        \* the scan codes keys send
  PortBValues,  \* the bytes software writes to port 0x61
  Strokes,      \* the clock strokes a Tick may be called with
  Switches,     \* the DIP switches
  MaxQueue      \* bound of the model: codes waiting in the queue

ASSUME KeyboardAssumption ==
  /\ KbReloadDelay \in Nat \ {0}
  /\ Codes \subseteq 1 .. 255
  /\ Strokes \subseteq Nat \ {0}
  /\ PortBValues \subseteq 0 .. 255
  /\ Switches \in 0 .. 255

VARIABLES
  ppi,
  irq1,     \* the request line of the interrupt controller: raised, not taken
  rest      \* strokes since the keyboard was last cleared, at most KbReloadDelay

vars == <<ppi, irq1, rest>>

Init ==
  /\ ppi = NewPPI(Switches)
  /\ irq1 = FALSE
  /\ rest = KbReloadDelay

Rested(n) == IF rest + n < KbReloadDelay THEN rest + n ELSE KbReloadDelay

KeySends(code) ==
  /\ Len(ppi.kbQueue) < MaxQueue
  /\ ppi' = PressScancode(ppi, code)
  /\ irq1' = (irq1 \/ PressRaisesIRQ1(ppi))
  /\ UNCHANGED rest

Clock(n) ==
  /\ ppi' = Tick(ppi, n)
  /\ irq1' = (irq1 \/ TickRaisesIRQ1(ppi, n))
  /\ rest' = Rested(n)

SoftwareWrites(v) ==
  /\ ppi' = WritePortB(ppi, v)
  /\ irq1' = (irq1 \/ ResetsKeyboard(ppi, v))
  /\ rest' = IF ClearsKeyboard(ppi, v) THEN 0 ELSE rest

InterruptTaken ==
  /\ irq1
  /\ irq1' = FALSE
  /\ UNCHANGED <<ppi, rest>>

Next ==
  \/ \E code \in Codes : KeySends(code)
  \/ \E n \in Strokes : Clock(n)
  \/ \E v \in PortBValues : SoftwareWrites(v)
  \/ InterruptTaken

\* The machine ticks the keyboard at every step; nothing else is certain.
Spec == Init /\ [][Next]_vars /\ WF_vars(\E n \in Strokes : Clock(n))

-----------------------------------------------------------------------------
PPIState ==
  [portB : 0 .. 255, dip : 0 .. 255, keyboardData : 0 .. 255,
   kbQueue : Seq(Codes), kbCurrent : {0, SelfTestPassed} \cup Codes,
   kbDelay : 0 .. KbReloadDelay]

\* Every variable has its type.
TypeOK == ppi \in PPIState /\ irq1 \in BOOLEAN /\ rest \in 0 .. KbReloadDelay

\* The code on port A and those behind it.
InOrder == IF ppi.kbCurrent = 0 THEN ppi.kbQueue ELSE <<ppi.kbCurrent>> \o ppi.kbQueue

Queue == INSTANCE KeyQueue
           WITH SelfTest <- SelfTestPassed, queue <- InOrder,
                announced <- ppi.kbCurrent # 0, request <- irq1

\* Whatever software does, the keyboard is a queue: no code overtakes another,
\* is lost or is shown twice, and each gets exactly one IRQ1, when it appears on
\* port A (PressScancode, Tick and advanceKey, ppi.go:108-146; Out8,
\* ppi.go:70-97).
ImplementsKeyQueue == Queue!Spec

\* Software that reads port A with PB7 low finds the announced code, and 0 once
\* it has cleared it: never a code of before (In8, ppi.go:53-57; Out8,
\* ppi.go:82-86 and 90-97).
PortAShowsHead ==
  ~PB7(ppi.portB) =>
    In8(ppi, 0) = IF ppi.kbCurrent # 0 THEN Head(InOrder) ELSE 0

\* After software has cleared the keyboard, a key's code appears no sooner than
\* the transmission delay: however the strokes are grouped, however often port
\* B is written meanwhile, and whether the key went down before or after
\* (ppi.go:40-45, 82-86, 113-115 and 120-132).
CodesKeepTheirDistance ==
  [][ppi.kbCurrent = 0 /\ ppi'.kbCurrent # 0 /\ ~(PB6(ppi'.portB) /\ ~PB6(ppi.portB))
       => rest' = KbReloadDelay]_vars

Waiting == ppi.kbCurrent = 0 /\ ppi.kbQueue # <<>>

\* A key that waits is announced in the end, once software leaves port B alone:
\* the delay runs down and nothing else holds the code back (Tick,
\* ppi.go:118-132).
WaitingCodeComes ==
  <>[][ppi'.portB = ppi.portB]_vars => [](Waiting => <>~Waiting)

\* What ppi.go:12 says of PB7, which "abilita/azzera la tastiera", and
\* ppi.go:109 of PressScancode, which presents a code when the keyboard is
\* "abilitata": while PB7 is up no code appears, a reset apart.
NoCodeWhileDisabled ==
  [][PB7(ppi.portB) /\ ppi'.portB = ppi.portB /\ ppi.kbCurrent = 0 => ppi'.kbCurrent = 0]_vars
=============================================================================
