--------------------------- MODULE KeyboardProofs ---------------------------
(***************************************************************************)
(* The keyboard interface is a queue of codes, for every delay, every set  *)
(* of codes, every grouping of the clock and every software.  The          *)
(* inductive invariant says that port A shows the current code and that    *)
(* the delay covers what is left of the distance to the last clear.        *)
(***************************************************************************)
EXTENDS Keyboard, SequenceTheorems, TLAPS

LatchShowsCurrent == ppi.keyboardData = ppi.kbCurrent
DelayCoversRest == KbReloadDelay <= rest + ppi.kbDelay

IInv == TypeOK /\ LatchShowsCurrent /\ DelayCoversRest

-----------------------------------------------------------------------------
(***************************************************************************)
(* Sequences with a code in front.                                         *)
(***************************************************************************)

\* A code in front of a queue is its head, the queue its tail, and a code
\* appended to the queue is appended to the whole.
LEMMA Front ==
  ASSUME NEW S, NEW c \in S, NEW q \in Seq(S), NEW x \in S
  PROVE  /\ <<c>> \o q \in Seq(S)
         /\ <<c>> \o q # <<>>
         /\ Head(<<c>> \o q) = c
         /\ Tail(<<c>> \o q) = q
         /\ Append(<<c>> \o q, x) = <<c>> \o Append(q, x)
  OBVIOUS

\* A queue is its head in front of its tail.
LEMMA HeadThenTail ==
  ASSUME NEW S, NEW q \in Seq(S), q # <<>>
  PROVE  /\ Head(q) \in S
         /\ Tail(q) \in Seq(S)
         /\ q = <<Head(q)>> \o Tail(q)
  OBVIOUS

-----------------------------------------------------------------------------
(***************************************************************************)
(* The operations keep the interface in shape and do to the queue what the *)
(* abstract keyboard allows.                                               *)
(***************************************************************************)
OrderOf(p) == IF p.kbCurrent = 0 THEN p.kbQueue ELSE <<p.kbCurrent>> \o p.kbQueue

Shown == {0, SelfTestPassed} \cup Codes

\* A presented code is a number other than 0.
LEMMA CodesArePositive ==
  /\ 0 \notin Codes
  /\ SelfTestPassed \in Nat \ {0}
  /\ \A c \in Codes : c \in Nat /\ c # 0
  /\ \A c \in Shown : c \in 0 .. 255
  BY KeyboardAssumption DEF SelfTestPassed, Shown

\* Presenting a code changes what port A shows and nothing else.
LEMMA PresentShows ==
  ASSUME NEW p \in PPIState, NEW code \in Shown
  PROVE  LET b == Present(p, code) IN
         /\ b \in PPIState
         /\ b.kbCurrent = code /\ b.keyboardData = code
         /\ b.kbQueue = p.kbQueue /\ b.kbDelay = p.kbDelay /\ b.portB = p.portB
PROOF
<1>1. code \in 0 .. 255 /\ code \in {0, SelfTestPassed} \cup Codes
  BY CodesArePositive DEF Shown
<1> QED
  BY <1>1, ZenonT(60) DEF Present, PPIState

\* Only the queue changes.
LEMMA QueueChanges ==
  ASSUME NEW p \in PPIState, NEW q \in Seq(Codes)
  PROVE  LET b == [p EXCEPT !.kbQueue = q] IN
         /\ b \in PPIState
         /\ b.kbQueue = q
         /\ b.kbCurrent = p.kbCurrent /\ b.keyboardData = p.keyboardData
         /\ b.kbDelay = p.kbDelay /\ b.portB = p.portB
  BY DEF PPIState

\* Only the delay changes.
LEMMA DelayChanges ==
  ASSUME NEW p \in PPIState, NEW d \in 0 .. KbReloadDelay
  PROVE  LET b == [p EXCEPT !.kbDelay = d] IN
         /\ b \in PPIState
         /\ b.kbDelay = d
         /\ b.kbCurrent = p.kbCurrent /\ b.keyboardData = p.keyboardData
         /\ b.kbQueue = p.kbQueue /\ b.portB = p.portB
  BY DEF PPIState

\* Only port B changes.
LEMMA PortBChanges ==
  ASSUME NEW p \in PPIState, NEW v \in 0 .. 255
  PROVE  LET b == [p EXCEPT !.portB = v] IN
         /\ b \in PPIState
         /\ b.portB = v
         /\ b.kbCurrent = p.kbCurrent /\ b.keyboardData = p.keyboardData
         /\ b.kbQueue = p.kbQueue /\ b.kbDelay = p.kbDelay
  BY DEF PPIState

\* advanceKey presents the head of the queue and leaves the order as it was.
LEMMA AdvanceKeepsOrder ==
  ASSUME NEW p \in PPIState, p.kbCurrent = 0, p.kbQueue # <<>>
  PROVE  LET a == AdvanceKey(p) IN
         /\ a \in PPIState
         /\ a.kbCurrent \in Codes /\ a.keyboardData = a.kbCurrent
         /\ a.kbDelay = p.kbDelay /\ a.portB = p.portB
         /\ OrderOf(a) = p.kbQueue
PROOF
<1> DEFINE head == Head(p.kbQueue)
           tail == Tail(p.kbQueue)
           b == Present(p, head)
           a == AdvanceKey(p)
<1>1. p.kbQueue \in Seq(Codes)
  BY DEF PPIState
<1>2. head \in Codes /\ tail \in Seq(Codes) /\ p.kbQueue = <<head>> \o tail
  BY <1>1, HeadThenTail
<1>3. head \in Shown /\ head # 0
  BY <1>2, CodesArePositive DEF Shown
<1>4. /\ b \in PPIState
      /\ b.kbCurrent = head /\ b.keyboardData = head
      /\ b.kbQueue = p.kbQueue /\ b.kbDelay = p.kbDelay /\ b.portB = p.portB
  BY <1>3, PresentShows
<1>5. a = [b EXCEPT !.kbQueue = tail]
  BY <1>4 DEF AdvanceKey
<1> HIDE DEF head, tail, b, a
<1>6. /\ a \in PPIState
      /\ a.kbCurrent = head /\ a.keyboardData = head /\ a.kbQueue = tail
      /\ a.kbDelay = p.kbDelay /\ a.portB = p.portB
  BY <1>2, <1>4, <1>5, QueueChanges
<1>7. OrderOf(a) = p.kbQueue
  BY <1>2, <1>3, <1>6 DEF OrderOf
<1> QED
  BY <1>2, <1>6, <1>7 DEF a

\* A key adds its code at the end, announced at once or not.
LEMMA PressAppends ==
  ASSUME NEW p \in PPIState, NEW code \in Codes
  PROVE  LET a == PressScancode(p, code) IN
         /\ a \in PPIState
         /\ OrderOf(a) = Append(OrderOf(p), code)
         /\ a.kbDelay = p.kbDelay /\ a.portB = p.portB
         /\ PressRaisesIRQ1(p) =>
              p.kbCurrent = 0 /\ p.kbDelay = 0 /\ a.kbCurrent # 0 /\ a.keyboardData = a.kbCurrent
         /\ ~PressRaisesIRQ1(p) =>
              a.kbCurrent = p.kbCurrent /\ a.keyboardData = p.keyboardData
PROOF
<1> DEFINE queued == [p EXCEPT !.kbQueue = Append(@, code)]
           a == PressScancode(p, code)
<1>1. p.kbQueue \in Seq(Codes)
  BY DEF PPIState
<1>2. Append(p.kbQueue, code) \in Seq(Codes) /\ Append(p.kbQueue, code) # <<>>
  BY <1>1
<1>3. /\ queued \in PPIState
      /\ queued.kbQueue = Append(p.kbQueue, code)
      /\ queued.kbCurrent = p.kbCurrent /\ queued.keyboardData = p.keyboardData
      /\ queued.kbDelay = p.kbDelay /\ queued.portB = p.portB
  BY <1>2, QueueChanges
<1>4. a = IF PressRaisesIRQ1(p) THEN AdvanceKey(queued) ELSE queued
  BY DEF PressScancode
<1> HIDE DEF queued, a
<1>5. CASE PressRaisesIRQ1(p)
  <2>1. p.kbCurrent = 0 /\ p.kbDelay = 0
    BY <1>5 DEF PressRaisesIRQ1
  <2>2. /\ a \in PPIState
        /\ a.kbCurrent \in Codes /\ a.keyboardData = a.kbCurrent
        /\ a.kbDelay = p.kbDelay /\ a.portB = p.portB
        /\ OrderOf(a) = Append(p.kbQueue, code)
    BY <1>2, <1>3, <1>4, <1>5, <2>1, AdvanceKeepsOrder
  <2> QED
    BY <1>5, <2>1, <2>2, CodesArePositive DEF OrderOf, a
<1>6. CASE ~PressRaisesIRQ1(p)
  <2>1. a = queued
    BY <1>4, <1>6
  <2>2. OrderOf(a) = Append(OrderOf(p), code)
    <3>1. CASE p.kbCurrent = 0
      BY <1>3, <2>1, <3>1 DEF OrderOf
    <3>2. CASE p.kbCurrent # 0
      <4>1. p.kbCurrent \in Shown /\ p.kbQueue \in Seq(Shown) /\ code \in Shown
        BY <1>1 DEF PPIState, Shown
      <4>2. Append(<<p.kbCurrent>> \o p.kbQueue, code)
              = <<p.kbCurrent>> \o Append(p.kbQueue, code)
        BY <4>1, Front
      <4>3. OrderOf(p) = <<p.kbCurrent>> \o p.kbQueue
        BY <3>2 DEF OrderOf
      <4>4. OrderOf(a) = <<p.kbCurrent>> \o Append(p.kbQueue, code)
        BY <1>3, <2>1, <3>2 DEF OrderOf
      <4> QED
        BY <4>2, <4>3, <4>4
    <3> QED
      BY <3>1, <3>2
  <2> QED
    BY <1>3, <1>6, <2>1, <2>2 DEF a
<1> QED
  BY <1>5, <1>6

\* A tick changes the order of nothing; it announces the head of the queue only
\* when the strokes cover the delay.
LEMMA TickKeepsOrder ==
  ASSUME NEW p \in PPIState, NEW n \in Nat \ {0}
  PROVE  LET a == Tick(p, n) IN
         /\ a \in PPIState
         /\ OrderOf(a) = OrderOf(p)
         /\ a.portB = p.portB
         /\ TickRaisesIRQ1(p, n) =>
              /\ p.kbCurrent = 0 /\ p.kbQueue # <<>> /\ p.kbDelay <= n
              /\ a.kbCurrent # 0 /\ a.keyboardData = a.kbCurrent /\ a.kbDelay = 0
         /\ ~TickRaisesIRQ1(p, n) =>
              /\ a.kbCurrent = p.kbCurrent /\ a.keyboardData = p.keyboardData
              /\ p.kbDelay <= a.kbDelay + n
PROOF
<1> DEFINE a == Tick(p, n)
<1>1. p.kbDelay \in 0 .. KbReloadDelay /\ KbReloadDelay \in Nat
  BY KeyboardAssumption DEF PPIState
<1>2. CASE TickRaisesIRQ1(p, n)
  <2> DEFINE b == [p EXCEPT !.kbDelay = 0]
  <2>1. p.kbCurrent = 0 /\ p.kbQueue # <<>> /\ p.kbDelay <= n
    BY <1>2 DEF TickRaisesIRQ1, KeyWaits
  <2>2. 0 \in 0 .. KbReloadDelay
    BY <1>1
  <2>3. /\ b \in PPIState /\ b.kbDelay = 0
        /\ b.kbCurrent = p.kbCurrent /\ b.kbQueue = p.kbQueue /\ b.portB = p.portB
    BY <2>2, DelayChanges
  <2>4. a = AdvanceKey(b)
    BY <1>2 DEF Tick
  <2> HIDE DEF a, b
  <2>5. /\ a \in PPIState
        /\ a.kbCurrent \in Codes /\ a.keyboardData = a.kbCurrent
        /\ a.kbDelay = 0 /\ a.portB = p.portB
        /\ OrderOf(a) = p.kbQueue
    BY <2>1, <2>3, <2>4, AdvanceKeepsOrder
  <2> QED
    BY <1>2, <2>1, <2>5, CodesArePositive DEF OrderOf, a
<1>3. CASE ~TickRaisesIRQ1(p, n) /\ KeyWaits(p)
  <2>1. p.kbDelay - n \in 0 .. KbReloadDelay
    BY <1>1, <1>3 DEF TickRaisesIRQ1
  <2>2. a = [p EXCEPT !.kbDelay = p.kbDelay - n]
    BY <1>3 DEF Tick
  <2> HIDE DEF a
  <2>3. /\ a \in PPIState /\ a.kbDelay = p.kbDelay - n
        /\ a.kbCurrent = p.kbCurrent /\ a.keyboardData = p.keyboardData
        /\ a.kbQueue = p.kbQueue /\ a.portB = p.portB
    BY <2>1, <2>2, DelayChanges
  <2> QED
    BY <1>1, <1>3, <2>3 DEF OrderOf, a
<1>4. CASE ~TickRaisesIRQ1(p, n) /\ ~KeyWaits(p)
  <2>1. a = p
    BY <1>4 DEF Tick
  <2> QED
    BY <1>1, <1>4, <2>1
<1> QED
  BY <1>2, <1>3, <1>4

\* Raising PB7 takes the announced code away and starts the delay.
LEMMA ClearTakesTheHead ==
  ASSUME NEW p \in PPIState
  PROVE  LET a == Cleared(p) IN
         /\ a \in PPIState
         /\ a.kbCurrent = 0 /\ a.keyboardData = 0 /\ a.kbDelay = KbReloadDelay
         /\ OrderOf(a) = IF p.kbCurrent = 0 THEN OrderOf(p) ELSE Tail(OrderOf(p))
PROOF
<1> DEFINE b == Present(p, 0)
           a == Cleared(p)
<1>1. /\ b \in PPIState
      /\ b.kbCurrent = 0 /\ b.keyboardData = 0 /\ b.kbQueue = p.kbQueue
  BY PresentShows DEF Shown
<1>2. KbReloadDelay \in 0 .. KbReloadDelay
  BY KeyboardAssumption
<1>3. a = [b EXCEPT !.kbDelay = KbReloadDelay]
  BY DEF Cleared
<1> HIDE DEF a, b
<1>4. /\ a \in PPIState /\ a.kbDelay = KbReloadDelay
      /\ a.kbCurrent = 0 /\ a.keyboardData = 0 /\ a.kbQueue = p.kbQueue
  BY <1>1, <1>2, <1>3, DelayChanges
<1>5. CASE p.kbCurrent = 0
  BY <1>4, <1>5 DEF OrderOf, a
<1>6. CASE p.kbCurrent # 0
  <2>1. p.kbCurrent \in Shown /\ p.kbQueue \in Seq(Shown)
    BY DEF PPIState, Shown
  <2>2. Tail(<<p.kbCurrent>> \o p.kbQueue) = p.kbQueue
    BY <2>1, Front
  <2> QED
    BY <1>4, <1>6, <2>2 DEF OrderOf, a
<1> QED
  BY <1>5, <1>6

\* A reset leaves nothing but its answer.
LEMMA ResetLeavesTheAnswer ==
  ASSUME NEW p \in PPIState
  PROVE  LET a == ResetKeyboard(p) IN
         /\ a \in PPIState
         /\ a.kbCurrent = SelfTestPassed /\ a.keyboardData = SelfTestPassed
         /\ a.kbDelay = p.kbDelay
         /\ OrderOf(a) = <<SelfTestPassed>>
PROOF
<1> DEFINE b == Present(p, SelfTestPassed)
           a == ResetKeyboard(p)
<1>1. /\ b \in PPIState /\ b.kbDelay = p.kbDelay
      /\ b.kbCurrent = SelfTestPassed /\ b.keyboardData = SelfTestPassed
  BY PresentShows DEF Shown
<1>2. a = [b EXCEPT !.kbQueue = <<>>]
  BY DEF ResetKeyboard
<1>3. <<>> \in Seq(Codes)
  OBVIOUS
<1> HIDE DEF a, b
<1>4. /\ a \in PPIState /\ a.kbQueue = <<>> /\ a.kbDelay = p.kbDelay
      /\ a.kbCurrent = SelfTestPassed /\ a.keyboardData = SelfTestPassed
  BY <1>1, <1>2, <1>3, QueueChanges
<1>5. <<SelfTestPassed>> \o <<>> = <<SelfTestPassed>>
  OBVIOUS
<1> QED
  BY <1>4, <1>5, CodesArePositive DEF OrderOf, a

\* A write to port B clears, resets, does both in that order, or neither.
LEMMA WriteClearsOrResets ==
  ASSUME NEW p \in PPIState, NEW v \in 0 .. 255
  PROVE  LET a == WritePortB(p, v) IN
         /\ a \in PPIState /\ a.portB = v
         /\ ResetsKeyboard(p, v) => /\ a.kbCurrent = SelfTestPassed /\ a.kbCurrent # 0
                                    /\ a.keyboardData = a.kbCurrent
                                    /\ OrderOf(a) = <<SelfTestPassed>>
         /\ ~ResetsKeyboard(p, v) /\ ClearsKeyboard(p, v) =>
              /\ a.kbCurrent = 0 /\ a.keyboardData = 0
              /\ OrderOf(a) = IF p.kbCurrent = 0 THEN OrderOf(p) ELSE Tail(OrderOf(p))
         /\ ~ResetsKeyboard(p, v) /\ ~ClearsKeyboard(p, v) =>
              /\ a.kbCurrent = p.kbCurrent /\ a.keyboardData = p.keyboardData
              /\ OrderOf(a) = OrderOf(p)
         /\ ClearsKeyboard(p, v) => a.kbDelay = KbReloadDelay
         /\ ~ClearsKeyboard(p, v) => a.kbDelay = p.kbDelay
PROOF
<1> DEFINE cleared == IF ClearsKeyboard(p, v) THEN Cleared(p) ELSE p
           after == IF ResetsKeyboard(p, v) THEN ResetKeyboard(cleared) ELSE cleared
           a == WritePortB(p, v)
<1>1. a = [after EXCEPT !.portB = v]
  BY DEF WritePortB
<1>2. /\ cleared \in PPIState
      /\ ClearsKeyboard(p, v) =>
           /\ cleared.kbCurrent = 0 /\ cleared.keyboardData = 0
           /\ cleared.kbDelay = KbReloadDelay
           /\ OrderOf(cleared) = IF p.kbCurrent = 0 THEN OrderOf(p) ELSE Tail(OrderOf(p))
      /\ ~ClearsKeyboard(p, v) => cleared = p
  BY ClearTakesTheHead
<1> HIDE DEF cleared
<1>3. /\ after \in PPIState /\ after.kbDelay = cleared.kbDelay
      /\ ResetsKeyboard(p, v) =>
           /\ after.kbCurrent = SelfTestPassed /\ after.keyboardData = SelfTestPassed
           /\ OrderOf(after) = <<SelfTestPassed>>
      /\ ~ResetsKeyboard(p, v) => after = cleared
  BY <1>2, ResetLeavesTheAnswer
<1> HIDE DEF after, a
<1>4. /\ a \in PPIState /\ a.portB = v
      /\ a.kbCurrent = after.kbCurrent /\ a.keyboardData = after.keyboardData
      /\ a.kbQueue = after.kbQueue /\ a.kbDelay = after.kbDelay
  BY <1>1, <1>3, PortBChanges, ZenonT(60)
<1>5. OrderOf(a) = OrderOf(after)
  BY <1>4 DEF OrderOf
<1> QED
  BY <1>2, <1>3, <1>4, <1>5, CodesArePositive DEF a

-----------------------------------------------------------------------------
(***************************************************************************)
(* The inductive invariant.                                                *)
(***************************************************************************)

\* It holds at power on.
LEMMA InitIInv == Init => IInv
PROOF
<1> SUFFICES ASSUME Init PROVE IInv
  OBVIOUS
<1>1. <<>> \in Seq(Codes)
  OBVIOUS
<1>2. /\ ppi \in PPIState
      /\ ppi.keyboardData = 0 /\ ppi.kbCurrent = 0 /\ ppi.kbDelay = 0
  BY <1>1, KeyboardAssumption DEF Init, NewPPI, PPIState
<1>3. irq1 \in BOOLEAN /\ rest = KbReloadDelay /\ KbReloadDelay \in Nat
  BY KeyboardAssumption DEF Init
<1> QED
  BY <1>2, <1>3 DEF IInv, TypeOK, LatchShowsCurrent, DelayCoversRest

\* A key, the clock, the software and the interrupt keep it.
LEMMA StepIInv == IInv /\ [Next]_vars => IInv'
PROOF
<1> SUFFICES ASSUME IInv, [Next]_vars PROVE IInv'
  OBVIOUS
<1> USE DEF LatchShowsCurrent, DelayCoversRest
<1>1. /\ ppi \in PPIState /\ irq1 \in BOOLEAN /\ rest \in 0 .. KbReloadDelay
      /\ ppi.kbDelay \in 0 .. KbReloadDelay /\ KbReloadDelay \in Nat
  BY KeyboardAssumption DEF IInv, TypeOK, PPIState
<1>2. ASSUME NEW code \in Codes, KeySends(code) PROVE IInv'
  <2>1. /\ ppi' \in PPIState /\ ppi'.kbDelay = ppi.kbDelay
        /\ ppi'.keyboardData = ppi'.kbCurrent
    BY <1>1, <1>2, PressAppends DEF KeySends, IInv
  <2>2. irq1' \in BOOLEAN /\ rest' = rest
    BY <1>1, <1>2 DEF KeySends, PressRaisesIRQ1
  <2> QED
    BY <1>1, <2>1, <2>2 DEF IInv, TypeOK
<1>3. ASSUME NEW n \in Strokes, Clock(n) PROVE IInv'
  <2>1. n \in Nat \ {0}
    BY KeyboardAssumption
  <2>2. /\ ppi' \in PPIState
        /\ ppi'.keyboardData = ppi'.kbCurrent
        /\ TickRaisesIRQ1(ppi, n) => ppi.kbDelay <= n /\ ppi'.kbDelay = 0
        /\ ~TickRaisesIRQ1(ppi, n) => ppi.kbDelay <= ppi'.kbDelay + n
    BY <1>1, <1>3, <2>1, TickKeepsOrder DEF Clock, IInv
  <2>3. irq1' \in BOOLEAN
    BY <1>1, <1>3 DEF Clock, TickRaisesIRQ1
  <2>4. rest' = (IF rest + n < KbReloadDelay THEN rest + n ELSE KbReloadDelay)
    BY <1>3 DEF Clock, Rested
  <2>5. ppi'.kbDelay \in Nat
    BY <2>2 DEF PPIState
  <2>6. KbReloadDelay <= rest' + ppi'.kbDelay /\ rest' \in 0 .. KbReloadDelay
    BY <1>1, <2>1, <2>2, <2>4, <2>5 DEF IInv
  <2> QED
    BY <2>2, <2>3, <2>6 DEF IInv, TypeOK
<1>4. ASSUME NEW v \in PortBValues, SoftwareWrites(v) PROVE IInv'
  <2>1. v \in 0 .. 255
    BY KeyboardAssumption
  <2> DEFINE a == WritePortB(ppi, v)
  <2>2. ppi' = a
    BY <1>4 DEF SoftwareWrites
  <2>3. ppi.keyboardData = ppi.kbCurrent
    BY DEF IInv
  <2>4. /\ a \in PPIState
        /\ a.keyboardData = a.kbCurrent
        /\ ClearsKeyboard(ppi, v) => a.kbDelay = KbReloadDelay
        /\ ~ClearsKeyboard(ppi, v) => a.kbDelay = ppi.kbDelay
    <3>1. a \in PPIState
      BY <1>1, <2>1, WriteClearsOrResets
    <3>2. a.keyboardData = a.kbCurrent
      <4>1. CASE ResetsKeyboard(ppi, v)
        BY <1>1, <2>1, <4>1, WriteClearsOrResets
      <4>2. CASE ~ResetsKeyboard(ppi, v) /\ ClearsKeyboard(ppi, v)
        <5>1. a.kbCurrent = 0 /\ a.keyboardData = 0
          BY <1>1, <2>1, <4>2, WriteClearsOrResets
        <5> QED
          BY <5>1
      <4>3. CASE ~ResetsKeyboard(ppi, v) /\ ~ClearsKeyboard(ppi, v)
        BY <1>1, <2>1, <2>3, <4>3, WriteClearsOrResets
      <4> QED
        BY <4>1, <4>2, <4>3
    <3>3. /\ ClearsKeyboard(ppi, v) => a.kbDelay = KbReloadDelay
          /\ ~ClearsKeyboard(ppi, v) => a.kbDelay = ppi.kbDelay
      BY <1>1, <2>1, WriteClearsOrResets
    <3> QED
      BY <3>1, <3>2, <3>3
  <2>5. /\ ppi' \in PPIState
        /\ ppi'.keyboardData = ppi'.kbCurrent
        /\ ClearsKeyboard(ppi, v) => ppi'.kbDelay = KbReloadDelay
        /\ ~ClearsKeyboard(ppi, v) => ppi'.kbDelay = ppi.kbDelay
    BY <2>2, <2>4
  <2>6. irq1' \in BOOLEAN
    BY <1>1, <1>4 DEF SoftwareWrites, ResetsKeyboard
  <2>7. rest' = IF ClearsKeyboard(ppi, v) THEN 0 ELSE rest
    BY <1>4 DEF SoftwareWrites
  <2> QED
    BY <1>1, <2>5, <2>6, <2>7 DEF IInv, TypeOK
<1>5. CASE InterruptTaken
  BY <1>1, <1>5 DEF InterruptTaken, IInv, TypeOK
<1>6. CASE UNCHANGED vars
  BY <1>6 DEF vars, IInv, TypeOK
<1> QED
  BY <1>2, <1>3, <1>4, <1>5, <1>6 DEF Next

\* The inductive invariant holds for ever, whatever software does.
THEOREM Invariance == Spec => []IInv
  BY InitIInv, StepIInv, PTL DEF Spec

\* The registers keep their types, and the delay its bounds.
THEOREM TypeCorrect == Spec => []TypeOK
PROOF
<1>1. IInv => TypeOK
  BY DEF IInv
<1> QED
  BY <1>1, Invariance, PTL

\* Port A shows the announced code or 0.
THEOREM PortACorrect == Spec => []PortAShowsHead
PROOF
<1>1. IInv => PortAShowsHead
  <2> SUFFICES ASSUME IInv, ~PB7(ppi.portB)
               PROVE  In8(ppi, 0) = IF ppi.kbCurrent # 0 THEN Head(InOrder) ELSE 0
    BY DEF PortAShowsHead
  <2>1. ppi \in PPIState /\ ppi.keyboardData = ppi.kbCurrent
    BY DEF IInv, TypeOK, LatchShowsCurrent
  <2>2. In8(ppi, 0) = ppi.keyboardData
    BY DEF In8
  <2>3. CASE ppi.kbCurrent = 0
    BY <2>1, <2>2, <2>3
  <2>4. CASE ppi.kbCurrent # 0
    <3>1. ppi.kbCurrent \in Shown /\ ppi.kbQueue \in Seq(Shown)
      BY <2>1 DEF PPIState, Shown
    <3>2. Head(<<ppi.kbCurrent>> \o ppi.kbQueue) = ppi.kbCurrent
      BY <3>1, Front
    <3> QED
      BY <2>1, <2>2, <2>4, <3>2 DEF InOrder
  <2> QED
    BY <2>3, <2>4
<1> QED
  BY <1>1, Invariance, PTL

\* A code follows a clear after the whole delay.
THEOREM DistanceKept == Spec => CodesKeepTheirDistance
PROOF
<1>1. IInv /\ [Next]_vars =>
        [ppi.kbCurrent = 0 /\ ppi'.kbCurrent # 0 /\ ~(PB6(ppi'.portB) /\ ~PB6(ppi.portB))
           => rest' = KbReloadDelay]_vars
  <2> SUFFICES ASSUME IInv, Next, ppi.kbCurrent = 0, ppi'.kbCurrent # 0,
                      ~(PB6(ppi'.portB) /\ ~PB6(ppi.portB))
               PROVE  rest' = KbReloadDelay
    BY DEF vars
  <2>1. /\ ppi \in PPIState /\ rest \in 0 .. KbReloadDelay
        /\ ppi.kbDelay \in 0 .. KbReloadDelay /\ KbReloadDelay \in Nat
        /\ KbReloadDelay <= rest + ppi.kbDelay
    BY KeyboardAssumption DEF IInv, TypeOK, PPIState, DelayCoversRest
  <2>2. ASSUME NEW code \in Codes, KeySends(code) PROVE rest' = KbReloadDelay
    <3>1. ppi' = PressScancode(ppi, code) /\ rest' = rest
      BY <2>2 DEF KeySends
    <3>2. ppi.kbDelay = 0
      BY <2>1, <3>1, PressAppends
    <3> QED
      BY <2>1, <3>1, <3>2
  <2>3. ASSUME NEW n \in Strokes, Clock(n) PROVE rest' = KbReloadDelay
    <3>1. n \in Nat \ {0}
      BY KeyboardAssumption
    <3>2. ppi' = Tick(ppi, n) /\ rest' = Rested(n)
      BY <2>3 DEF Clock
    <3>3. ppi.kbDelay <= n
      BY <2>1, <3>1, <3>2, TickKeepsOrder
    <3> QED
      BY <2>1, <3>1, <3>2, <3>3 DEF Rested
  <2>4. ASSUME NEW v \in PortBValues, SoftwareWrites(v) PROVE rest' = KbReloadDelay
    <3>1. v \in 0 .. 255
      BY KeyboardAssumption
    <3>2. ppi' = WritePortB(ppi, v)
      BY <2>4 DEF SoftwareWrites
    <3>3. ResetsKeyboard(ppi, v)
      BY <2>1, <3>1, <3>2, WriteClearsOrResets
    <3>4. ppi'.portB = v
      BY <2>1, <3>1, <3>2, WriteClearsOrResets
    <3> QED
      BY <3>3, <3>4 DEF ResetsKeyboard
  <2>5. CASE InterruptTaken
    BY <2>5 DEF InterruptTaken
  <2> QED
    BY <2>2, <2>3, <2>4, <2>5 DEF Next
<1> QED
  BY <1>1, Invariance, PTL DEF Spec, CodesKeepTheirDistance

-----------------------------------------------------------------------------
(***************************************************************************)
(* The refinement: every step of the interface is a step of the queue.     *)
(***************************************************************************)

\* What is on port A and behind it is the abstract queue.
LEMMA SameOrder == InOrder = OrderOf(ppi) /\ InOrder' = OrderOf(ppi')
  BY DEF InOrder, OrderOf

\* The initial states map to the empty queue.
LEMMA InitMaps == Init => Queue!Init
PROOF
<1> SUFFICES ASSUME Init PROVE Queue!Init
  OBVIOUS
<1>1. ppi.kbCurrent = 0 /\ ppi.kbQueue = <<>> /\ irq1 = FALSE
  BY DEF Init, NewPPI
<1>2. InOrder = <<>>
  BY <1>1 DEF InOrder
<1> QED
  BY <1>1, <1>2 DEF Queue!Init

\* A key is Send, the clock Announce, port B Clear or Restart, the interrupt
\* TakeRequest; everything else stutters.
LEMMA StepMaps == IInv /\ [Next]_vars => [Queue!Next]_(Queue!vars)
PROOF
<1> SUFFICES ASSUME IInv, [Next]_vars PROVE [Queue!Next]_(Queue!vars)
  OBVIOUS
<1>1. ppi \in PPIState /\ irq1 \in BOOLEAN
  BY DEF IInv, TypeOK
<1>2. ASSUME NEW code \in Codes, KeySends(code) PROVE [Queue!Next]_(Queue!vars)
  <2>1. ppi' = PressScancode(ppi, code) /\ irq1' = (irq1 \/ PressRaisesIRQ1(ppi))
    BY <1>2 DEF KeySends
  <2>2. InOrder' = Append(InOrder, code)
    BY <1>1, <2>1, PressAppends, SameOrder
  <2>3. CASE PressRaisesIRQ1(ppi)
    <3>1. ppi.kbCurrent = 0 /\ ppi'.kbCurrent # 0
      BY <1>1, <2>1, <2>3, PressAppends
    <3>2. irq1' = TRUE
      BY <2>1, <2>3
    <3> QED
      BY <2>2, <3>1, <3>2 DEF Queue!Next, Queue!Send
  <2>4. CASE ~PressRaisesIRQ1(ppi)
    <3>1. ppi'.kbCurrent = ppi.kbCurrent
      BY <1>1, <2>1, <2>4, PressAppends
    <3>2. irq1' = irq1
      BY <1>1, <2>1, <2>4
    <3> QED
      BY <2>2, <3>1, <3>2 DEF Queue!Next, Queue!Send
  <2> QED
    BY <2>3, <2>4
<1>3. ASSUME NEW n \in Strokes, Clock(n) PROVE [Queue!Next]_(Queue!vars)
  <2>1. n \in Nat \ {0}
    BY KeyboardAssumption
  <2>2. ppi' = Tick(ppi, n) /\ irq1' = (irq1 \/ TickRaisesIRQ1(ppi, n))
    BY <1>3 DEF Clock
  <2>3. InOrder' = InOrder
    BY <1>1, <2>1, <2>2, TickKeepsOrder, SameOrder
  <2>4. CASE TickRaisesIRQ1(ppi, n)
    <3>1. ppi.kbCurrent = 0 /\ ppi.kbQueue # <<>> /\ ppi'.kbCurrent # 0
      BY <1>1, <2>1, <2>2, <2>4, TickKeepsOrder
    <3>2. irq1' = TRUE
      BY <2>2, <2>4
    <3>3. InOrder # <<>>
      BY <3>1 DEF InOrder
    <3> QED
      BY <2>3, <3>1, <3>2, <3>3 DEF Queue!Next, Queue!Announce
  <2>5. CASE ~TickRaisesIRQ1(ppi, n)
    <3>1. ppi'.kbCurrent = ppi.kbCurrent
      BY <1>1, <2>1, <2>2, <2>5, TickKeepsOrder
    <3>2. irq1' = irq1
      BY <1>1, <2>2, <2>5
    <3> QED
      BY <2>3, <3>1, <3>2 DEF Queue!vars
  <2> QED
    BY <2>4, <2>5
<1>4. ASSUME NEW v \in PortBValues, SoftwareWrites(v) PROVE [Queue!Next]_(Queue!vars)
  <2>1. v \in 0 .. 255
    BY KeyboardAssumption
  <2>2. ppi' = WritePortB(ppi, v) /\ irq1' = (irq1 \/ ResetsKeyboard(ppi, v))
    BY <1>4 DEF SoftwareWrites
  <2>3. CASE ResetsKeyboard(ppi, v)
    <3>1. ppi'.kbCurrent # 0 /\ InOrder' = <<SelfTestPassed>>
      BY <1>1, <2>1, <2>2, <2>3, WriteClearsOrResets, SameOrder
    <3>2. irq1' = TRUE
      BY <2>2, <2>3
    <3> QED
      BY <3>1, <3>2 DEF Queue!Next, Queue!Restart
  <2>4. CASE ~ResetsKeyboard(ppi, v)
    <3>1. irq1' = irq1
      BY <1>1, <2>2, <2>4
    <3>2. CASE ClearsKeyboard(ppi, v) /\ ppi.kbCurrent # 0
      <4>1. ppi'.kbCurrent = 0 /\ InOrder' = Tail(InOrder)
        BY <1>1, <2>1, <2>2, <2>4, <3>2, WriteClearsOrResets, SameOrder
      <4> QED
        BY <3>1, <3>2, <4>1 DEF Queue!Next, Queue!Clear
    <3>3. CASE ~(ClearsKeyboard(ppi, v) /\ ppi.kbCurrent # 0)
      <4>1. ppi'.kbCurrent = ppi.kbCurrent /\ InOrder' = InOrder
        BY <1>1, <2>1, <2>2, <2>4, <3>3, WriteClearsOrResets, SameOrder
      <4> QED
        BY <3>1, <4>1 DEF Queue!vars
    <3> QED
      BY <3>2, <3>3
  <2> QED
    BY <2>3, <2>4
<1>5. CASE InterruptTaken
  BY <1>5 DEF InterruptTaken, InOrder, Queue!Next, Queue!TakeRequest
<1>6. CASE UNCHANGED vars
  BY <1>6 DEF vars, InOrder, Queue!vars
<1> QED
  BY <1>2, <1>3, <1>4, <1>5, <1>6 DEF Next

\* The keyboard interface implements the queue, under any software.
THEOREM Refinement == Spec => ImplementsKeyQueue
PROOF
<1>1. Spec => Queue!Init /\ [][Queue!Next]_(Queue!vars)
  BY InitMaps, StepMaps, Invariance, PTL DEF Spec
<1> QED
  BY <1>1 DEF ImplementsKeyQueue, Queue!Spec
=============================================================================
