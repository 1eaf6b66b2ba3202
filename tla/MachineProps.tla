---------------------------- MODULE MachineProps ----------------------------
(***************************************************************************)
(* What the assembled machine owes to the software that runs on it.        *)
(***************************************************************************)
EXTENDS Machine

Nested(vector) == {i \in DOMAIN cpu.stack : cpu.stack[i].vector = vector}

\* The keyboard has been reset by the program: it has answered 0xAA.
KeyboardStarted == sent # <<>> /\ sent[1] = Ppi!SelfTestPassed

PPIState ==
  [portB : Byte, dip : Byte, keyboardData : Byte, kbQueue : Seq(Byte \ {0}), kbCurrent : Byte,
   kbDelay : 0 .. KbReloadDelay]

XTState ==
  [pic : Pic!PICState, pit : [Counters -> Pit!CounterState], ppi : PPIState,
   dma : [channels : [Channels -> Dma!ChannelState], flipHi : BOOLEAN, tcStatus : SUBSET Channels],
   post : Byte]

\* Every variable has its type: whatever the program, the devices keep their
\* registers in range and the CPU stays within the program.
TypeOK ==
  /\ software \in Software
  /\ xt \in XTState
  /\ cpu \in [pc : DOMAIN Code, ifOn : BOOLEAN, halted : BOOLEAN, al : Byte, stack : Seq(Frame)]
  /\ unread \in Seq(Byte \ {0}) /\ sent \in Seq(Byte \ {0}) /\ handled \in Seq(Byte)

\* The software takes the codes in the order in which the keys went down,
\* each once and none that was not sent, starting with the answer of the
\* reset (ppi.go:40-45 and 70-97: order of the modifier keys; Step,
\* machine.go:172-187).
KeysTakenInOrder ==
  KeyboardStarted =>
    /\ Len(handled) <= Len(sent)
    /\ handled = SubSeq(sent, 1, Len(handled))

\* The codes the interface holds, neither cleared by software nor dropped by a
\* reset of the keyboard, the oldest first.
Waiting(p) == IF p.kbCurrent = 0 THEN p.kbQueue ELSE <<p.kbCurrent>> \o p.kbQueue

\* Between the keys and port A no code is repeated, overtaken or dropped out of
\* the middle, whatever the program: the codes that wait are the last ones sent, in
\* their order, and port A with PB7 low shows the oldest of them once it is
\* announced (PressScancode, Tick, Out8 and In8, ppi.go:50-146).
CodesWaitInOrder ==
  /\ \E n \in 0 .. Len(sent) : Waiting(xt.ppi) = SubSeq(sent, n + 1, Len(sent))
  /\ ~Ppi!PB7(xt.ppi.portB) =>
       Ppi!In8(xt.ppi, 0) = IF xt.ppi.kbCurrent = 0 THEN 0 ELSE Head(Waiting(xt.ppi))

\* A code arrives only after the handler of the one before has returned: INT 9
\* is never entered again while it is active (ppi.go:40-45).
NoNestedINT9 == \A i, j \in Nested(9) : i = j

\* No timer tick is lost once the program has enabled interrupts: IRQ0 is never
\* raised while the previous request is still waiting (pit.go:17-20, NewXT's
\* wiring, machine.go:77-78).
NoTickLost ==
  [][(cpu.ifOn \/ cpu.stack # <<>>) /\ Pit!RaisesIRQ0(xt.pit, TimerCycles) /\ UNCHANGED unread =>
       0 \notin xt.pic.irr]_vars

\* Every code that is sent after the reset is taken in the end: whatever is
\* still queued, presented, pending or in service, the software catches up with
\* the keyboard (PressScancode and Tick, ppi.go:111-132; Step,
\* machine.go:172-187).
EveryKeyTaken == KeyboardStarted /\ handled # sent ~> handled = sent

Polls == Op("IN") /\ Instruction.port = 8

\* The DMA test of the POST always passes, the first time and every time after:
\* a program that polls the status register of the DMA controller finds the
\* terminal count of the refresh channel set again and again, although each
\* read clears it and timer interrupts come in between (RefreshCycle,
\* dma.go:82-93; In8, dma.go:74-77; timerCycles, machine.go:31-36).
RefreshIsSeen == []<>Polls => []<>(Op("JZ") /\ cpu.al % 2 = 1)

\* Interrupts leave time to the main program: it is never interrupted for ever, and
\* HLT never keeps it from going on (Step, machine.go:179-185).
MainProgramRuns == []<>(cpu.stack = <<>> /\ ~cpu.halted)
=============================================================================
