------------------------------- MODULE Machine -------------------------------
(***************************************************************************)
(* The assembled XT, machine/machine.go with io/ports.go: the timer, the   *)
(* keyboard interface, the interrupt controller and the refresh channel of *)
(* the DMA controller, wired as NewXT wires them, the POST latch, and a    *)
(* CPU that runs a program.  Each Step of the code is one step here; keys  *)
(* go down between steps (cmd/retronet-pc calls PressKey between two       *)
(* Runs).                                                                  *)
(*                                                                         *)
(* The CPU (retronet-8086) is outside the repository: it is modelled by    *)
(* what machine.go asks of it, on a few instructions that are enough for   *)
(* the BIOS routines that ppi.go and interrupt_test.go describe.  The      *)
(* devices are one record, xt, so that a step reads as the order in which  *)
(* the code calls them.                                                    *)
(***************************************************************************)
EXTENDS Naturals, Sequences

CONSTANTS
  Radix, Counters, Channels, Pages, NumLines, KbReloadDelay,  \* see the devices
  TimerCycles,   \* timer strokes per step (8)
  Switches,      \* the DIP switches
  Software       \* what may be run: the instructions (code), from address 1 on, the
                 \* interrupt table (handlers), from vectors to addresses, and the
                 \* codes of the keys that will go down, in order

Pic == INSTANCE PIC WITH CommandBytes <- {}, DataBytes <- {}, pic <- {}
Pit == INSTANCE PIT
Ppi == INSTANCE PPI
Dma == INSTANCE DMA

Byte == 0 .. 255
Port == 0 .. 65535

ASSUME MachineAssumption ==
  /\ Radix \in 2 .. 256 /\ Counters \subseteq 0 .. 2 /\ Channels \subseteq 0 .. 3
  /\ Pages \in Nat \ {0} /\ NumLines \in 1 .. 8
  /\ TimerCycles \in Nat \ {0} /\ KbReloadDelay \in Nat \ {0}
  /\ Switches \in Byte

VARIABLES
  software, \* what is run
  xt,       \* the devices: pic, pit, ppi, dma, and the byte of the POST latch
  cpu,      \* pc, ifOn, halted, al and the stack of interrupted contexts
  unread,   \* keys still to go down
  sent,     \* codes the keyboard has accepted since it was last reset
  handled   \* codes the software has taken since then, in the order it took them

vars == <<software, xt, cpu, unread, sent, handled>>

Code == software.code

Frame == [pc : 1 .. Len(Code), ifOn : BOOLEAN, al : Byte, vector : Byte]

Init ==
  /\ software \in Software
  /\ xt = [pic |-> Pic!NewPIC, pit |-> Pit!NewPIT,
           ppi |-> Ppi!NewPPI(Switches), dma |-> Dma!NewDMA, post |-> 0]
  /\ cpu = [pc |-> 1, ifOn |-> FALSE, halted |-> FALSE, al |-> 0, stack |-> <<>>]
  /\ unread = software.keys
  /\ sent = <<>>
  /\ handled = <<>>

(***************************************************************************)
(* The wiring: IRQ0 and refresh from the timer, IRQ1 from the keyboard.    *)
(***************************************************************************)
RaisedIf(pic, line, raised) == IF raised THEN Pic!RaiseIRQ(pic, line) ELSE pic

TimerTicked(x) ==
  [x EXCEPT !.pit = Pit!Tick(@, TimerCycles),
            !.pic = RaisedIf(@, 0, Pit!RaisesIRQ0(x.pit, TimerCycles)),
            !.dma = Dma!RefreshCycles(@, Pit!RefreshCalls(x.pit, TimerCycles))]

KeyboardTickedSilently(x) ==   \* mutant: IRQ1 is raised by PressScancode only
  [x EXCEPT !.ppi = Ppi!Tick(@, TimerCycles)]
KeyboardTicked(x) ==
  [x EXCEPT !.ppi = Ppi!Tick(@, TimerCycles),
            !.pic = RaisedIf(@, 1, Ppi!TickRaisesIRQ1(x.ppi, TimerCycles))]

Ticked(x) == KeyboardTicked(TimerTicked(x))

(***************************************************************************)
(* The I/O bus: the first mapping that covers a port serves it.            *)
(***************************************************************************)
PortMap ==
  << [lo |-> 0,   hi |-> 15,  dev |-> "dma"],
     [lo |-> 32,  hi |-> 33,  dev |-> "pic"],
     [lo |-> 64,  hi |-> 67,  dev |-> "pit"],
     [lo |-> 96,  hi |-> 99,  dev |-> "ppi"],
     [lo |-> 128, hi |-> 128, dev |-> "post"],
     [lo |-> 129, hi |-> 143, dev |-> "page"] >>

Covers(i, port) == port \in PortMap[i].lo .. PortMap[i].hi

Device(port) ==
  IF \E i \in DOMAIN PortMap : Covers(i, port)
  THEN PortMap[CHOOSE i \in DOMAIN PortMap :
                 Covers(i, port) /\ \A j \in 1 .. i - 1 : ~Covers(j, port)].dev
  ELSE "none"

PITOut(t, reg, v) ==
  IF reg = 3 THEN Pit!ControlWord(t, v)
  ELSE IF reg \in Counters THEN [t EXCEPT ![reg] = Pit!WriteCounter(@, v)] ELSE t

Out(x, port, v) ==
  CASE Device(port) = "pic" ->
         [x EXCEPT !.pic = IF port % 2 = 0 THEN Pic!WriteCommand(@, v) ELSE Pic!WriteData(@, v)]
    [] Device(port) = "pit" -> [x EXCEPT !.pit = PITOut(@, port % 4, v)]
    [] Device(port) = "ppi" /\ port % 4 = 1 ->
         [x EXCEPT !.ppi = Ppi!WritePortB(@, v),
                   !.pic = RaisedIf(@, 1, Ppi!ResetsKeyboard(x.ppi, v))]
    [] Device(port) = "dma" -> [x EXCEPT !.dma = Dma!Out8(@, port, v)]
    [] Device(port) = "page" -> [x EXCEPT !.dma = Dma!PageOut(@, port % 16, v)]
    [] Device(port) = "post" -> [x EXCEPT !.post = v]
    [] OTHER -> x

\* A register with one bit per line, read back as a byte.
AsByte(lines) == CHOOSE v \in Byte : Pic!BitSet(v, 8) = lines

Value(x, port) ==
  CASE Device(port) = "pic" -> AsByte(IF port % 2 = 1 THEN x.pic.imr ELSE x.pic.irr)
    [] Device(port) = "pit" /\ port % 4 \in Counters -> Pit!ReadByte(x.pit[port % 4])
    [] Device(port) = "ppi" -> Ppi!In8(x.ppi, port % 4)
    [] Device(port) = "dma" /\ port = 8 -> AsByte(x.dma.tcStatus)
    [] Device(port) = "dma" /\ port < 8 /\ port \div 2 \in Channels -> Dma!WordRead(x.dma, port)
    [] Device(port) = "page" -> Dma!PageIn(x.dma, port % 16)
    [] Device(port) = "post" -> x.post
    [] OTHER -> 255

AfterIn(x, port) ==
  CASE Device(port) = "pit" /\ port % 4 \in Counters ->
         [x EXCEPT !.pit[port % 4] = Pit!AfterRead(@)]
    [] Device(port) = "dma" /\ port = 8 -> [x EXCEPT !.dma = Dma!AfterStatusRead(@)]
    [] Device(port) = "dma" /\ port < 8 -> [x EXCEPT !.dma = Dma!AfterWordRead(@)]
    [] OTHER -> x

(***************************************************************************)
(* Programs.  A byte that goes to half of a 16-bit register is a digit of  *)
(* the word; and no program runs off its end.                              *)
(***************************************************************************)
WordHalf(port) ==
  \/ Device(port) = "pit" /\ port % 4 # 3
  \/ Device(port) = "dma" /\ port < 8
  \/ Device(port) = "page"

Instructions(last) ==
  [op : {"OUT"}, port : Port, value : Byte] \cup [op : {"IN"}, port : Port]
  \cup [op : {"STI", "CLI", "HLT", "TAKE", "IRET"}]
  \cup [op : {"JMP", "JZ"}, target : 1 .. last]

ASSUME SoftwareAssumption ==
  \A s \in Software :
    /\ s.code \in Seq(Instructions(Len(s.code))) /\ s.code # <<>>
    /\ s.code[Len(s.code)].op \in {"JMP", "IRET"}
    /\ \A i \in DOMAIN s.code :
         s.code[i].op = "OUT" /\ WordHalf(s.code[i].port) => s.code[i].value \in Pit!Digit
    /\ s.handlers \in [Byte -> DOMAIN s.code]
    /\ s.keys \in Seq(Byte \ {0})

(***************************************************************************)
(* The instructions.                                                       *)
(***************************************************************************)
Instruction == Code[cpu.pc]
Op(op) == Instruction.op = op
Advanced == [cpu EXCEPT !.pc = @ + 1]

OutByte(x) ==
  /\ Op("OUT")
  /\ xt' = Out(x, Instruction.port, Instruction.value)
  /\ cpu' = Advanced
  /\ IF Device(Instruction.port) = "ppi" /\ Instruction.port % 4 = 1
        /\ Ppi!ResetsKeyboard(x.ppi, Instruction.value)
     THEN sent' = <<Ppi!SelfTestPassed>> /\ handled' = <<>>
     ELSE UNCHANGED <<sent, handled>>

InByte(x) ==
  /\ Op("IN")
  /\ xt' = AfterIn(x, Instruction.port)
  /\ cpu' = [Advanced EXCEPT !.al = Value(x, Instruction.port)]
  /\ UNCHANGED <<sent, handled>>

\* The software takes the code in AL.
Take(x) ==
  /\ Op("TAKE")
  /\ xt' = x
  /\ cpu' = Advanced
  /\ handled' = Append(handled, cpu.al)
  /\ UNCHANGED sent

SetIF(x) ==
  /\ Instruction.op \in {"STI", "CLI"}
  /\ xt' = x
  /\ cpu' = [Advanced EXCEPT !.ifOn = Op("STI")]
  /\ UNCHANGED <<sent, handled>>

Halt(x) ==
  /\ Op("HLT")
  /\ xt' = x
  /\ cpu' = [Advanced EXCEPT !.halted = TRUE]
  /\ UNCHANGED <<sent, handled>>

\* JMP, or JZ with AL = 0.
Jump(x) ==
  /\ Instruction.op \in {"JMP", "JZ"}
  /\ xt' = x
  /\ cpu' = IF Op("JZ") /\ cpu.al # 0 THEN Advanced ELSE [cpu EXCEPT !.pc = Instruction.target]
  /\ UNCHANGED <<sent, handled>>

\* IRET.  The handlers save AL and restore it.  A program that returned from an
\* interrupt that never came would stop here.
ReturnFromInterrupt(x) ==
  /\ Op("IRET") /\ cpu.stack # <<>>
  /\ xt' = x
  /\ LET frame == Head(cpu.stack) IN
     cpu' = [cpu EXCEPT !.pc = frame.pc, !.ifOn = frame.ifOn, !.al = frame.al,
                        !.stack = Tail(@)]
  /\ UNCHANGED <<sent, handled>>

Execute(x) ==
  \/ OutByte(x) \/ InByte(x) \/ Take(x) \/ SetIF(x) \/ Halt(x) \/ Jump(x)
  \/ ReturnFromInterrupt(x)

(***************************************************************************)
(* Step: the timer, the keyboard, then an interrupt or an instruction.     *)
(***************************************************************************)
Interrupted(x) == Pic!Pending(x.pic) /\ cpu.ifOn

ServeInterrupt(x) ==
  LET vector == Pic!AcknowledgeVector(x.pic)
      frame == [pc |-> cpu.pc, ifOn |-> cpu.ifOn, al |-> cpu.al, vector |-> vector]
  IN
  /\ xt' = [x EXCEPT !.pic = Pic!Acknowledge(@)]
  /\ cpu' = [cpu EXCEPT !.pc = software.handlers[vector], !.ifOn = FALSE, !.halted = FALSE,
                        !.stack = <<frame>> \o @]
  /\ UNCHANGED <<sent, handled>>

StayHalted(x) ==
  /\ xt' = x
  /\ UNCHANGED <<cpu, sent, handled>>

StepHaltedFirst ==           \* mutant: HLT is looked at before the interrupt
  /\ LET x == Ticked(xt) IN
     \/ cpu.halted /\ StayHalted(x)
     \/ ~cpu.halted /\ Interrupted(x) /\ ServeInterrupt(x)
     \/ ~cpu.halted /\ ~Interrupted(x) /\ Execute(x)
  /\ UNCHANGED <<software, unread>>

Step ==
  /\ LET x == Ticked(xt) IN
     \/ Interrupted(x) /\ ServeInterrupt(x)
     \/ ~Interrupted(x) /\ cpu.halted /\ StayHalted(x)
     \/ ~Interrupted(x) /\ ~cpu.halted /\ Execute(x)
  /\ UNCHANGED <<software, unread>>

KeyGoesDown ==
  /\ unread # <<>>
  /\ xt' = [xt EXCEPT !.ppi = Ppi!PressScancode(@, Head(unread)),
                      !.pic = RaisedIf(@, 1, Ppi!PressRaisesIRQ1(xt.ppi))]
  /\ sent' = Append(sent, Head(unread))
  /\ unread' = Tail(unread)
  /\ UNCHANGED <<software, cpu, handled>>

Next == Step \/ KeyGoesDown

\* The host loop calls Run again and again; keys may never come.
Spec == Init /\ [][Next]_vars /\ WF_vars(Step)
=============================================================================
