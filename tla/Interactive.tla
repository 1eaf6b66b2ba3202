----------------------------- MODULE Interactive -----------------------------
(***************************************************************************)
(* The interactive mode, cmd/retronet-pc/interactive.go: a goroutine that  *)
(* reads the terminal, a bounded channel, and a loop that in each frame    *)
(* drains the channel into the keyboard, runs the machine for a number of  *)
(* steps and shows its screen.  The machine is what the loop sees of it:   *)
(* the codes it is handed and the text adapter; its software does what it  *)
(* likes with the adapter, one access per step.                            *)
(***************************************************************************)
EXTENDS KeyTranslator, SequencesExt

CONSTANTS
  Radix, Columns, Rows, Cells, Base, MemSize,   \* see TextVideo
  Capacity,      \* of the channel (256)
  ReadSize,      \* of the buffer of the reader (64)
  Scenarios      \* what the user types and how the loop is started: the keys, each
                 \* with its bytes and the codes it stands for, maxSteps,
                 \* stepsPerFrame, and the accesses the software may make

Video == INSTANCE TextVideo

VARIABLES
  scenario,      \* one of Scenarios
  reader,        \* bytes not read yet, bytes read and not yet sent
  channel,       \* keys: the bytes in it, and whether it is closed
  loop,          \* where the loop is, steps left in the frame, steps executed
  tr,            \* the keyTranslator
  mem, video,    \* the machine's memory and text adapter
  terminal,      \* what renderFrame has shown last, nothing at first
  fed, typed,    \* all bytes fed to the translator, all codes sent to the keyboard
  split          \* a flush has come between the bytes of one key

vars == <<scenario, reader, channel, loop, tr, mem, video, terminal, fed, typed, split>>
userVars == <<fed, typed, split>>
machineVars == <<mem, video>>

Bytes(keys) == FlattenSeq([i \in DOMAIN keys |-> keys[i].bytes])
Codes(keys) == FlattenSeq([i \in DOMAIN keys |-> keys[i].codes])

Octet == 0 .. 255

ASSUME InteractiveAssumption ==
  /\ Capacity \in Nat \ {0} /\ ReadSize \in Nat \ {0}
  /\ \A s \in Scenarios :
       /\ s.maxSteps \in Nat /\ s.stepsPerFrame \in Nat
       /\ Bytes(s.keys) \in Seq(Octet)

Init ==
  /\ scenario \in Scenarios
  /\ reader = [input |-> Bytes(scenario.keys), buf |-> <<>>]
  /\ channel = [bytes |-> <<>>, closed |-> FALSE]
  /\ loop = [pc |-> "tick", left |-> 0, executed |-> 0]
  /\ tr = NewTranslator
  /\ mem = Video!Ram!NewBus
  /\ video = Video!NewVideo
  /\ terminal = <<>>
  /\ fed = <<>> /\ typed = <<>> /\ split = FALSE

(***************************************************************************)
(* The reader goroutine.                                                   *)
(***************************************************************************)
ReaderRuns == ~channel.closed

Read(n) ==
  /\ ReaderRuns /\ reader.buf = <<>>
  /\ n <= Len(reader.input)
  /\ reader' = [input |-> SubSeq(reader.input, n + 1, Len(reader.input)),
                buf |-> SubSeq(reader.input, 1, n)]
  /\ UNCHANGED <<scenario, channel, loop, tr, machineVars, terminal, userVars>>

SendOrDrop ==            \* mutant: a byte that finds the channel full is thrown away
  /\ ReaderRuns /\ reader.buf # <<>>
  /\ channel' = IF Len(channel.bytes) < Capacity
                THEN [channel EXCEPT !.bytes = Append(@, Head(reader.buf))] ELSE channel
  /\ reader' = [reader EXCEPT !.buf = Tail(@)]
  /\ UNCHANGED <<scenario, loop, tr, machineVars, terminal, userVars>>

\* The send blocks while the channel is full.
Send ==
  /\ ReaderRuns /\ reader.buf # <<>>
  /\ Len(channel.bytes) < Capacity
  /\ channel' = [channel EXCEPT !.bytes = Append(@, Head(reader.buf))]
  /\ reader' = [reader EXCEPT !.buf = Tail(@)]
  /\ UNCHANGED <<scenario, loop, tr, machineVars, terminal, userVars>>

\* The read fails: the terminal has gone.
HangUp ==
  /\ ReaderRuns /\ reader.buf = <<>>
  /\ channel' = [channel EXCEPT !.closed = TRUE]
  /\ UNCHANGED <<scenario, reader, loop, tr, machineVars, terminal, userVars>>

(***************************************************************************)
(* A frame: drain, flush, run, render.                                     *)
(***************************************************************************)
At(pc) == loop.pc = pc
Goes(pc) == [loop EXCEPT !.pc = pc]

StartFrame ==
  /\ At("tick")
  /\ loop' = Goes("drain")
  /\ UNCHANGED <<scenario, reader, channel, tr, machineVars, terminal, userVars>>

TakeByte ==
  /\ At("drain") /\ channel.bytes # <<>>
  /\ LET b == Head(channel.bytes) IN
     /\ tr' = FeedNext(tr, b)
     /\ typed' = typed \o FeedKeys(tr, b)
     /\ fed' = Append(fed, b)
  /\ channel' = [channel EXCEPT !.bytes = Tail(@)]
  /\ UNCHANGED <<scenario, reader, loop, machineVars, terminal, split>>

FindsItClosed ==
  /\ At("drain") /\ channel.bytes = <<>> /\ channel.closed
  /\ loop' = Goes("done")
  /\ UNCHANGED <<scenario, reader, channel, tr, machineVars, terminal, userVars>>

\* How many of the user's keys have been fed from the first byte to the last.
KeysFed ==
  CHOOSE n \in 0 .. Len(scenario.keys) :
    /\ Len(Bytes(SubSeq(scenario.keys, 1, n))) <= Len(fed)
    /\ \A m \in n + 1 .. Len(scenario.keys) : Len(Bytes(SubSeq(scenario.keys, 1, m))) > Len(fed)

InsideAKey == Len(Bytes(SubSeq(scenario.keys, 1, KeysFed))) # Len(fed)

Limited == scenario.maxSteps # 0

UncappedBudget ==        \* mutant: the last frame is not cut
  scenario.stepsPerFrame
Budget ==
  IF Limited /\ scenario.maxSteps - loop.executed < scenario.stepsPerFrame
  THEN scenario.maxSteps - loop.executed ELSE scenario.stepsPerFrame

\* The channel is empty: flush, look for the request to quit, and run.
EndDrain ==
  /\ At("drain") /\ channel.bytes = <<>> /\ ~channel.closed
  /\ tr' = FlushNext(tr)
  /\ typed' = typed \o FlushKeys(tr)
  /\ split' = (split \/ (tr.state = "esc" /\ InsideAKey))
  /\ loop' = IF tr.quit THEN Goes("done") ELSE [Goes("run") EXCEPT !.left = Budget]
  /\ UNCHANGED <<scenario, reader, channel, machineVars, terminal, fed>>

\* One step of the machine.  Steps are counted only when there is a limit.
Stepped ==
  [loop EXCEPT !.left = @ - 1, !.executed = IF Limited THEN @ + 1 ELSE @]

Access(a) ==
  /\ video' = CASE a.op = "OUT" -> Video!Out8(video, a.port, a.value)
                [] a.op = "IN" -> Video!AfterIn8(video, a.port)
                [] OTHER -> video
  /\ mem' = IF a.op = "STORE" THEN Video!Ram!Write8(mem, a.addr, a.value) ELSE mem

MachineStep(a) ==
  /\ At("run") /\ loop.left > 0
  /\ loop' = Stepped
  /\ Access(a)
  /\ UNCHANGED <<scenario, reader, channel, tr, terminal, userVars>>

Screen == Video!Render(video, mem)

\* renderFrame: nothing is drawn while the text stays the same.
RenderFrame(force) ==
  terminal' = IF terminal # <<>> /\ terminal.screen = Screen /\ ~force THEN terminal
              ELSE [screen |-> Screen, cursor |-> Video!CursorPos(video)]

MachineFailsUnseen ==    \* mutant: the frame that failed is not shown
  /\ At("run") /\ loop.left > 0
  /\ loop' = Goes("done")
  /\ UNCHANGED <<scenario, reader, channel, tr, machineVars, terminal, userVars>>

\* A step that returns an error ends the loop, after a last frame.
MachineFails ==
  /\ At("run") /\ loop.left > 0
  /\ loop' = Goes("done")
  /\ RenderFrame(TRUE)
  /\ UNCHANGED <<scenario, reader, channel, tr, machineVars, userVars>>

EndFrameNever ==         \* mutant: the limit is not looked at
  /\ At("run") /\ loop.left <= 0
  /\ RenderFrame(FALSE)
  /\ loop' = Goes("tick")
  /\ UNCHANGED <<scenario, reader, channel, tr, machineVars, userVars>>

EndFrame ==
  /\ At("run") /\ loop.left <= 0
  /\ RenderFrame(FALSE)
  /\ loop' = Goes(IF Limited /\ loop.executed >= scenario.maxSteps THEN "done" ELSE "tick")
  /\ UNCHANGED <<scenario, reader, channel, tr, machineVars, userVars>>

MainLoop ==
  \/ StartFrame \/ TakeByte \/ FindsItClosed \/ EndDrain
  \/ \E a \in scenario.accesses : MachineStep(a)
  \/ MachineFails \/ EndFrame

Reads == \E n \in 1 .. ReadSize : Read(n)

Next == Reads \/ Send \/ HangUp \/ MainLoop

\* The ticker fires again and again, the machine's steps return, and the reader is
\* scheduled; the terminal may never hang up.
Spec == Init /\ [][Next]_vars /\ WF_vars(Reads) /\ WF_vars(Send) /\ WF_vars(MainLoop)
=============================================================================
