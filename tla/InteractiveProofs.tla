------------------------- MODULE InteractiveProofs -------------------------
(***************************************************************************)
(* What holds of the interactive mode whatever is typed, however large the *)
(* channel and the reads are, and whatever the software does: no byte is   *)
(* lost on the way, the keys arrive as they were pressed, every key that   *)
(* goes down comes up, the limit of steps is kept, and the screen shown is *)
(* the machine's.                                                          *)
(***************************************************************************)
EXTENDS InteractiveProps, SequenceTheorems, FiniteSetTheorems, WellFoundedInduction, TLAPS

\* The reader, the channel and what has gone through them.
PipeOK ==
  /\ scenario \in Scenarios
  /\ reader \in [input : Seq(Octet), buf : Seq(Octet)]
  /\ channel \in [bytes : Seq(Octet), closed : BOOLEAN]
  /\ fed \in Seq(Octet)
  /\ Len(channel.bytes) <= Capacity
  /\ Len(reader.buf) <= ReadSize
  /\ BytesInOrder

\* The loop and its budget.
LoopOK ==
  /\ scenario \in Scenarios
  /\ loop \in [pc : {"tick", "drain", "run", "done"}, left : Nat, executed : Nat]
  /\ Limited => loop.executed + loop.left <= scenario.maxSteps

Translator == [state : {"normal", "esc", "csi", "ss3"}, params : Seq(Octet), quit : BOOLEAN]

TranslatorOK == tr \in Translator

\* What is shown has the size of the screen, and is the screen.
ScreenOK ==
  /\ terminal = <<>> \/ DOMAIN terminal.screen = 0 .. Rows - 1
  /\ ShownScreenIsCurrent

\* How often a code stands in a sequence of codes.
Occurrences(s, code) == Cardinality({i \in DOMAIN s : s[i] = code})

\* Every key that goes down in the sequence comes up in it.
Balanced(s) ==
  /\ s \in Seq(Octet)
  /\ \A code \in 1 .. 88 : Occurrences(s, code) = Occurrences(s, Break(code))

\* The codes of up are the breaks of the codes of down, all of them makes.
Released(down, up) ==
  /\ down \in Seq(Octet) /\ up \in Seq(Octet)
  /\ \A code \in 1 .. 88 :
       /\ Occurrences(up, Break(code)) = Occurrences(down, code)
       /\ Occurrences(down, Break(code)) = 0 /\ Occurrences(up, code) = 0

\* No key goes down or comes up in the sequence.
NoKeyIn(s) ==
  /\ s \in Seq(Octet)
  /\ \A code \in 1 .. 88 : Occurrences(s, code) = 0 /\ Occurrences(s, Break(code)) = 0

\* The bytes and the codes of the first n keys.
BytesUpTo(ks, n) == Bytes(SubSeq(ks, 1, n))
CodesUpTo(ks, n) == Codes(SubSeq(ks, 1, n))

\* n keys have been fed whole, and of the next one the first j bytes.
Position(ks, f, n, j) ==
  /\ n \in 0 .. Len(ks) /\ j \in Nat
  /\ j > 0 => n < Len(ks) /\ j < Len(ks[n + 1].bytes)
  /\ f = IF j = 0 THEN BytesUpTo(ks, n) ELSE BytesUpTo(ks, n) \o SubSeq(ks[n + 1].bytes, 1, j)

\* The translator inside of a key, after j bytes of it.
InsideKey(k, j, t) ==
  \/ UnknownCharacter(k) /\ t.state = "normal"
  \/ (SS3Key(k) \/ CSIKey(k)) /\ j = 1 /\ t.state = "esc"
  \/ SS3Key(k) /\ j = 2 /\ t.state = "ss3"
  \/ CSIKey(k) /\ j >= 2 /\ t.state = "csi" /\ t.params = SubSeq(k.bytes, 3, j)

\* Between two keys; the codes of an Esc may still wait for the flush.
BetweenKeys(ks, n, t, out) ==
  \/ t.state = "normal" /\ out = CodesUpTo(ks, n)
  \/ t.state = "esc" /\ n > 0 /\ ks[n] = EscapeKey /\ out = CodesUpTo(ks, n - 1)

\* The bytes f are n keys and j bytes of the next, and the translator and the
\* codes sent are those of n keys, unless a key has been split.
ParsedAt(ks, f, t, out, cut, n, j) ==
  /\ Position(ks, f, n, j)
  /\ ~cut => IF j = 0 THEN BetweenKeys(ks, n, t, out)
             ELSE InsideKey(ks[n + 1], j, t) /\ out = CodesUpTo(ks, n)

\* The bytes fed are keys of the user, and the translator is where they leave it.
ParsedOK ==
  \E n \in 0 .. Len(scenario.keys), j \in 0 .. Len(fed) :
    ParsedAt(scenario.keys, fed, tr, typed, split, n, j)

IInv == PipeOK /\ LoopOK /\ TranslatorOK /\ ScreenOK /\ Balanced(typed) /\ ParsedOK

-----------------------------------------------------------------------------
(***************************************************************************)
(* Sequences that are cut and joined.                                      *)
(***************************************************************************)

\* A read cuts the input in two parts that make it up again.
LEMMA ReadCuts ==
  ASSUME NEW S, NEW q \in Seq(S), NEW n \in Nat \ {0}, n <= Len(q)
  PROVE  /\ SubSeq(q, 1, n) \in Seq(S)
         /\ SubSeq(q, n + 1, Len(q)) \in Seq(S)
         /\ Len(SubSeq(q, 1, n)) = n
         /\ SubSeq(q, 1, n) \o SubSeq(q, n + 1, Len(q)) = q
<1>1. Len(q) \in Nat /\ \A i \in 1 .. Len(q) : q[i] \in S
  BY LenProperties, ElementOfSeq
<1>2. SubSeq(q, 1, n) \in Seq(S) /\ Len(SubSeq(q, 1, n)) = n
  BY <1>1, SubSeqProperties
<1>3. SubSeq(q, n + 1, Len(q)) \in Seq(S)
  BY <1>1, SubSeqProperties
<1>4. SubSeq(q, 1, n) \o SubSeq(q, n + 1, Len(q)) = SubSeq(q, 1, Len(q))
  <2>1. 1 \in 1 .. Len(q) + 1 /\ n \in 1 - 1 .. Len(q) /\ Len(q) \in n .. Len(q)
    BY <1>1
  <2>2. QED
    BY <2>1, ConcatAdjacentSubSeq
<1>5. QED
  BY <1>2, <1>3, <1>4, SubSeqFull

\* The first of the elements behind moves to the end of those in front.
LEMMA FirstMovesOver ==
  ASSUME NEW S, NEW front \in Seq(S), NEW behind \in Seq(S), behind # <<>>
  PROVE  /\ Append(front, Head(behind)) \in Seq(S)
         /\ Tail(behind) \in Seq(S)
         /\ Len(Append(front, Head(behind))) = Len(front) + 1
         /\ Len(Tail(behind)) <= Len(behind)
         /\ Append(front, Head(behind)) \o Tail(behind) = front \o behind
<1>1. Head(behind) \in S /\ Tail(behind) \in Seq(S) /\ Len(Tail(behind)) <= Len(behind)
  BY HeadTailProperties, LenProperties
<1>2. behind = <<Head(behind)>> \o Tail(behind)
  OBVIOUS
<1>3. Append(front, Head(behind)) = front \o <<Head(behind)>>
  BY <1>1
<1>4. (front \o <<Head(behind)>>) \o Tail(behind) = front \o (<<Head(behind)>> \o Tail(behind))
  BY <1>1, ConcatAssociative
<1>5. QED
  BY <1>1, <1>2, <1>3, <1>4

\* Joining bytes is associative.
LEMMA Associative ==
  \A a, b, c \in Seq(Octet) : (a \o b) \o c = a \o (b \o c)
  BY ConcatAssociative

-----------------------------------------------------------------------------
(***************************************************************************)
(* The pipe.                                                               *)
(***************************************************************************)

\* A read moves bytes from the terminal to the buffer.
LEMMA ReadPipe == ASSUME PipeOK, NEW n \in 1 .. ReadSize, Read(n) PROVE PipeOK'
<1>1. /\ reader.input \in Seq(Octet) /\ reader.buf = <<>>
      /\ channel.bytes \in Seq(Octet) /\ fed \in Seq(Octet)
      /\ n \in Nat \ {0} /\ n <= Len(reader.input)
  BY InteractiveAssumption DEF PipeOK, Read
<1>2. /\ reader' = [input |-> SubSeq(reader.input, n + 1, Len(reader.input)),
                    buf |-> SubSeq(reader.input, 1, n)]
      /\ UNCHANGED <<scenario, channel, fed>>
  BY DEF Read, userVars
<1>3. /\ SubSeq(reader.input, 1, n) \in Seq(Octet)
      /\ SubSeq(reader.input, n + 1, Len(reader.input)) \in Seq(Octet)
      /\ Len(SubSeq(reader.input, 1, n)) = n
      /\ SubSeq(reader.input, 1, n) \o SubSeq(reader.input, n + 1, Len(reader.input)) = reader.input
  BY <1>1, ReadCuts
<1>4. /\ reader' \in [input : Seq(Octet), buf : Seq(Octet)]
      /\ Len(reader'.buf) <= ReadSize
  BY <1>2, <1>3
<1>5. reader'.buf \o reader'.input = reader.input
  BY <1>2, <1>3
<1>6. (fed \o channel.bytes) \o reader.buf = fed \o channel.bytes
  BY <1>1, ConcatProperties, ConcatEmptySeq
<1>7. BytesInOrder'
  <2>1. (fed \o channel.bytes \o reader'.buf \o reader'.input)
          = (fed \o channel.bytes) \o (reader'.buf \o reader'.input)
    <3>1. reader'.buf \in Seq(Octet) /\ reader'.input \in Seq(Octet)
      BY <1>4
    <3>2. fed \o channel.bytes \in Seq(Octet)
      BY <1>1, ConcatProperties
    <3>3. QED
      BY <3>1, <3>2, Associative
  <2>2. QED
    BY <2>1, <1>2, <1>5, <1>6 DEF BytesInOrder, PipeOK
<1>8. QED
  BY <1>2, <1>4, <1>7 DEF PipeOK

\* A send moves a byte from the buffer to the channel, which has room for it.
LEMMA SendPipe == ASSUME PipeOK, Send PROVE PipeOK'
<1>1. /\ reader.input \in Seq(Octet) /\ reader.buf \in Seq(Octet) /\ reader.buf # <<>>
      /\ channel.bytes \in Seq(Octet) /\ fed \in Seq(Octet)
      /\ Len(channel.bytes) < Capacity
  BY DEF PipeOK, Send
<1>2. /\ reader' = [reader EXCEPT !.buf = Tail(@)]
      /\ channel' = [channel EXCEPT !.bytes = Append(@, Head(reader.buf))]
      /\ UNCHANGED <<scenario, fed>>
  BY DEF Send, userVars
<1>3. /\ reader'.input = reader.input /\ reader'.buf = Tail(reader.buf)
      /\ channel'.bytes = Append(channel.bytes, Head(reader.buf))
  BY <1>2 DEF PipeOK
<1>4. /\ Append(channel.bytes, Head(reader.buf)) \in Seq(Octet)
      /\ Tail(reader.buf) \in Seq(Octet)
      /\ Len(Append(channel.bytes, Head(reader.buf))) = Len(channel.bytes) + 1
      /\ Len(Tail(reader.buf)) <= Len(reader.buf)
      /\ Append(channel.bytes, Head(reader.buf)) \o Tail(reader.buf) = channel.bytes \o reader.buf
  BY <1>1, FirstMovesOver
<1>5. /\ reader' \in [input : Seq(Octet), buf : Seq(Octet)]
      /\ channel' \in [bytes : Seq(Octet), closed : BOOLEAN]
  BY <1>2, <1>4 DEF PipeOK
<1>6. Len(channel'.bytes) <= Capacity /\ Len(reader'.buf) <= ReadSize
  <2>1. Len(channel.bytes) \in Nat /\ Len(reader.buf) \in Nat /\ Len(Tail(reader.buf)) \in Nat
    BY <1>1, <1>4, LenProperties
  <2>2. QED
    BY <2>1, <1>1, <1>3, <1>4, InteractiveAssumption DEF PipeOK
<1>7. BytesInOrder'
  <2>1. (fed \o channel'.bytes) \o reader'.buf = fed \o (channel'.bytes \o reader'.buf)
    <3>1. channel'.bytes \in Seq(Octet) /\ reader'.buf \in Seq(Octet)
      BY <1>3, <1>4
    <3>2. QED
      BY <1>1, <3>1, Associative
  <2>2. (fed \o channel.bytes) \o reader.buf = fed \o (channel.bytes \o reader.buf)
    BY <1>1, Associative
  <2>3. QED
    BY <2>1, <2>2, <1>2, <1>3, <1>4 DEF BytesInOrder, PipeOK
<1>8. QED
  BY <1>2, <1>5, <1>6, <1>7 DEF PipeOK

\* The loop takes a byte from the channel and feeds it.
LEMMA TakePipe == ASSUME PipeOK, TakeByte PROVE PipeOK'
<1>1. /\ reader.input \in Seq(Octet) /\ reader.buf \in Seq(Octet)
      /\ channel.bytes \in Seq(Octet) /\ channel.bytes # <<>> /\ fed \in Seq(Octet)
  BY DEF PipeOK, TakeByte
<1>2. /\ channel' = [channel EXCEPT !.bytes = Tail(@)]
      /\ fed' = Append(fed, Head(channel.bytes))
      /\ UNCHANGED <<scenario, reader>>
  BY DEF TakeByte
<1>3. channel'.bytes = Tail(channel.bytes)
  BY <1>2 DEF PipeOK
<1>4. /\ Append(fed, Head(channel.bytes)) \in Seq(Octet)
      /\ Tail(channel.bytes) \in Seq(Octet)
      /\ Len(Tail(channel.bytes)) <= Len(channel.bytes)
      /\ Append(fed, Head(channel.bytes)) \o Tail(channel.bytes) = fed \o channel.bytes
  BY <1>1, FirstMovesOver
<1>5. channel' \in [bytes : Seq(Octet), closed : BOOLEAN]
  BY <1>2, <1>4 DEF PipeOK
<1>6. Len(channel'.bytes) <= Capacity
  <2>1. Len(channel.bytes) \in Nat /\ Len(Tail(channel.bytes)) \in Nat
    BY <1>1, <1>4, LenProperties
  <2>2. QED
    BY <2>1, <1>3, <1>4, InteractiveAssumption DEF PipeOK
<1>7. BytesInOrder'
  BY <1>2, <1>3, <1>4 DEF BytesInOrder, PipeOK
<1>8. QED
  BY <1>2, <1>4, <1>5, <1>6, <1>7 DEF PipeOK

\* Every step keeps the pipe: only the reader and the select touch it.
LEMMA PipeStep == ASSUME PipeOK, [Next]_vars PROVE PipeOK'
<1> USE DEF PipeOK, BytesInOrder
<1>1. ASSUME NEW n \in 1 .. ReadSize, Read(n) PROVE PipeOK'
  BY <1>1, ReadPipe
<1>2. CASE Send
  BY <1>2, SendPipe
<1>3. CASE HangUp
  <2>1. channel' = [channel EXCEPT !.closed = TRUE] /\ UNCHANGED <<scenario, reader, fed>>
    BY <1>3 DEF HangUp, userVars
  <2>2. QED
    BY <2>1
<1>4. CASE TakeByte
  BY <1>4, TakePipe
<1>5. ASSUME UNCHANGED <<scenario, reader, channel, fed>> PROVE PipeOK'
  BY <1>5
<1>6. CASE StartFrame \/ FindsItClosed \/ EndDrain \/ MachineFails \/ EndFrame
  BY <1>5, <1>6 DEF StartFrame, FindsItClosed, EndDrain, MachineFails, EndFrame, userVars
<1>7. ASSUME NEW a \in scenario.accesses, MachineStep(a) PROVE PipeOK'
  BY <1>5, <1>7 DEF MachineStep, userVars
<1>8. CASE UNCHANGED vars
  BY <1>5, <1>8 DEF vars
<1>9. QED
  BY <1>1, <1>2, <1>3, <1>4, <1>6, <1>7, <1>8 DEF Next, Reads, MainLoop

-----------------------------------------------------------------------------
(***************************************************************************)
(* The loop.                                                               *)
(***************************************************************************)

\* The budget of a frame is never negative and never more than what is left.
LEMMA BudgetFits ==
  ASSUME LoopOK
  PROVE  Budget \in Nat /\ (Limited => loop.executed + Budget <= scenario.maxSteps)
<1>1. /\ scenario.maxSteps \in Nat /\ scenario.stepsPerFrame \in Nat
      /\ loop.executed \in Nat /\ loop.left \in Nat
  BY InteractiveAssumption DEF LoopOK
<1>2. CASE Limited /\ scenario.maxSteps - loop.executed < scenario.stepsPerFrame
  <2>1. Budget = scenario.maxSteps - loop.executed
    BY <1>2 DEF Budget
  <2>2. loop.executed <= scenario.maxSteps
    BY <1>1, <1>2 DEF LoopOK
  <2>3. QED
    BY <1>1, <2>1, <2>2
<1>3. CASE ~(Limited /\ scenario.maxSteps - loop.executed < scenario.stepsPerFrame)
  <2>1. Budget = scenario.stepsPerFrame
    BY <1>3 DEF Budget
  <2>2. QED
    BY <1>1, <1>3, <2>1
<1>4. QED
  BY <1>2, <1>3

\* The limit of steps is kept: a frame is cut to what is left of it.
LEMMA LoopStep == ASSUME LoopOK, [Next]_vars PROVE LoopOK'
<1>1. /\ scenario.maxSteps \in Nat /\ scenario.stepsPerFrame \in Nat
      /\ loop.executed \in Nat /\ loop.left \in Nat
  BY InteractiveAssumption DEF LoopOK
<1>2. scenario' = scenario
  BY DEF Next, Reads, MainLoop, Read, Send, HangUp, StartFrame, TakeByte, FindsItClosed,
         EndDrain, MachineStep, MachineFails, EndFrame, vars
<1>3. ASSUME NEW pc \in {"tick", "drain", "run", "done"}, loop' = Goes(pc) PROVE LoopOK'
  BY <1>2, <1>3 DEF LoopOK, Goes, Limited
<1>4. CASE StartFrame \/ FindsItClosed \/ MachineFails
  BY <1>3, <1>4 DEF StartFrame, FindsItClosed, MachineFails
<1>5. CASE EndFrame
  BY <1>3, <1>5 DEF EndFrame
<1>6. CASE EndDrain
  <2>1. CASE tr.quit
    BY <1>3, <1>6, <2>1 DEF EndDrain
  <2>2. CASE ~tr.quit
    <3>1. loop' = [Goes("run") EXCEPT !.left = Budget]
      BY <1>6, <2>2 DEF EndDrain
    <3>2. loop' = [loop EXCEPT !.pc = "run", !.left = Budget]
      BY <3>1 DEF Goes, LoopOK
    <3>3. /\ loop' \in [pc : {"tick", "drain", "run", "done"}, left : Nat, executed : Nat]
          /\ loop'.left = Budget /\ loop'.executed = loop.executed
      BY <3>2, BudgetFits DEF LoopOK
    <3>4. QED
      BY <1>2, <3>3, BudgetFits DEF LoopOK, Limited
  <2>3. QED
    BY <2>1, <2>2
<1>7. ASSUME NEW a \in scenario.accesses, MachineStep(a) PROVE LoopOK'
  <2>1. loop' = Stepped /\ loop.left > 0
    BY <1>7 DEF MachineStep
  <2>2. CASE Limited
    <3>1. /\ loop' = [pc |-> loop.pc, left |-> loop.left - 1, executed |-> loop.executed + 1]
          /\ loop.pc \in {"tick", "drain", "run", "done"}
      BY <2>1, <2>2 DEF Stepped, LoopOK
    <3>2. loop.left - 1 \in Nat /\ loop.executed + 1 \in Nat
      BY <1>1, <2>1
    <3>3. loop' \in [pc : {"tick", "drain", "run", "done"}, left : Nat, executed : Nat]
      BY <3>1, <3>2
    <3>4. loop'.left = loop.left - 1 /\ loop'.executed = loop.executed + 1
      BY <3>1
    <3>5. QED
      BY <1>1, <1>2, <2>1, <3>3, <3>4 DEF LoopOK, Limited
  <2>3. CASE ~Limited
    <3>1. /\ loop' = [pc |-> loop.pc, left |-> loop.left - 1, executed |-> loop.executed]
          /\ loop.pc \in {"tick", "drain", "run", "done"}
      BY <2>1, <2>3 DEF Stepped, LoopOK
    <3>2. loop.left - 1 \in Nat /\ loop.executed \in Nat
      BY <1>1, <2>1
    <3>3. loop' \in [pc : {"tick", "drain", "run", "done"}, left : Nat, executed : Nat]
      BY <3>1, <3>2
    <3>4. loop'.left = loop.left - 1 /\ loop'.executed = loop.executed
      BY <3>1
    <3>5. QED
      BY <1>1, <1>2, <2>1, <2>3, <3>3, <3>4 DEF LoopOK, Limited
  <2>4. QED
    BY <2>2, <2>3
<1>8. CASE UNCHANGED loop
  BY <1>2, <1>8 DEF LoopOK, Limited
<1>9. ASSUME NEW n \in 1 .. ReadSize, Read(n) PROVE UNCHANGED loop
  BY <1>9 DEF Read
<1>10. CASE Send \/ HangUp \/ TakeByte \/ UNCHANGED vars
  BY <1>8, <1>10 DEF Send, HangUp, TakeByte, vars
<1>11. QED
  BY <1>4, <1>5, <1>6, <1>7, <1>8, <1>9, <1>10 DEF Next, Reads, MainLoop

-----------------------------------------------------------------------------
(***************************************************************************)
(* The translator.                                                         *)
(***************************************************************************)
\* Whatever byte is fed, the parser stays in one of its states.
LEMMA FeedKeepsType == ASSUME TranslatorOK, NEW b \in Octet
  PROVE FeedNext(tr, b) \in
    [state : {"normal", "esc", "csi", "ss3"}, params : Seq(Octet), quit : BOOLEAN]
<1> DEFINE Type == [state : {"normal", "esc", "csi", "ss3"}, params : Seq(Octet), quit : BOOLEAN]
<1>1. tr \in Type
  BY DEF TranslatorOK, Translator
<1>2. \A t \in Type, s \in {"normal", "esc", "csi", "ss3"} : In(t, s) \in Type
  BY DEF In
<1>3. \A t \in Type : NormalNext(t, b) \in Type
  BY <1>2 DEF NormalNext
<1>4. [In(tr, "csi") EXCEPT !.params = <<>>] \in Type
  <2>1. \A t \in Type : [t EXCEPT !.params = <<>>] \in Type
    BY EmptySeq
  <2>2. In(tr, "csi") \in Type
    BY <1>1, <1>2
  <2>3. QED
    BY <2>1, <2>2, Zenon
<1>5. [tr EXCEPT !.params = Append(@, b)] \in Type
  BY <1>1
<1>6. QED
  BY <1>1, <1>2, <1>3, <1>4, <1>5 DEF FeedNext

\* Only a byte and a flush change the translator.
LEMMA TranslatorStep == ASSUME PipeOK, TranslatorOK, [Next]_vars PROVE TranslatorOK'
<1>1. CASE TakeByte
  <2>1. Head(channel.bytes) \in Octet
    BY <1>1, HeadTailProperties DEF PipeOK, TakeByte
  <2>2. tr' = FeedNext(tr, Head(channel.bytes))
    BY <1>1 DEF TakeByte
  <2>3. QED
    BY <2>1, <2>2, FeedKeepsType DEF TranslatorOK, Translator
<1>2. CASE EndDrain
  BY <1>2 DEF EndDrain, FlushNext, In, TranslatorOK, Translator
<1>3. CASE UNCHANGED tr
  BY <1>3 DEF TranslatorOK, Translator
<1>4. ASSUME ~TakeByte, ~EndDrain PROVE UNCHANGED tr
  BY <1>4 DEF Next, Reads, MainLoop, Read, Send, HangUp, StartFrame, FindsItClosed,
              MachineStep, MachineFails, EndFrame, vars
<1>5. QED
  BY <1>1, <1>2, <1>3, <1>4

-----------------------------------------------------------------------------
(***************************************************************************)
(* The screen.                                                             *)
(***************************************************************************)

\* What renderFrame leaves on the terminal is the screen, drawn now or before.
LEMMA RenderShows ==
  ASSUME ScreenOK, NEW force \in BOOLEAN, RenderFrame(force), UNCHANGED machineVars
  PROVE  ScreenOK'
<1>1. Screen' = Screen
  BY DEF Screen, machineVars
<1>2. DOMAIN Screen = 0 .. Rows - 1
  BY DEF Screen, Video!Render
<1>3. CASE terminal # <<>> /\ terminal.screen = Screen /\ ~force
  BY <1>1, <1>3 DEF RenderFrame, ScreenOK, ShownScreenIsCurrent
<1>4. CASE ~(terminal # <<>> /\ terminal.screen = Screen /\ ~force)
  <2>1. terminal' = [screen |-> Screen, cursor |-> Video!CursorPos(video)]
    BY <1>4 DEF RenderFrame
  <2>2. terminal'.screen = Screen
    BY <2>1
  <2>3. QED
    BY <1>1, <1>2, <2>2 DEF ScreenOK, ShownScreenIsCurrent
<1>5. QED
  BY <1>3, <1>4

\* Outside run nothing changes the machine, and whoever leaves run draws first.
LEMMA ScreenStep == ASSUME LoopOK, ScreenOK, [Next]_vars PROVE ScreenOK'
<1>1. CASE MachineFails \/ EndFrame
  <2>1. UNCHANGED machineVars /\ \E force \in BOOLEAN : RenderFrame(force)
    BY <1>1 DEF MachineFails, EndFrame
  <2>2. QED
    BY <2>1, RenderShows
<1>2. ASSUME NEW a \in scenario.accesses, MachineStep(a) PROVE ScreenOK'
  <2>1. At("run")' /\ UNCHANGED terminal
    BY <1>2 DEF MachineStep, At, Stepped, LoopOK
  <2>2. QED
    BY <2>1 DEF ScreenOK, ShownScreenIsCurrent
<1>3. ASSUME UNCHANGED machineVars, UNCHANGED terminal, ~At("run") \/ At("run")' PROVE ScreenOK'
  <2>1. Screen' = Screen
    BY <1>3 DEF Screen, machineVars
  <2>2. QED
    BY <1>3, <2>1 DEF ScreenOK, ShownScreenIsCurrent
<1>4. CASE StartFrame \/ TakeByte \/ FindsItClosed \/ EndDrain
  BY <1>3, <1>4 DEF StartFrame, TakeByte, FindsItClosed, EndDrain, At, Goes
<1>5. ASSUME UNCHANGED <<machineVars, terminal, loop>> PROVE ScreenOK'
  BY <1>3, <1>5 DEF At
<1>6. ASSUME NEW n \in 1 .. ReadSize, Read(n) PROVE ScreenOK'
  BY <1>5, <1>6 DEF Read
<1>7. CASE Send \/ HangUp
  BY <1>5, <1>7 DEF Send, HangUp
<1>8. CASE UNCHANGED vars
  BY <1>5, <1>8 DEF vars, machineVars
<1>9. QED
  BY <1>1, <1>2, <1>4, <1>6, <1>7, <1>8 DEF Next, Reads, MainLoop

-----------------------------------------------------------------------------
(***************************************************************************)
(* Codes that go down and come up.                                         *)
(***************************************************************************)

\* The places of a code in a sequence are finitely many.
LEMMA PlacesFinite ==
  ASSUME NEW s \in Seq(Octet), NEW code
  PROVE  /\ IsFiniteSet({i \in DOMAIN s : s[i] = code})
         /\ Occurrences(s, code) \in Nat
<1>1. DOMAIN s = 1 .. Len(s) /\ Len(s) \in Nat
  BY LenProperties
<1>2. IsFiniteSet(1 .. Len(s))
  BY <1>1, FS_Interval
<1>3. IsFiniteSet({i \in DOMAIN s : s[i] = code})
  BY <1>1, <1>2, FS_Subset
<1>4. QED
  BY <1>3, FS_CardinalityType DEF Occurrences

\* In two sequences joined a code occurs as often as in both together.
LEMMA OccurrencesAdd ==
  ASSUME NEW s \in Seq(Octet), NEW t \in Seq(Octet), NEW code
  PROVE  Occurrences(s \o t, code) = Occurrences(s, code) + Occurrences(t, code)
<1> DEFINE A == {i \in DOMAIN s : s[i] = code}
           B == {i \in DOMAIN t : t[i] = code}
           C == {i \in DOMAIN (s \o t) : (s \o t)[i] = code}
           D == {i \in C : i > Len(s)}
<1>1. /\ DOMAIN s = 1 .. Len(s) /\ DOMAIN t = 1 .. Len(t)
      /\ Len(s) \in Nat /\ Len(t) \in Nat
  BY LenProperties
<1>2. /\ DOMAIN (s \o t) = 1 .. Len(s) + Len(t)
      /\ \A i \in 1 .. Len(s) + Len(t) :
           (s \o t)[i] = IF i <= Len(s) THEN s[i] ELSE t[i - Len(s)]
  BY ConcatProperties, LenProperties
<1>3. IsFiniteSet(A) /\ IsFiniteSet(B) /\ Cardinality(A) \in Nat /\ Cardinality(B) \in Nat
  BY PlacesFinite DEF Occurrences
<1>4. C = A \cup D /\ A \cap D = {}
  BY <1>1, <1>2
<1>5. IsFiniteSet(D) /\ Cardinality(D) = Cardinality(B)
  <2> DEFINE moved == [i \in B |-> i + Len(s)]
  <2>1. moved \in [B -> D]
    BY <1>1, <1>2
  <2>2. \A i, j \in B : moved[i] = moved[j] => i = j
    BY <1>1
  <2>3. ASSUME NEW j \in D PROVE \E i \in B : moved[i] = j
    <3>1. j - Len(s) \in B
      BY <1>1, <1>2
    <3>2. moved[j - Len(s)] = j
      BY <1>1, <1>2, <3>1
    <3>3. QED
      BY <3>1, <3>2
  <2>4. moved \in Bijection(B, D)
    BY <2>1, <2>2, <2>3 DEF Bijection, Injection, IsInjective, Surjection
  <2>5. ExistsBijection(B, D)
    BY <2>4 DEF ExistsBijection
  <2>6. QED
    BY <1>3, <2>5, FS_Bijection
<1>6. Cardinality(A \cap D) = 0
  BY <1>4, FS_EmptySet
<1> HIDE DEF A, B, C, D
<1>7. Cardinality(C) = Cardinality(A) + Cardinality(B)
  <2>1. Cardinality(A \cup D) = Cardinality(A) + Cardinality(D) - Cardinality(A \cap D)
    BY <1>3, <1>5, FS_Union
  <2>2. QED
    BY <1>3, <1>4, <1>5, <1>6, <2>1
<1>8. QED
  BY <1>7 DEF Occurrences, A, B, C

\* One code, or none.
LEMMA OccurrencesOfWhen ==
  ASSUME NEW cond \in BOOLEAN, NEW c \in Octet, NEW code
  PROVE  /\ When(cond, c) \in Seq(Octet)
         /\ Occurrences(When(cond, c), code) = IF cond /\ c = code THEN 1 ELSE 0
<1>1. CASE cond /\ c = code
  <2>1. {i \in DOMAIN <<c>> : <<c>>[i] = code} = {1}
    BY <1>1
  <2>2. QED
    BY <1>1, <2>1, FS_Singleton DEF Occurrences, When
<1>2. CASE cond /\ c # code
  <2>1. {i \in DOMAIN <<c>> : <<c>>[i] = code} = {}
    BY <1>2
  <2>2. QED
    BY <1>2, <2>1, FS_EmptySet DEF Occurrences, When
<1>3. CASE ~cond
  <2>1. {i \in DOMAIN <<>> : <<>>[i] = code} = {}
    OBVIOUS
  <2>2. QED
    BY <1>3, <2>1, FS_EmptySet DEF Occurrences, When
<1>4. QED
  BY <1>1, <1>2, <1>3

\* A key goes down and comes up on the same condition.
LEMMA MakeAndBreak ==
  ASSUME NEW cond \in BOOLEAN, NEW make \in 1 .. 88
  PROVE  Released(When(cond, make), When(cond, Break(make)))
<1>1. make \in Octet /\ Break(make) \in Octet
  BY DEF Octet, Break
<1>2. ASSUME NEW code \in 1 .. 88
      PROVE  /\ Occurrences(When(cond, Break(make)), Break(code)) = Occurrences(When(cond, make), code)
             /\ Occurrences(When(cond, make), Break(code)) = 0
             /\ Occurrences(When(cond, Break(make)), code) = 0
  <2> DEFINE mb == Break(make)
             cb == Break(code)
  <2>1. /\ make \in Octet /\ mb \in Octet /\ (mb = cb <=> make = code)
        /\ make # cb /\ mb # code
    BY DEF Octet, Break
  <2> HIDE DEF mb, cb
  <2>2. /\ Occurrences(When(cond, make), code) = IF cond /\ make = code THEN 1 ELSE 0
        /\ Occurrences(When(cond, make), cb) = IF cond /\ make = cb THEN 1 ELSE 0
    BY <2>1, OccurrencesOfWhen
  <2>3. /\ Occurrences(When(cond, mb), code) = IF cond /\ mb = code THEN 1 ELSE 0
        /\ Occurrences(When(cond, mb), cb) = IF cond /\ mb = cb THEN 1 ELSE 0
    BY <2>1, OccurrencesOfWhen
  <2>4. /\ Occurrences(When(cond, mb), cb) = Occurrences(When(cond, make), code)
        /\ Occurrences(When(cond, make), cb) = 0
        /\ Occurrences(When(cond, mb), code) = 0
    <3>1. CASE cond
      <4>1. CASE make = code
        BY <2>1, <2>2, <2>3, <3>1, <4>1, Zenon
      <4>2. CASE make # code
        BY <2>1, <2>2, <2>3, <3>1, <4>2, Zenon
      <4>3. QED
        BY <4>1, <4>2
    <3>2. CASE ~cond
      BY <2>2, <2>3, <3>2, Zenon
    <3>3. QED
      BY <3>1, <3>2
  <2>5. QED
    BY <2>4 DEF mb, cb
<1>3. QED
  BY <1>1, <1>2, OccurrencesOfWhen DEF Released

\* What goes down last comes up first.
LEMMA ReleasedInside ==
  ASSUME NEW s, NEW t, NEW u, NEW v, Released(s, v), Released(t, u)
  PROVE  Released(s \o t, u \o v)
<1>1. s \in Seq(Octet) /\ t \in Seq(Octet) /\ u \in Seq(Octet) /\ v \in Seq(Octet)
  BY DEF Released
<1>2. s \o t \in Seq(Octet) /\ u \o v \in Seq(Octet)
  BY <1>1, ConcatProperties
<1>3. ASSUME NEW code \in 1 .. 88
      PROVE  /\ Occurrences(u \o v, Break(code)) = Occurrences(s \o t, code)
             /\ Occurrences(s \o t, Break(code)) = 0 /\ Occurrences(u \o v, code) = 0
  <2>1. /\ Occurrences(s \o t, code) = Occurrences(s, code) + Occurrences(t, code)
        /\ Occurrences(s \o t, Break(code)) = Occurrences(s, Break(code)) + Occurrences(t, Break(code))
    BY <1>1, OccurrencesAdd
  <2>2. /\ Occurrences(u \o v, code) = Occurrences(u, code) + Occurrences(v, code)
        /\ Occurrences(u \o v, Break(code)) = Occurrences(u, Break(code)) + Occurrences(v, Break(code))
    BY <1>1, OccurrencesAdd
  <2>3. /\ Occurrences(s, code) \in Nat /\ Occurrences(t, code) \in Nat
    BY <1>1, PlacesFinite
  <2>4. /\ Occurrences(v, Break(code)) = Occurrences(s, code)
        /\ Occurrences(s, Break(code)) = 0 /\ Occurrences(v, code) = 0
        /\ Occurrences(u, Break(code)) = Occurrences(t, code)
        /\ Occurrences(t, Break(code)) = 0 /\ Occurrences(u, code) = 0
    BY Zenon DEF Released
  <2>5. QED
    BY <2>1, <2>2, <2>3, <2>4
<1>4. QED
  BY <1>2, <1>3 DEF Released

\* The prefix of the extended keys is no key.
LEMMA PrefixIsNoKey == ASSUME NEW cond \in BOOLEAN PROVE NoKeyIn(When(cond, ExtendedPrefix))
<1>1. ASSUME NEW code \in 1 .. 88
      PROVE  /\ Occurrences(When(cond, ExtendedPrefix), code) = 0
             /\ Occurrences(When(cond, ExtendedPrefix), Break(code)) = 0
  <2>1. ExtendedPrefix \in Octet /\ ExtendedPrefix # code /\ ExtendedPrefix # Break(code)
    BY DEF Octet, Break, ExtendedPrefix
  <2>2. QED
    BY <2>1, OccurrencesOfWhen
<1>2. ExtendedPrefix \in Octet
  BY DEF Octet, ExtendedPrefix
<1>3. QED
  BY <1>1, <1>2, OccurrencesOfWhen DEF NoKeyIn

\* Nothing is balanced, and two balanced sequences are balanced together.
LEMMA BalanceAdds ==
  /\ Balanced(<<>>)
  /\ \A s, t : Balanced(s) /\ Balanced(t) => Balanced(s \o t)
<1>1. Balanced(<<>>)
  <2>1. \A code : {i \in DOMAIN <<>> : <<>>[i] = code} = {}
    OBVIOUS
  <2>2. \A code : Occurrences(<<>>, code) = Cardinality({})
    BY <2>1 DEF Occurrences
  <2>3. QED
    BY <2>2, EmptySeq DEF Balanced
<1>2. ASSUME NEW s, NEW t, Balanced(s), Balanced(t) PROVE Balanced(s \o t)
  <2>1. s \in Seq(Octet) /\ t \in Seq(Octet)
    BY <1>2 DEF Balanced
  <2>2. s \o t \in Seq(Octet)
    BY <2>1, ConcatProperties
  <2>3. ASSUME NEW code \in 1 .. 88
        PROVE  Occurrences(s \o t, code) = Occurrences(s \o t, Break(code))
    <3>1. /\ Occurrences(s, code) = Occurrences(s, Break(code))
          /\ Occurrences(t, code) = Occurrences(t, Break(code))
      BY <1>2 DEF Balanced
    <3>2. QED
      BY <2>1, <3>1, OccurrencesAdd
  <2>4. QED
    BY <2>2, <2>3 DEF Balanced
<1>3. QED
  BY <1>1, <1>2

\* Three sequences joined, and six.
LEMMA ThreeJoined ==
  ASSUME NEW s \in Seq(Octet), NEW t \in Seq(Octet), NEW u \in Seq(Octet), NEW c \in Nat
  PROVE  /\ s \o t \o u \in Seq(Octet)
         /\ Occurrences(s \o t \o u, c)
              = Occurrences(s, c) + Occurrences(t, c) + Occurrences(u, c)
<1>1. s \o t \in Seq(Octet)
  BY ConcatProperties
<1>2. Occurrences((s \o t) \o u, c) = Occurrences(s \o t, c) + Occurrences(u, c)
  BY <1>1, OccurrencesAdd
<1>3. Occurrences(s \o t, c) = Occurrences(s, c) + Occurrences(t, c)
  BY OccurrencesAdd
<1>4. (s \o t) \o u \in Seq(Octet)
  BY <1>1, ConcatProperties
<1>5. QED
  BY <1>2, <1>3, <1>4

\* Six as two times three.
LEMMA SixJoined ==
  ASSUME NEW s \in Seq(Octet), NEW t \in Seq(Octet), NEW u \in Seq(Octet),
         NEW v \in Seq(Octet), NEW w \in Seq(Octet), NEW x \in Seq(Octet), NEW c \in Nat
  PROVE  /\ s \o t \o u \o v \o w \o x \in Seq(Octet)
         /\ Occurrences(s \o t \o u \o v \o w \o x, c)
              = Occurrences(s, c) + Occurrences(t, c) + Occurrences(u, c)
                + Occurrences(v, c) + Occurrences(w, c) + Occurrences(x, c)
<1> DEFINE front == s \o t \o u
           four == front \o v
           five == four \o w
<1>1. /\ front \in Seq(Octet)
      /\ Occurrences(front, c) = Occurrences(s, c) + Occurrences(t, c) + Occurrences(u, c)
  BY ThreeJoined
<1> HIDE DEF front
<1>2. four \in Seq(Octet) /\ Occurrences(four, c) = Occurrences(front, c) + Occurrences(v, c)
  BY <1>1, ConcatProperties, OccurrencesAdd
<1> HIDE DEF four
<1>3. five \in Seq(Octet) /\ Occurrences(five, c) = Occurrences(four, c) + Occurrences(w, c)
  BY <1>2, ConcatProperties, OccurrencesAdd
<1> HIDE DEF five
<1>4. /\ five \o x \in Seq(Octet)
      /\ Occurrences(five \o x, c) = Occurrences(five, c) + Occurrences(x, c)
  BY <1>3, ConcatProperties, OccurrencesAdd
<1>5. five \o x = s \o t \o u \o v \o w \o x
  BY DEF five, four, front
<1>6. QED
  BY <1>1, <1>2, <1>3, <1>4, <1>5

\* A key between its modifiers, with or without a prefix.
LEMMA BalancedAround ==
  ASSUME NEW down, NEW up, NEW make, NEW break, NEW e,
         Released(down, up), Released(make, break), NoKeyIn(e)
  PROVE  Balanced(down \o e \o make \o e \o break \o up)
<1>1. /\ down \in Seq(Octet) /\ up \in Seq(Octet) /\ make \in Seq(Octet)
      /\ break \in Seq(Octet) /\ e \in Seq(Octet)
  BY DEF Released, NoKeyIn
<1>2. ASSUME NEW code \in 1 .. 88
      PROVE  Occurrences(down \o e \o make \o e \o break \o up, code)
               = Occurrences(down \o e \o make \o e \o break \o up, Break(code))
  <2>1. code \in Nat /\ Break(code) \in Nat
    BY DEF Break
  <2> DEFINE cb == Break(code)
  <2>2. /\ Occurrences(up, cb) = Occurrences(down, code)
        /\ Occurrences(down, cb) = 0 /\ Occurrences(up, code) = 0
        /\ Occurrences(break, cb) = Occurrences(make, code)
        /\ Occurrences(make, cb) = 0 /\ Occurrences(break, code) = 0
        /\ Occurrences(e, code) = 0 /\ Occurrences(e, cb) = 0
    BY DEF Released, NoKeyIn
  <2>3. Occurrences(down, code) \in Nat /\ Occurrences(make, code) \in Nat
    BY <1>1, PlacesFinite
  <2> DEFINE all == down \o e \o make \o e \o break \o up
  <2>4. \A c \in Nat : Occurrences(all, c)
          = Occurrences(down, c) + Occurrences(e, c) + Occurrences(make, c)
            + Occurrences(e, c) + Occurrences(break, c) + Occurrences(up, c)
    BY SMTT(30), <1>1, SixJoined
  <2>5. cb \in Nat
    BY <2>1
  <2> HIDE DEF cb, all
  <2>6. Occurrences(all, code) = Occurrences(down, code) + Occurrences(make, code)
    BY <2>1, <2>2, <2>3, <2>4
  <2>7. Occurrences(all, cb) = Occurrences(down, code) + Occurrences(make, code)
    BY <2>2, <2>3, <2>4, <2>5
  <2>8. QED
    BY <2>6, <2>7 DEF cb, all
<1>3. down \o e \o make \o e \o break \o up \in Seq(Octet)
  BY <1>1, SixJoined
<1>4. QED
  BY <1>2, <1>3 DEF Balanced

\* A key that is pressed comes up again, and so do its modifiers: every make
\* that PressKey sends has its break.
LEMMA PressKeyBalanced ==
  ASSUME NEW k, k.code \in 1 .. 88, k.extended \in BOOLEAN, NEW mods
  PROVE  Balanced(PressKey(k, mods))
<1> DEFINE e == When(k.extended, ExtendedPrefix)
           make == When(TRUE, k.code)
           break == When(TRUE, Break(k.code))
<1>1. PressKey(k, mods) = ModsMake(mods) \o e \o make \o e \o break \o ModsBreak(mods)
  BY DEF PressKey, When
<1>2. Released(make, break) /\ NoKeyIn(e)
  BY MakeAndBreak, PrefixIsNoKey
<1>3. /\ Released(When("Shift" \in mods, 42), When("Shift" \in mods, Break(42)))
      /\ Released(When("Ctrl" \in mods, 29), When("Ctrl" \in mods, Break(29)))
      /\ Released(When("Alt" \in mods, 56), When("Alt" \in mods, Break(56)))
  <2>1. \A cond \in BOOLEAN, m \in 1 .. 88 : Released(When(cond, m), When(cond, Break(m)))
    BY MakeAndBreak
  <2>2. 42 \in 1 .. 88 /\ 29 \in 1 .. 88 /\ 56 \in 1 .. 88
    OBVIOUS
  <2>3. /\ ("Shift" \in mods) \in BOOLEAN /\ ("Ctrl" \in mods) \in BOOLEAN
        /\ ("Alt" \in mods) \in BOOLEAN
    OBVIOUS
  <2>4. QED
    BY <2>1, <2>2, <2>3, Zenon
<1>4. Released(ModsMake(mods), ModsBreak(mods))
  <2> DEFINE s1 == When("Shift" \in mods, 42)
             s2 == When("Ctrl" \in mods, 29)
             s3 == When("Alt" \in mods, 56)
             b1 == When("Shift" \in mods, Break(42))
             b2 == When("Ctrl" \in mods, Break(29))
             b3 == When("Alt" \in mods, Break(56))
  <2>1. ModsMake(mods) = s1 \o s2 \o s3 /\ ModsBreak(mods) = b3 \o b2 \o b1
    BY DEF ModsMake, ModsBreak
  <2>2. Released(s1, b1) /\ Released(s2, b2) /\ Released(s3, b3)
    BY <1>3
  <2> HIDE DEF s1, s2, s3, b1, b2, b3
  <2>3. Released(s1 \o s2, b2 \o b1)
    BY <2>2, ReleasedInside
  <2>4. Released((s1 \o s2) \o s3, b3 \o (b2 \o b1))
    BY <2>2, <2>3, ReleasedInside
  <2>5. b1 \in Seq(Octet) /\ b2 \in Seq(Octet) /\ b3 \in Seq(Octet)
    BY <2>2 DEF Released
  <2>6. b3 \o (b2 \o b1) = b3 \o b2 \o b1
    BY SMTT(30), <2>5, ConcatAssociative
  <2>7. QED
    BY <2>1, <2>4, <2>6
<1> HIDE DEF e, make, break
<1>5. QED
  BY <1>1, <1>2, <1>4, BalancedAround

\* The named keys have make codes of the keyboard.
LEMMA KeysOfTheKeyboard ==
  \A name \in DOMAIN Key : Key[name].code \in 1 .. 88 /\ Key[name].extended \in BOOLEAN
<1>1. \A name \in DOMAIN Key : \E c \in 1 .. 88 : Key[name] \in {Plain(c), Extended(c)}
  BY DEF Key
<1>2. \A c : /\ Plain(c).code = c /\ Plain(c).extended \in BOOLEAN
             /\ Extended(c).code = c /\ Extended(c).extended \in BOOLEAN
  BY DEF Plain, Extended
<1>3. QED
  BY <1>1, <1>2

\* So it is with a byte that is typed, whatever key it is on.
LEMMA TypeByteBalanced == ASSUME NEW b PROVE Balanced(TypeByte(b))
<1>1. \A c \in 1 .. 88 : \A mods : Balanced(PressKey(Plain(c), mods))
  BY PressKeyBalanced DEF Plain
<1>2. ASSUME NEW d \in DOMAIN KeyMap, NEW mods
      PROVE  Balanced(PressKey(Plain(KeyMap[d].code), mods))
  BY <1>1, KeyMapAssumption
<1>3. \A mods : /\ Balanced(PressKey(Key.Enter, mods)) /\ Balanced(PressKey(Key.Backspace, mods))
                /\ Balanced(PressKey(Key.Tab, mods)) /\ Balanced(PressKey(Key.Esc, mods))
  BY <1>1 DEF Key
<1>4. QED
  BY <1>2, <1>3, BalanceAdds, Zenon DEF TypeByte

\* Every key of a sequence is a key of the keyboard.
LEMMA FinalKeysBalanced ==
  /\ \A b : Balanced(ArrowOrFn(b))
  /\ \A t, b : Balanced(CSIFinal(t, b))
<1>1. \A b \in DOMAIN FinalKey :
        FinalKey[b].code \in 1 .. 88 /\ FinalKey[b].extended \in BOOLEAN
  <2>1. \A b \in DOMAIN FinalKey : \E name \in DOMAIN Key : FinalKey[b] = Key[name]
    BY DEF FinalKey, Key
  <2>2. QED
    BY <2>1, KeysOfTheKeyboard
<1>2. \A p \in DOMAIN TildeKey :
        TildeKey[p].code \in 1 .. 88 /\ TildeKey[p].extended \in BOOLEAN
  <2>1. ASSUME NEW d \in 49 .. 56
        PROVE  \E name \in DOMAIN Key : TildeKey[<<d>>] = Key[name]
    <3>1. <<d>> \in {<<x>> : x \in 49 .. 56} /\ <<d>>[1] = d
      OBVIOUS
    <3>2. QED
      BY <3>1 DEF TildeKey, Key
  <2>2. DOMAIN TildeKey = {<<x>> : x \in 49 .. 56}
    BY DEF TildeKey
  <2>3. QED
    BY <2>1, <2>2, KeysOfTheKeyboard
<1>3. \A b : Balanced(ArrowOrFn(b))
  BY <1>1, PressKeyBalanced, BalanceAdds DEF ArrowOrFn
<1>4. \A t, b : Balanced(CSIFinal(t, b))
  BY <1>2, <1>3, PressKeyBalanced, BalanceAdds DEF CSIFinal
<1>5. QED
  BY <1>3, <1>4

\* A typed byte is a sequence of codes.
LEMMA NormalKeysBalanced == ASSUME NEW b PROVE Balanced(NormalKeys(b))
<1>1. "Backspace" \in DOMAIN Key
  BY DEF Key
<1>2. Balanced(PressKey(Key.Backspace, {}))
  <2>1. Key.Backspace.code \in 1 .. 88 /\ Key.Backspace.extended \in BOOLEAN
    BY <1>1, KeysOfTheKeyboard
  <2>2. QED
    BY <2>1, PressKeyBalanced
<1>3. QED
  BY <1>2, TypeByteBalanced, BalanceAdds, Zenon DEF NormalKeys

\* Whatever byte is fed and whatever is flushed, what is sent is balanced.
LEMMA FeedBalanced ==
  ASSUME TranslatorOK
  PROVE  (\A b : Balanced(FeedKeys(tr, b))) /\ Balanced(FlushKeys(tr))
<1>1. Balanced(PressKey(Key.Esc, {}))
  <2>1. "Esc" \in DOMAIN Key
    BY DEF Key
  <2>2. Key.Esc.code \in 1 .. 88 /\ Key.Esc.extended \in BOOLEAN
    BY <2>1, KeysOfTheKeyboard
  <2>3. QED
    BY <2>2, PressKeyBalanced
<1>2. \A b : Balanced(NormalKeys(b))
  BY NormalKeysBalanced
<1>3. ASSUME NEW b PROVE Balanced(FeedKeys(tr, b))
  <2>1. tr.state \in {"normal", "esc", "csi", "ss3"}
    BY DEF TranslatorOK, Translator
  <2>2. Balanced(PressKey(Key.Esc, {}) \o NormalKeys(b))
    BY <1>1, <1>2, BalanceAdds
  <2>3. QED
    BY <1>2, <2>1, <2>2, FinalKeysBalanced, BalanceAdds DEF FeedKeys
<1>4. QED
  BY <1>1, <1>3, BalanceAdds DEF FlushKeys

\* Only a byte and a flush send codes.
LEMMA BalanceStep ==
  ASSUME TranslatorOK, Balanced(typed), [Next]_vars PROVE Balanced(typed)'
<1>1. CASE TakeByte
  <2>1. typed' = typed \o FeedKeys(tr, Head(channel.bytes))
    BY <1>1 DEF TakeByte
  <2>2. Balanced(typed \o FeedKeys(tr, Head(channel.bytes)))
    BY FeedBalanced, BalanceAdds
  <2>3. QED
    BY <2>1, <2>2
<1>2. CASE EndDrain
  <2>1. typed' = typed \o FlushKeys(tr)
    BY <1>2 DEF EndDrain
  <2>2. Balanced(typed \o FlushKeys(tr))
    BY FeedBalanced, BalanceAdds
  <2>3. QED
    BY <2>1, <2>2
<1>3. CASE UNCHANGED typed
  BY <1>3
<1>4. ASSUME ~TakeByte, ~EndDrain PROVE UNCHANGED typed
  BY <1>4 DEF Next, Reads, MainLoop, Read, Send, HangUp, StartFrame, FindsItClosed,
              MachineStep, MachineFails, EndFrame, vars, userVars
<1>5. QED
  BY <1>1, <1>2, <1>3, <1>4

-----------------------------------------------------------------------------
(***************************************************************************)
(* Sequences joined, one after the other.                                  *)
(***************************************************************************)

\* A set of numbers with 0 in it, and with each number up to n the next, has
\* all numbers up to n.
LEMMA UpTo ==
  ASSUME NEW n \in Nat, NEW T, 0 \in T, \A m \in 0 .. n - 1 : m \in T => m + 1 \in T
  PROVE  \A m \in 0 .. n : m \in T
<1> DEFINE M == (0 .. n) \ T
<1> SUFFICES ASSUME M # {} PROVE FALSE
  OBVIOUS
<1>1. M \subseteq Nat
  OBVIOUS
<1>2. PICK x \in M : \A y \in M : <<y, x>> \notin OpToRel(<, Nat)
  BY <1>1, NatLessThanWellFounded, WFMin
<1>3. \A y \in M : ~(y < x)
  <2>1. OpToRel(<, Nat) = {ss \in Nat \X Nat : ss[1] < ss[2]}
    BY Zenon DEF OpToRel
  <2>2. QED
    BY <1>1, <1>2, <2>1
<1>4. x # 0 /\ x - 1 \in 0 .. n - 1 /\ x - 1 < x
  OBVIOUS
<1>5. x - 1 \notin M
  BY <1>3, <1>4
<1>6. QED
  BY <1>4, <1>5

\* f holds the beginnings of what is made of s, joined up to m.
Joins(S, s, f, m) ==
  /\ f \in [0 .. m -> Seq(S)]
  /\ f[0] = <<>>
  /\ \A i \in 1 .. m : f[i] = f[i - 1] \o s[i]

\* There are such beginnings.
LEMMA JoinsExist ==
  ASSUME NEW S, NEW s \in Seq(Seq(S))
  PROVE  \E f : Joins(S, s, f, Len(s))
<1> DEFINE N == Len(s)
           T == {m \in 0 .. N : \E f : Joins(S, s, f, m)}
<1>1. N \in Nat /\ \A i \in 1 .. N : s[i] \in Seq(S)
  BY LenProperties, ElementOfSeq
<1> HIDE DEF N
<1>2. 0 \in T
  <2> DEFINE f == [i \in 0 .. 0 |-> <<>>]
  <2>1. f \in [0 .. 0 -> Seq(S)] /\ f[0] = <<>>
    BY EmptySeq
  <2> HIDE DEF f
  <2>2. Joins(S, s, f, 0)
    BY <2>1 DEF Joins
  <2>3. 0 \in 0 .. N
    BY <1>1
  <2>4. QED
    BY <2>2, <2>3, Zenon
<1>3. ASSUME NEW m \in 0 .. N - 1, m \in T PROVE m + 1 \in T
  <2>1. PICK f : Joins(S, s, f, m)
    BY <1>3, Zenon
  <2> DEFINE w == f[m] \o s[m + 1]
             g == [i \in 0 .. m + 1 |-> IF i = m + 1 THEN w ELSE f[i]]
  <2>2. f[m] \in Seq(S) /\ s[m + 1] \in Seq(S) /\ \A i \in 0 .. m : f[i] \in Seq(S)
    BY <1>1, <2>1 DEF Joins
  <2>3. w \in Seq(S)
    BY <2>2, ConcatProperties
  <2> HIDE DEF w
  <2>4. g \in [0 .. m + 1 -> Seq(S)]
    BY <2>2, <2>3
  <2>5. g[m + 1] = w /\ \A i \in 0 .. m : g[i] = f[i]
    OBVIOUS
  <2> HIDE DEF g
  <2>6. g[0] = <<>>
    BY <2>1, <2>5 DEF Joins
  <2>7. ASSUME NEW i \in 1 .. m + 1 PROVE g[i] = g[i - 1] \o s[i]
    <3>1. CASE i = m + 1
      <4>1. g[i] = w /\ g[i - 1] = f[m]
        BY <2>5, <3>1
      <4>2. QED
        BY <3>1, <4>1 DEF w
    <3>2. CASE i # m + 1
      <4>1. i \in 1 .. m /\ g[i] = f[i] /\ g[i - 1] = f[i - 1]
        BY <2>5, <3>2
      <4>2. QED
        BY <2>1, <4>1 DEF Joins
    <3>3. QED
      BY <3>1, <3>2
  <2>8. Joins(S, s, g, m + 1)
    BY <2>4, <2>6, <2>7 DEF Joins
  <2>9. m + 1 \in 0 .. N
    BY <1>1
  <2>10. QED
    BY <2>8, <2>9, Zenon
<1> HIDE DEF T
<1>4. N \in T
  <2>1. \A m \in 0 .. N - 1 : m \in T => m + 1 \in T
    BY <1>3
  <2>2. \A m \in 0 .. N : m \in T
    BY <1>1, <1>2, <2>1, UpTo
  <2>3. QED
    BY <1>1, <2>2
<1>5. QED
  BY <1>4, Zenon DEF T, N

\* They are what FlattenSeq makes of the beginnings of s.
LEMMA JoinsFlatten ==
  ASSUME NEW S, NEW s \in Seq(Seq(S)), NEW f, Joins(S, s, f, Len(s)), NEW m \in 0 .. Len(s)
  PROVE  FlattenSeq(SubSeq(s, 1, m)) = f[m]
<1>1. Len(s) \in Nat /\ \A i \in 1 .. Len(s) : s[i] \in Seq(S)
  BY LenProperties, ElementOfSeq
<1>2. CASE m = 0
  <2>1. SubSeq(s, 1, 0) = <<>> /\ Len(<<>>) = 0
    BY SubSeqEmpty
  <2>2. QED
    BY <1>2, <2>1 DEF FlattenSeq, Joins
<1>3. CASE m # 0
  <2> DEFINE u == SubSeq(s, 1, m)
             Flat(h) == h = [i \in 1 .. Len(u) |-> IF i = 1 THEN u[i] ELSE h[i - 1] \o u[i]]
             g == CHOOSE h : Flat(h)
             h0 == [i \in 1 .. m |-> f[i]]
  <2>1. Len(u) = m /\ (\A i \in 1 .. m : u[i] = s[i]) /\ m \in Nat \ {0}
    BY <1>1, <1>3, SubSeqProperties
  <2>2. FlattenSeq(u) = g[m]
    <3>1. Len(u) # 0
      BY <2>1
    <3>2. FlattenSeq(u) = g[Len(u)]
      BY <3>1 DEF FlattenSeq
    <3>3. QED
      BY <2>1, <3>2
  <2> HIDE DEF u
  <2>3. f[1] = u[1] /\ \A i \in 2 .. m : f[i] = f[i - 1] \o u[i]
    <3>1. f[1] = f[0] \o s[1] /\ f[0] = <<>> /\ s[1] \in Seq(S)
      <4>1. 1 \in 1 .. Len(s) /\ 1 - 1 = 0
        BY <1>1, <2>1
      <4>2. QED
        BY <1>1, <4>1 DEF Joins
    <3>2. f[1] = u[1]
      BY <2>1, <3>1, ConcatEmptySeq
    <3>3. \A i \in 2 .. m : i \in 1 .. m /\ i \in 1 .. Len(s)
      BY <1>1
    <3>4. QED
      BY <2>1, <3>2, <3>3 DEF Joins
  <2>4. Flat(h0)
    <3> DEFINE F(i) == IF i = 1 THEN u[i] ELSE h0[i - 1] \o u[i]
    <3>1. ASSUME NEW i \in 1 .. m PROVE f[i] = F(i)
      <4>1. CASE i = 1
        BY <2>3, <4>1
      <4>2. CASE i # 1
        <5>1. i \in 2 .. m /\ i - 1 \in 1 .. m
          BY <4>2
        <5>2. h0[i - 1] = f[i - 1]
          BY <5>1
        <5> HIDE DEF h0
        <5>3. QED
          BY <2>3, <4>2, <5>1, <5>2
      <4>3. QED
        BY <4>1, <4>2
    <3> HIDE DEF F
    <3>2. h0 = [i \in 1 .. m |-> F(i)]
      BY <3>1
    <3>3. h0 = [i \in 1 .. Len(u) |-> F(i)]
      BY <2>1, <3>2
    <3> HIDE DEF h0
    <3>4. QED
      BY <3>3, Zenon DEF F
  <2> HIDE DEF h0
  <2>5. Flat(g)
    BY <2>4, Zenon
  <2> HIDE DEF g
  <2>6. g[1] = u[1] /\ \A i \in 2 .. m : g[i] = g[i - 1] \o u[i]
    <3>1. g = [i \in 1 .. m |-> IF i = 1 THEN u[i] ELSE g[i - 1] \o u[i]]
      BY <2>1, <2>5, Zenon
    <3>2. \A i \in 1 .. m : g[i] = IF i = 1 THEN u[i] ELSE g[i - 1] \o u[i]
      BY <3>1, Zenon
    <3>3. 1 \in 1 .. m /\ \A i \in 2 .. m : i \in 1 .. m /\ i # 1
      BY <2>1
    <3>4. QED
      BY <3>2, <3>3, Zenon
  <2> HIDE DEF Flat
  <2> DEFINE T == {i \in 0 .. m : i = 0 \/ g[i] = f[i]}
  <2>7. 0 \in T
    BY <2>1
  <2>8. ASSUME NEW i \in 0 .. m - 1, i \in T PROVE i + 1 \in T
    <3>1. CASE i = 0
      BY <2>1, <2>3, <2>6, <3>1
    <3>2. CASE i # 0
      <4>1. g[i] = f[i] /\ i + 1 \in 2 .. m /\ (i + 1) - 1 = i /\ i + 1 \in 0 .. m
        <5>1. i + 1 \in 2 .. m /\ (i + 1) - 1 = i /\ i + 1 \in 0 .. m
          BY <2>1, <3>2
        <5>2. g[i] = f[i]
          BY <2>8, <3>2
        <5>3. QED
          BY <5>1, <5>2
      <4>2. g[i + 1] = f[i + 1]
        BY <2>3, <2>6, <4>1
      <4>3. QED
        BY <4>1, <4>2
    <3>3. QED
      BY <3>1, <3>2
  <2> HIDE DEF T
  <2>9. m \in T
    <3>1. \A i \in 0 .. m - 1 : i \in T => i + 1 \in T
      BY <2>8
    <3>2. \A i \in 0 .. m : i \in T
      BY <2>1, <2>7, <3>1, UpTo
    <3>3. QED
      BY <2>1, <3>2
  <2>10. QED
    BY <2>1, <2>2, <2>9 DEF T, u
<1>4. QED
  BY <1>2, <1>3

\* So FlattenSeq, taken of longer and longer beginnings of s, adds one part a time.
LEMMA FlattenAdds ==
  ASSUME NEW S, NEW s \in Seq(Seq(S))
  PROVE  /\ FlattenSeq(SubSeq(s, 1, 0)) = <<>>
         /\ \A m \in 0 .. Len(s) : FlattenSeq(SubSeq(s, 1, m)) \in Seq(S)
         /\ \A m \in 0 .. Len(s) - 1 :
              FlattenSeq(SubSeq(s, 1, m + 1)) = FlattenSeq(SubSeq(s, 1, m)) \o s[m + 1]
<1>1. PICK f : Joins(S, s, f, Len(s))
  BY JoinsExist
<1>2. \A m \in 0 .. Len(s) : FlattenSeq(SubSeq(s, 1, m)) = f[m]
  BY <1>1, JoinsFlatten
<1>3. Len(s) \in Nat
  BY LenProperties
<1>4. /\ f[0] = <<>> /\ \A m \in 0 .. Len(s) : f[m] \in Seq(S)
      /\ \A m \in 0 .. Len(s) - 1 : f[m + 1] = f[m] \o s[m + 1]
  <2>1. ASSUME NEW m \in 0 .. Len(s) - 1 PROVE f[m + 1] = f[m] \o s[m + 1]
    <3>1. m + 1 \in 1 .. Len(s) /\ (m + 1) - 1 = m
      BY <1>3
    <3>2. f[m + 1] = f[(m + 1) - 1] \o s[m + 1]
      BY <1>1, <3>1, Zenon DEF Joins
    <3>3. QED
      BY <3>1, <3>2
  <2>2. QED
    BY <1>1, <2>1 DEF Joins
<1>5. 0 \in 0 .. Len(s) /\ \A m \in 0 .. Len(s) - 1 : m \in 0 .. Len(s) /\ m + 1 \in 0 .. Len(s)
  BY <1>3
<1>6. QED
  BY <1>2, <1>4, <1>5, Zenon

-----------------------------------------------------------------------------
(***************************************************************************)
(* The keys of the user, and how far they have been fed.                   *)
(***************************************************************************)
UserKey == [bytes : Seq(Octet), codes : Seq(Octet)]
UserKeys == Seq(UserKey)

\* Each of them has its bytes and its codes.
LEMMA TypeOfKeys ==
  ASSUME NEW ks \in UserKeys
  PROVE  /\ Len(ks) \in Nat
         /\ \A i \in 1 .. Len(ks) :
              ks[i] \in UserKey /\ ks[i].bytes \in Seq(Octet) /\ ks[i].codes \in Seq(Octet)
<1>1. ks \in Seq(UserKey)
  BY DEF UserKeys
<1>2. Len(ks) \in Nat /\ \A i \in 1 .. Len(ks) : ks[i] \in UserKey
  BY <1>1, LenProperties, ElementOfSeq
<1>3. \A k \in UserKey : k.bytes \in Seq(Octet) /\ k.codes \in Seq(Octet)
  BY DEF UserKey
<1>4. QED
  BY <1>2, <1>3

\* What a field of the first n keys makes, taken from the list of that field.
LEMMA PartsOfKeys ==
  ASSUME NEW ks \in UserKeys, NEW n \in 0 .. Len(ks)
  PROVE  /\ BytesUpTo(ks, n) = FlattenSeq(SubSeq([i \in 1 .. Len(ks) |-> ks[i].bytes], 1, n))
         /\ CodesUpTo(ks, n) = FlattenSeq(SubSeq([i \in 1 .. Len(ks) |-> ks[i].codes], 1, n))
<1> DEFINE u == SubSeq(ks, 1, n)
           bs == [i \in 1 .. Len(ks) |-> ks[i].bytes]
           cs == [i \in 1 .. Len(ks) |-> ks[i].codes]
<1>1. /\ Len(ks) \in Nat
      /\ \A i \in 1 .. Len(ks) :
           ks[i] \in UserKey /\ ks[i].bytes \in Seq(Octet) /\ ks[i].codes \in Seq(Octet)
  BY TypeOfKeys
<1>2. u \in Seq(UserKey) /\ Len(u) = n /\ \A i \in 1 .. n : u[i] = ks[i]
  <2>1. \A i \in 1 .. n : ks[i] \in UserKey
    BY <1>1
  <2>2. QED
    BY <1>1, <2>1, SubSeqProperties
<1>3. DOMAIN u = 1 .. n
  BY <1>2, LenProperties
<1>4. /\ bs \in Seq(Seq(Octet)) /\ Len(bs) = Len(ks) /\ \A i \in 1 .. n : bs[i] = ks[i].bytes
      /\ cs \in Seq(Seq(Octet)) /\ Len(cs) = Len(ks) /\ \A i \in 1 .. n : cs[i] = ks[i].codes
  BY <1>1, IsASeq
<1> HIDE DEF u, bs, cs
<1>5. [i \in DOMAIN u |-> u[i].bytes] = SubSeq(bs, 1, n)
  <2> DEFINE w == SubSeq(bs, 1, n)
  <2>1. w \in Seq(Seq(Octet)) /\ Len(w) = n /\ \A i \in 1 .. n : w[i] = bs[i]
    <3>1. \A i \in 1 .. n : bs[i] \in Seq(Octet)
      BY <1>1, <1>4
    <3>2. QED
      BY <1>1, <1>4, <3>1, SubSeqProperties
  <2> HIDE DEF w
  <2>2. w = [i \in 1 .. n |-> w[i]]
    BY <2>1, LenProperties
  <2>3. \A i \in 1 .. n : w[i] = u[i].bytes
    BY <1>2, <1>4, <2>1
  <2>4. QED
    BY <1>3, <2>2, <2>3 DEF w
<1>6. [i \in DOMAIN u |-> u[i].codes] = SubSeq(cs, 1, n)
  <2> DEFINE w == SubSeq(cs, 1, n)
  <2>1. w \in Seq(Seq(Octet)) /\ Len(w) = n /\ \A i \in 1 .. n : w[i] = cs[i]
    <3>1. \A i \in 1 .. n : cs[i] \in Seq(Octet)
      BY <1>1, <1>4
    <3>2. QED
      BY <1>1, <1>4, <3>1, SubSeqProperties
  <2> HIDE DEF w
  <2>2. w = [i \in 1 .. n |-> w[i]]
    BY <2>1, LenProperties
  <2>3. \A i \in 1 .. n : w[i] = u[i].codes
    BY <1>2, <1>4, <2>1
  <2>4. QED
    BY <1>3, <2>2, <2>3 DEF w
<1>7. QED
  BY <1>5, <1>6, Zenon DEF BytesUpTo, CodesUpTo, Bytes, Codes, u, bs, cs

\* Key by key the bytes and the codes grow.
LEMMA KeysAdd ==
  ASSUME NEW ks \in UserKeys
  PROVE  /\ BytesUpTo(ks, 0) = <<>> /\ CodesUpTo(ks, 0) = <<>>
         /\ \A n \in 0 .. Len(ks) : BytesUpTo(ks, n) \in Seq(Octet) /\ CodesUpTo(ks, n) \in Seq(Octet)
         /\ \A n \in 0 .. Len(ks) - 1 :
              /\ BytesUpTo(ks, n + 1) = BytesUpTo(ks, n) \o ks[n + 1].bytes
              /\ CodesUpTo(ks, n + 1) = CodesUpTo(ks, n) \o ks[n + 1].codes
         /\ BytesUpTo(ks, Len(ks)) = Bytes(ks)
<1> DEFINE bs == [i \in 1 .. Len(ks) |-> ks[i].bytes]
           cs == [i \in 1 .. Len(ks) |-> ks[i].codes]
<1>1. Len(ks) \in Nat /\ \A i \in 1 .. Len(ks) : ks[i].bytes \in Seq(Octet) /\ ks[i].codes \in Seq(Octet)
  BY TypeOfKeys
<1>2. /\ bs \in Seq(Seq(Octet)) /\ Len(bs) = Len(ks) /\ \A i \in 1 .. Len(ks) : bs[i] = ks[i].bytes
      /\ cs \in Seq(Seq(Octet)) /\ Len(cs) = Len(ks) /\ \A i \in 1 .. Len(ks) : cs[i] = ks[i].codes
  BY <1>1, IsASeq
<1>3. \A n \in 0 .. Len(ks) : /\ BytesUpTo(ks, n) = FlattenSeq(SubSeq(bs, 1, n))
                              /\ CodesUpTo(ks, n) = FlattenSeq(SubSeq(cs, 1, n))
  BY PartsOfKeys
<1> HIDE DEF bs, cs
<1>4. /\ FlattenSeq(SubSeq(bs, 1, 0)) = <<>>
      /\ \A m \in 0 .. Len(ks) : FlattenSeq(SubSeq(bs, 1, m)) \in Seq(Octet)
      /\ \A m \in 0 .. Len(ks) - 1 :
           FlattenSeq(SubSeq(bs, 1, m + 1)) = FlattenSeq(SubSeq(bs, 1, m)) \o bs[m + 1]
  BY <1>2, FlattenAdds
<1>5. /\ FlattenSeq(SubSeq(cs, 1, 0)) = <<>>
      /\ \A m \in 0 .. Len(ks) : FlattenSeq(SubSeq(cs, 1, m)) \in Seq(Octet)
      /\ \A m \in 0 .. Len(ks) - 1 :
           FlattenSeq(SubSeq(cs, 1, m + 1)) = FlattenSeq(SubSeq(cs, 1, m)) \o cs[m + 1]
  BY <1>2, FlattenAdds
<1>6. /\ 0 \in 0 .. Len(ks)
      /\ \A m \in 0 .. Len(ks) - 1 : /\ m \in 0 .. Len(ks) /\ m + 1 \in 0 .. Len(ks)
                                     /\ m + 1 \in 1 .. Len(ks)
  BY <1>1
<1>7. BytesUpTo(ks, Len(ks)) = Bytes(ks)
  <2>1. SubSeq(ks, 1, Len(ks)) = ks
    BY SubSeqFull DEF UserKeys
  <2>2. QED
    BY <2>1 DEF BytesUpTo
<1>8. \A n \in 0 .. Len(ks) : BytesUpTo(ks, n) \in Seq(Octet) /\ CodesUpTo(ks, n) \in Seq(Octet)
  BY <1>3, <1>4, <1>5, Zenon
<1>9. ASSUME NEW n \in 0 .. Len(ks) - 1
      PROVE  /\ BytesUpTo(ks, n + 1) = BytesUpTo(ks, n) \o ks[n + 1].bytes
             /\ CodesUpTo(ks, n + 1) = CodesUpTo(ks, n) \o ks[n + 1].codes
  BY <1>2, <1>3, <1>4, <1>5, <1>6, Zenon
<1>10. QED
  BY <1>3, <1>4, <1>5, <1>6, <1>7, <1>8, <1>9, Zenon

\* After m keys come the bytes of more keys.
LEMMA MoreKeys ==
  ASSUME NEW ks \in UserKeys, NEW n \in 0 .. Len(ks), NEW m \in n .. Len(ks)
  PROVE  \E r \in Seq(Octet) : BytesUpTo(ks, m) = BytesUpTo(ks, n) \o r
<1> DEFINE N == Len(ks)
           B(i) == BytesUpTo(ks, i)
           T == {i \in 0 .. N : i < n \/ \E r \in Seq(Octet) : B(i) = B(n) \o r}
<1>1. N \in Nat /\ \A i \in 1 .. N : ks[i].bytes \in Seq(Octet)
  BY TypeOfKeys
<1>2. /\ \A i \in 0 .. N : B(i) \in Seq(Octet)
      /\ \A i \in 0 .. N - 1 : B(i + 1) = B(i) \o ks[i + 1].bytes
  BY KeysAdd
<1> HIDE DEF N, B
<1>3. B(n) = B(n) \o <<>> /\ <<>> \in Seq(Octet)
  BY <1>2, ConcatEmptySeq, EmptySeq DEF N
<1>4. n \in 0 .. N /\ m \in 0 .. N /\ n <= m
  BY <1>1 DEF N
<1>5. n \in T /\ 0 \in T
  <2>1. n \in T
    BY <1>3, <1>4, Zenon
  <2>2. CASE n # 0
    BY <1>1, <1>4, <2>1, <2>2
  <2>3. QED
    BY <2>1, <2>2
<1>6. ASSUME NEW i \in 0 .. N - 1, i \in T PROVE i + 1 \in T
  <2>1. i + 1 \in 0 .. N
    BY <1>1
  <2>2. CASE i + 1 < n
    BY <2>1, <2>2
  <2>3. CASE i + 1 = n
    BY <1>5, <2>3
  <2>4. CASE i + 1 > n
    <3>1. ~(i < n)
      BY <1>4, <2>4
    <3>2. PICK r \in Seq(Octet) : B(i) = B(n) \o r
      BY <1>6, <3>1
    <3>3. r \o ks[i + 1].bytes \in Seq(Octet) /\ ks[i + 1].bytes \in Seq(Octet)
      <4>1. i + 1 \in 1 .. N
        BY <1>1
      <4>2. QED
        BY <1>1, <4>1, ConcatProperties
    <3>4. B(i + 1) = (B(n) \o r) \o ks[i + 1].bytes
      BY <1>2, <3>2
    <3>5. B(i + 1) = B(n) \o (r \o ks[i + 1].bytes)
      <4>1. B(n) \in Seq(Octet)
        BY <1>2, <1>4
      <4>2. QED
        BY <3>3, <3>4, <4>1, Associative, Zenon
    <3>6. QED
      BY <2>1, <3>3, <3>5, Zenon
  <2>5. QED
    BY <1>4, <2>2, <2>3, <2>4
<1> HIDE DEF T
<1>7. m \in T
  <2>1. \A i \in 0 .. N - 1 : i \in T => i + 1 \in T
    BY <1>6
  <2>2. \A i \in 0 .. N : i \in T
    BY <1>1, <1>5, <2>1, UpTo
  <2>3. QED
    BY <1>4, <2>2
<1>8. ~(m < n)
  BY <1>4
<1>9. QED
  BY <1>7, <1>8, Zenon DEF T, B

\* The first j bytes of a sequence.
LEMMA Beginning ==
  ASSUME NEW q \in Seq(Octet), NEW j \in 0 .. Len(q)
  PROVE  SubSeq(q, 1, j) \in Seq(Octet) /\ Len(SubSeq(q, 1, j)) = j
<1>1. Len(q) \in Nat /\ \A i \in 1 .. j : q[i] \in Octet
  BY LenProperties, ElementOfSeq
<1>2. QED
  BY <1>1, SubSeqProperties

\* How long what has been fed is.
LEMMA PositionLength ==
  ASSUME NEW ks \in UserKeys, NEW f, NEW n, NEW j, Position(ks, f, n, j)
  PROVE  f \in Seq(Octet) /\ Len(f) = Len(BytesUpTo(ks, n)) + j
<1>1. /\ n \in 0 .. Len(ks) /\ j \in Nat /\ BytesUpTo(ks, n) \in Seq(Octet) /\ Len(ks) \in Nat
  BY KeysAdd, TypeOfKeys DEF Position
<1>2. CASE j = 0
  BY <1>1, <1>2 DEF Position
<1>3. CASE j # 0
  <2> DEFINE q == ks[n + 1].bytes
  <2>1. n + 1 \in 1 .. Len(ks) /\ j < Len(q)
    BY <1>1, <1>3 DEF Position
  <2>2. q \in Seq(Octet) /\ Len(q) \in Nat
    BY <2>1, TypeOfKeys, LenProperties
  <2>3. f = BytesUpTo(ks, n) \o SubSeq(q, 1, j)
    BY <1>3 DEF Position
  <2> HIDE DEF q
  <2>4. j \in 0 .. Len(q)
    BY <1>1, <2>1, <2>2
  <2>5. SubSeq(q, 1, j) \in Seq(Octet) /\ Len(SubSeq(q, 1, j)) = j
    BY <2>2, <2>4, Beginning
  <2>6. QED
    BY <1>1, <2>3, <2>5, ConcatProperties
<1>4. QED
  BY <1>2, <1>3

\* More keys, more bytes.
LEMMA BytesGrow ==
  ASSUME NEW ks \in UserKeys, NEW n \in 0 .. Len(ks), NEW m \in n .. Len(ks)
  PROVE  /\ Len(BytesUpTo(ks, n)) \in Nat /\ Len(BytesUpTo(ks, m)) \in Nat
         /\ Len(BytesUpTo(ks, n)) <= Len(BytesUpTo(ks, m))
<1>1. m \in 0 .. Len(ks)
  BY TypeOfKeys
<1>2. BytesUpTo(ks, n) \in Seq(Octet) /\ BytesUpTo(ks, m) \in Seq(Octet)
  BY <1>1, KeysAdd
<1>3. PICK r \in Seq(Octet) : BytesUpTo(ks, m) = BytesUpTo(ks, n) \o r
  BY MoreKeys
<1>4. Len(BytesUpTo(ks, m)) = Len(BytesUpTo(ks, n)) + Len(r)
  BY <1>2, <1>3, ConcatProperties
<1>5. QED
  BY <1>2, <1>3, <1>4, LenProperties

\* A key of the terminal.
AKey(k) == k = EscapeKey \/ CharacterKey(k) \/ UnknownCharacter(k) \/ SS3Key(k) \/ CSIKey(k)

\* It has bytes.
LEMMA KeysHaveBytes == ASSUME NEW k \in UserKey, AKey(k) PROVE Len(k.bytes) \in Nat \ {0}
<1>1. k.bytes \in Seq(Octet) /\ Len(k.bytes) \in Nat
  BY LenProperties DEF UserKey
<1>2. CASE k = EscapeKey
  BY <1>2 DEF EscapeKey
<1>3. CASE CharacterKey(k)
  BY <1>3 DEF CharacterKey
<1>4. CASE UnknownCharacter(k)
  <2>1. k.bytes # <<>>
    BY <1>4 DEF UnknownCharacter
  <2>2. QED
    BY <1>1, <2>1, EmptySeq
<1>5. CASE SS3Key(k)
  BY <1>5 DEF SS3Key
<1>6. CASE CSIKey(k)
  BY <1>1, <1>6 DEF CSIKey
<1>7. QED
  BY <1>2, <1>3, <1>4, <1>5, <1>6 DEF AKey

\* What the user of a scenario types.
TheUser(ks) ==
  /\ ks \in UserKeys
  /\ \A i \in 1 .. Len(ks) : AKey(ks[i])
  /\ \A i \in 2 .. Len(ks) : ks[i - 1] = EscapeKey => ~Introducer(ks[i].bytes[1])

\* It is what is assumed of the scenarios.
LEMMA UserOfScenario == ASSUME scenario \in Scenarios PROVE TheUser(scenario.keys)
<1> DEFINE ks == scenario.keys
<1>1. ks \in UserKeys
  BY UserAssumption, Zenon DEF UserKeys, UserKey
<1>2. DOMAIN ks = 1 .. Len(ks)
  BY <1>1, LenProperties DEF UserKeys
<1>3. \A i \in DOMAIN ks : AKey(ks[i]) /\ (i > 1 /\ ks[i - 1] = EscapeKey => ~Introducer(ks[i].bytes[1]))
  BY UserAssumption, Zenon DEF AKey
<1>4. \A i \in 2 .. Len(ks) : i \in 1 .. Len(ks) /\ i > 1
  BY <1>1, LenProperties DEF UserKeys
<1> HIDE DEF ks
<1>5. TheUser(ks)
  BY <1>1, <1>2, <1>3, <1>4, Zenon DEF TheUser
<1>6. QED
  BY <1>5 DEF ks

\* Where the fed bytes are in the keys says how many keys have been fed, and
\* whether one has begun.
LEMMA PositionCounts ==
  ASSUME TheUser(scenario.keys), NEW n, NEW j, Position(scenario.keys, fed, n, j)
  PROVE  KeysFed = n /\ (InsideAKey <=> j # 0)
<1> DEFINE ks == scenario.keys
           L(i) == Len(BytesUpTo(ks, i))
<1>1. ks \in UserKeys /\ \A i \in 1 .. Len(ks) : AKey(ks[i])
  BY DEF TheUser
<1>2. /\ n \in 0 .. Len(ks) /\ j \in Nat /\ Len(ks) \in Nat
      /\ Len(fed) = L(n) + j
  <2>1. Len(fed) = L(n) + j
    BY <1>1, PositionLength
  <2>2. Len(ks) \in Nat
    BY <1>1, TypeOfKeys
  <2>3. QED
    BY <2>1, <2>2 DEF Position
<1>3. \A i \in 0 .. Len(ks) : \A m \in i .. Len(ks) : L(i) \in Nat /\ L(m) \in Nat /\ L(i) <= L(m)
  <2>1. ks \in UserKeys
    BY <1>1
  <2> HIDE DEF ks
  <2>2. QED
    BY <2>1, BytesGrow
<1>4. n < Len(ks) => L(n + 1) > Len(fed)
  <2> SUFFICES ASSUME n < Len(ks) PROVE L(n + 1) > Len(fed)
    OBVIOUS
  <2> DEFINE q == ks[n + 1].bytes
  <2>1. n + 1 \in 1 .. Len(ks) /\ n \in 0 .. Len(ks) - 1
    BY <1>2
  <2>2. q \in Seq(Octet) /\ Len(q) \in Nat \ {0}
    BY <1>1, <2>1, TypeOfKeys, KeysHaveBytes
  <2>3. j < Len(q)
    BY <1>2, <2>2 DEF Position
  <2>4. BytesUpTo(ks, n + 1) = BytesUpTo(ks, n) \o q /\ BytesUpTo(ks, n) \in Seq(Octet)
    BY <1>1, <1>2, <2>1, KeysAdd
  <2> HIDE DEF q, ks
  <2>5. L(n + 1) = L(n) + Len(q)
    BY <2>2, <2>4, ConcatProperties
  <2>6. L(n) \in Nat
    BY <1>2, <1>3
  <2>7. QED
    BY <1>2, <2>2, <2>3, <2>5, <2>6
<1> DEFINE Fits(i) == L(i) <= Len(fed) /\ \A m \in i + 1 .. Len(ks) : L(m) > Len(fed)
<1>5. Fits(n)
  <2>1. L(n) <= Len(fed)
    BY <1>2, <1>3
  <2>2. ASSUME NEW m \in n + 1 .. Len(ks) PROVE L(m) > Len(fed)
    <3>1. n < Len(ks) /\ n + 1 \in 0 .. Len(ks) /\ m \in n + 1 .. Len(ks)
      BY <1>2
    <3>2. L(n + 1) \in Nat /\ L(m) \in Nat /\ L(n + 1) <= L(m)
      BY <1>3, <3>1
    <3>3. Len(fed) \in Nat
      BY <1>2, <1>3
    <3> HIDE DEF L
    <3>4. QED
      BY <1>4, <3>1, <3>2, <3>3
  <2>3. QED
    BY <2>1, <2>2
<1>6. ASSUME NEW i \in 0 .. Len(ks), Fits(i) PROVE i = n
  <2>1. Len(fed) \in Nat /\ L(i) \in Nat /\ L(n) \in Nat
    BY <1>2, <1>3
  <2> HIDE DEF L, ks
  <2>2. CASE i < n
    <3>1. n \in i + 1 .. Len(ks)
      BY <1>2, <2>2
    <3>2. L(n) > Len(fed)
      BY <1>6, <3>1
    <3>3. QED
      BY <1>5, <2>1, <3>2
  <2>3. CASE i > n
    <3>1. i \in n + 1 .. Len(ks)
      BY <1>2, <2>3
    <3>2. L(i) > Len(fed)
      BY <1>5, <3>1
    <3>3. QED
      BY <1>6, <2>1, <3>2
  <2>4. QED
    BY <1>2, <2>2, <2>3
<1>7. KeysFed = CHOOSE i \in 0 .. Len(ks) : Fits(i)
  BY DEF KeysFed, BytesUpTo
<1> HIDE DEF Fits
<1>8. KeysFed = n
  BY <1>2, <1>5, <1>6, <1>7
<1>9. InsideAKey <=> L(n) # Len(fed)
  BY <1>8 DEF InsideAKey, BytesUpTo
<1>10. L(n) \in Nat
  BY <1>2, <1>3
<1> HIDE DEF L, ks
<1>11. L(n) # Len(fed) <=> j # 0
  BY <1>2, <1>10
<1>12. QED
  BY <1>8, <1>9, <1>11

\* An element of the middle of three sequences joined.
LEMMA InTheMiddle ==
  ASSUME NEW a \in Seq(Octet), NEW b \in Seq(Octet), NEW c \in Seq(Octet), NEW i \in 1 .. Len(b)
  PROVE  ((a \o b) \o c)[Len(a) + i] = b[i]
<1>1. Len(a) \in Nat /\ Len(b) \in Nat /\ Len(c) \in Nat
  BY LenProperties
<1>2. a \o b \in Seq(Octet) /\ Len(a \o b) = Len(a) + Len(b) /\ (a \o b)[Len(a) + i] = b[i]
  <2>1. Len(a) + i \in 1 .. Len(a) + Len(b) /\ ~(Len(a) + i <= Len(a)) /\ (Len(a) + i) - Len(a) = i
    BY <1>1
  <2>2. QED
    BY <2>1, ConcatProperties
<1>3. Len(a) + i \in 1 .. Len(a \o b) + Len(c) /\ Len(a) + i <= Len(a \o b)
  BY <1>1, <1>2
<1>4. QED
  BY <1>2, <1>3, ConcatProperties

\* The byte that comes next is the next one of the key that has begun, or the
\* first of the next key.
LEMMA NextByte ==
  ASSUME NEW ks, TheUser(ks), NEW f, NEW n, NEW j, Position(ks, f, n, j),
         NEW c \in Seq(Octet), c # <<>>, NEW rest \in Seq(Octet), f \o (c \o rest) = Bytes(ks)
  PROVE  /\ n \in 0 .. Len(ks) - 1 /\ j \in 0 .. Len(ks[n + 1].bytes) - 1
         /\ Head(c) = ks[n + 1].bytes[j + 1]
         /\ IF j + 1 = Len(ks[n + 1].bytes) THEN Position(ks, Append(f, Head(c)), n + 1, 0)
            ELSE Position(ks, Append(f, Head(c)), n, j + 1)
<1> DEFINE all == Bytes(ks)
           q == ks[n + 1].bytes
           front == BytesUpTo(ks, n)
<1>1. ks \in UserKeys /\ \A i \in 1 .. Len(ks) : AKey(ks[i])
  BY DEF TheUser
<1>2. Len(ks) \in Nat /\ n \in 0 .. Len(ks) /\ j \in Nat /\ n \in Nat
  BY <1>1, TypeOfKeys DEF Position
<1>3. f \in Seq(Octet) /\ Len(f) = Len(front) + j
  BY <1>1, PositionLength
<1>4. front \in Seq(Octet) /\ Len(front) \in Nat
  BY <1>1, <1>2, KeysAdd, LenProperties
<1>5. Len(c) \in Nat /\ Len(c) >= 1 /\ Head(c) = c[1] /\ Len(rest) \in Nat
  BY LenProperties
<1>6. /\ Len(all) = Len(f) + Len(c) + Len(rest)
      /\ all[Len(f) + 1] = Head(c)
  <2>1. all = (f \o c) \o rest
    BY <1>3, Associative
  <2>2. 1 \in 1 .. Len(c)
    BY <1>5
  <2>3. all[Len(f) + 1] = c[1]
    BY <1>3, <2>1, <2>2, InTheMiddle
  <2>4. Len(all) = Len(f) + Len(c \o rest) /\ Len(c \o rest) = Len(c) + Len(rest)
    BY <1>3, ConcatProperties
  <2>5. QED
    BY <1>3, <1>4, <1>5, <2>3, <2>4
<1>7. n \in 0 .. Len(ks) - 1
  <2> SUFFICES ASSUME n = Len(ks) PROVE FALSE
    BY <1>2
  <2>1. j = 0
    BY <1>2 DEF Position
  <2>2. front = all
    BY <1>1, KeysAdd
  <2>3. QED
    BY <1>3, <1>4, <1>5, <1>6, <2>1, <2>2
<1>8. n + 1 \in 1 .. Len(ks) /\ n + 1 \in 0 .. Len(ks)
  BY <1>2, <1>7
<1>9. q \in Seq(Octet) /\ Len(q) \in Nat \ {0}
  BY <1>1, <1>8, TypeOfKeys, KeysHaveBytes
<1>10. j \in 0 .. Len(q) - 1
  BY <1>2, <1>9 DEF Position
<1>11. BytesUpTo(ks, n + 1) = front \o q
  BY <1>1, <1>7, KeysAdd
<1>12. f = front \o SubSeq(q, 1, j)
  <2>1. CASE j = 0
    <3>1. SubSeq(q, 1, 0) = <<>>
      BY SubSeqEmpty
    <3>2. QED
      BY <1>4, <2>1, <3>1, ConcatEmptySeq DEF Position
  <2>2. CASE j # 0
    BY <2>2 DEF Position
  <2>3. QED
    BY <2>1, <2>2
<1>13. PICK r \in Seq(Octet) : all = (front \o q) \o r
  <2>1. Len(ks) \in n + 1 .. Len(ks)
    BY <1>2, <1>7
  <2>2. \E r \in Seq(Octet) : BytesUpTo(ks, Len(ks)) = BytesUpTo(ks, n + 1) \o r
    BY <1>1, <1>8, <2>1, MoreKeys
  <2>3. BytesUpTo(ks, Len(ks)) = all
    BY <1>1, KeysAdd
  <2>4. QED
    BY <1>11, <2>2, <2>3, Zenon
<1> HIDE DEF all, q, front
<1>14. Head(c) = q[j + 1]
  <2>1. j + 1 \in 1 .. Len(q)
    BY <1>9, <1>10
  <2>2. all[Len(front) + (j + 1)] = q[j + 1]
    <3>1. ((front \o q) \o r)[Len(front) + (j + 1)] = q[j + 1]
      BY <1>4, <1>9, <2>1, InTheMiddle, SMTT(60)
    <3>2. QED
      BY <1>13, <3>1, Zenon
  <2>3. Len(front) + (j + 1) = Len(f) + 1
    BY <1>2, <1>3, <1>4
  <2>4. QED
    BY <1>6, <2>2, <2>3
<1>15. Append(f, Head(c)) = front \o SubSeq(q, 1, j + 1)
  <2>1. 1 \in 1 .. Len(q) /\ j + 1 \in 1 .. Len(q) /\ j \in 0 .. Len(q) /\ (j + 1) - 1 = j
    BY <1>9, <1>10
  <2>2. SubSeq(q, 1, j + 1) = SubSeq(q, 1, j) \o <<q[j + 1]>>
    BY <1>9, <2>1, SubSeqRecursiveSecond
  <2>3. SubSeq(q, 1, j) \in Seq(Octet)
    BY <1>9, <2>1, Beginning
  <2>4. Head(c) \in Octet /\ <<Head(c)>> \in Seq(Octet)
    BY HeadTailProperties
  <2>5. Append(f, Head(c)) = f \o <<Head(c)>>
    BY <1>3, <2>4, AppendIsConcat
  <2>6. (front \o SubSeq(q, 1, j)) \o <<Head(c)>> = front \o (SubSeq(q, 1, j) \o <<Head(c)>>)
    <3> DEFINE w == SubSeq(q, 1, j)
               e == <<Head(c)>>
    <3>1. w \in Seq(Octet) /\ e \in Seq(Octet)
      BY <2>3, <2>4
    <3> HIDE DEF w, e
    <3>2. (front \o w) \o e = front \o (w \o e)
      BY <1>4, <3>1, Associative, SMTT(60)
    <3>3. QED
      BY <3>2 DEF w, e
  <2>7. QED
    BY <1>12, <1>14, <2>2, <2>5, <2>6, Zenon
<1>16. CASE j + 1 = Len(q)
  <2>1. SubSeq(q, 1, j + 1) = q
    BY <1>9, <1>16, SubSeqFull
  <2>2. Append(f, Head(c)) = BytesUpTo(ks, n + 1)
    BY <1>11, <1>15, <2>1
  <2>3. Position(ks, Append(f, Head(c)), n + 1, 0)
    <3>1. 0 \in Nat /\ ~(0 > 0)
      OBVIOUS
    <3>2. QED
      BY <1>8, <2>2, <3>1, Zenon DEF Position
  <2>4. QED
    BY <1>7, <1>10, <1>14, <1>16, <2>3 DEF q
<1>17. CASE j + 1 # Len(q)
  <2>1. j + 1 # 0 /\ j + 1 \in Nat /\ j + 1 < Len(q) /\ n < Len(ks)
    BY <1>2, <1>7, <1>9, <1>10, <1>17
  <2>2. Position(ks, Append(f, Head(c)), n, j + 1)
    BY <1>2, <1>15, <2>1 DEF Position, q, front
  <2>3. QED
    BY <1>7, <1>10, <1>14, <1>17, <2>2 DEF q
<1>18. QED
  BY <1>16, <1>17

-----------------------------------------------------------------------------
(***************************************************************************)
(* A key in the translator.                                                *)
(***************************************************************************)
\* In a state, with the parameters as they are.
LEMMA InFields ==
  ASSUME NEW t \in Translator, NEW state \in {"normal", "esc", "csi", "ss3"}
  PROVE  /\ In(t, state) \in Translator /\ In(t, state).state = state
         /\ In(t, state).params = t.params
  BY DEF Translator, In

\* A byte in the normal state.
LEMMA NormalFeed ==
  ASSUME NEW t \in Translator, t.state = "normal", NEW b
  PROVE  /\ FeedKeys(t, b) = NormalKeys(b)
         /\ FeedNext(t, b) = NormalNext(t, b)
         /\ NormalNext(t, b).state = IF b = ESC THEN "esc" ELSE "normal"
         /\ b = ESC => FeedKeys(t, b) = <<>>
<1>1. FeedKeys(t, b) = NormalKeys(b) /\ FeedNext(t, b) = NormalNext(t, b)
  BY DEF FeedKeys, FeedNext
<1>2. CASE b = ESC
  <2>1. NormalNext(t, b) = In(t, "esc") /\ NormalKeys(b) = <<>>
    BY <1>2 DEF NormalNext, NormalKeys, ESC, CtrlBracket, DEL
  <2>2. In(t, "esc").state = "esc"
    BY InFields
  <2>3. QED
    BY <1>1, <1>2, <2>1, <2>2
<1>3. CASE b # ESC
  <2>1. NormalNext(t, b) \in {t, [t EXCEPT !.quit = TRUE]}
    BY <1>3 DEF NormalNext
  <2>2. [t EXCEPT !.quit = TRUE].state = t.state
    BY DEF Translator
  <2>3. QED
    BY <1>1, <1>3, <2>1, <2>2
<1>4. QED
  BY <1>2, <1>3

\* How the sequences begin, and that they are told apart.
LEMMA KeysBegin ==
  ASSUME NEW k \in UserKey
  PROVE  /\ UnknownCharacter(k) => k.bytes[1] # ESC
         /\ SS3Key(k) => /\ Len(k.bytes) = 3 /\ k.bytes[1] = ESC /\ k.bytes[2] = LetterO
                         /\ k.codes = ArrowOrFn(k.bytes[3])
         /\ CSIKey(k) => Len(k.bytes) >= 3 /\ k.bytes[1] = ESC /\ k.bytes[2] = Bracket
         /\ LetterO # Bracket
<1>1. UnknownCharacter(k) => k.bytes[1] # ESC
  <2> SUFFICES ASSUME UnknownCharacter(k) PROVE k.bytes[1] # ESC
    OBVIOUS
  <2>1. Len(k.bytes) \in Nat \ {0}
    BY KeysHaveBytes DEF AKey
  <2>2. k.bytes \in Seq(Octet)
    BY DEF UserKey
  <2>3. 1 \in DOMAIN k.bytes
    BY <2>1, <2>2, LenProperties
  <2>4. QED
    BY <2>3 DEF UnknownCharacter
<1>2. QED
  BY <1>1 DEF SS3Key, CSIKey, LetterO, Bracket

\* Feeding a key that has begun, or that nothing is before, byte by byte: it is
\* in the translator until its last byte, and then its codes are sent; those of
\* the Esc key wait.
LEMMA FeedKey ==
  ASSUME NEW k \in UserKey, AKey(k), NEW t \in Translator, NEW j \in 0 .. Len(k.bytes) - 1,
         IF j = 0 THEN t.state = "normal" ELSE InsideKey(k, j, t),
         NEW b, b = k.bytes[j + 1]
  PROVE  IF j + 1 = Len(k.bytes)
         THEN \/ FeedNext(t, b).state = "normal" /\ FeedKeys(t, b) = k.codes
              \/ k = EscapeKey /\ FeedNext(t, b).state = "esc" /\ FeedKeys(t, b) = <<>>
         ELSE InsideKey(k, j + 1, FeedNext(t, b)) /\ FeedKeys(t, b) = <<>>
<1> DEFINE n == Len(k.bytes)
           Goal == IF j + 1 = n
                   THEN \/ FeedNext(t, b).state = "normal" /\ FeedKeys(t, b) = k.codes
                        \/ k = EscapeKey /\ FeedNext(t, b).state = "esc" /\ FeedKeys(t, b) = <<>>
                   ELSE InsideKey(k, j + 1, FeedNext(t, b)) /\ FeedKeys(t, b) = <<>>
<1>1. n \in Nat \ {0} /\ k.bytes \in Seq(Octet)
  BY KeysHaveBytes DEF UserKey
<1>2. ASSUME k = EscapeKey PROVE Goal
  <2>1. k.bytes = <<ESC>> /\ n = 1
    BY <1>2 DEF EscapeKey
  <2>2. j = 0 /\ b = ESC /\ t.state = "normal"
    BY <2>1
  <2>3. FeedKeys(t, b) = <<>> /\ FeedNext(t, b).state = "esc"
    BY <2>2, NormalFeed
  <2>4. QED
    BY <1>2, <2>1, <2>2, <2>3
<1>3. ASSUME CharacterKey(k) PROVE Goal
  <2>1. PICK c \in Octet \ {ESC} : k = [bytes |-> <<c>>, codes |-> NormalKeys(c)]
    BY <1>3 DEF CharacterKey
  <2>2. k.bytes = <<c>> /\ n = 1 /\ k.codes = NormalKeys(c)
    BY <2>1
  <2>3. j = 0 /\ b = c /\ b # ESC /\ t.state = "normal"
    BY <2>1, <2>2
  <2>4. FeedKeys(t, b) = k.codes /\ FeedNext(t, b).state = "normal"
    BY <2>2, <2>3, NormalFeed
  <2>5. QED
    BY <2>2, <2>3, <2>4
<1>4. ASSUME UnknownCharacter(k) PROVE Goal
  <2>1. DOMAIN k.bytes = 1 .. n /\ j + 1 \in 1 .. n
    BY <1>1, LenProperties
  <2>2. b # ESC /\ NormalKeys(b) = <<>> /\ k.codes = <<>>
    BY <1>4, <2>1 DEF UnknownCharacter
  <2>3. t.state = "normal"
    BY <1>4, KeysBegin DEF InsideKey
  <2>4. FeedKeys(t, b) = <<>> /\ FeedNext(t, b).state = "normal"
    BY <2>2, <2>3, NormalFeed
  <2>5. QED
    BY <1>4, <2>2, <2>4 DEF InsideKey
<1>5. ASSUME SS3Key(k) PROVE Goal
  <2>1. /\ n = 3 /\ k.bytes[1] = ESC /\ k.bytes[2] = LetterO
        /\ k.codes = ArrowOrFn(k.bytes[3])
    BY <1>5, KeysBegin
  <2>2. CASE j = 0
    <3>1. t.state = "normal" /\ b = ESC
      BY <2>1, <2>2
    <3>2. FeedKeys(t, b) = <<>> /\ FeedNext(t, b).state = "esc"
      BY <3>1, NormalFeed
    <3>3. QED
      BY <1>5, <2>1, <2>2, <3>2 DEF InsideKey
  <2>3. CASE j = 1
    <3>1. t.state = "esc" /\ b = LetterO
      BY <1>5, <2>1, <2>3, KeysBegin DEF InsideKey
    <3>2. FeedKeys(t, b) = <<>> /\ FeedNext(t, b) = In(t, "ss3")
      BY <3>1 DEF FeedKeys, FeedNext, Introducer, LetterO, Bracket
    <3>3. FeedNext(t, b).state = "ss3"
      BY <3>2, InFields
    <3>4. QED
      BY <1>5, <2>1, <2>3, <3>2, <3>3 DEF InsideKey
  <2>4. CASE j = 2
    <3>1. t.state = "ss3" /\ b = k.bytes[3]
      BY <1>5, <2>1, <2>4, KeysBegin DEF InsideKey
    <3>2. FeedKeys(t, b) = k.codes /\ FeedNext(t, b) = In(t, "normal")
      BY <2>1, <3>1 DEF FeedKeys, FeedNext
    <3>3. FeedNext(t, b).state = "normal"
      BY <3>2, InFields
    <3>4. QED
      BY <2>1, <2>4, <3>2, <3>3
  <2>5. QED
    BY <2>1, <2>2, <2>3, <2>4
<1>6. ASSUME CSIKey(k) PROVE Goal
  <2>1. /\ n >= 3 /\ k.bytes[1] = ESC /\ k.bytes[2] = Bracket
        /\ \A i \in 3 .. n - 1 : IsParameter(k.bytes[i])
        /\ ~IsParameter(k.bytes[n])
        /\ k.codes = CSIFinal([NewTranslator EXCEPT !.params = SubSeq(k.bytes, 3, n - 1)], k.bytes[n])
    BY <1>6 DEF CSIKey
  <2>2. CASE j = 0
    <3>1. t.state = "normal" /\ b = ESC
      BY <2>1, <2>2
    <3>2. FeedKeys(t, b) = <<>> /\ FeedNext(t, b).state = "esc"
      BY <3>1, NormalFeed
    <3>3. QED
      BY <1>1, <1>6, <2>1, <2>2, <3>2 DEF InsideKey
  <2>3. CASE j = 1
    <3>1. t.state = "esc" /\ b = Bracket
      BY <1>6, <2>1, <2>3, KeysBegin DEF InsideKey
    <3>2. FeedKeys(t, b) = <<>> /\ FeedNext(t, b) = [In(t, "csi") EXCEPT !.params = <<>>]
      BY <3>1 DEF FeedKeys, FeedNext, Introducer, LetterO, Bracket
    <3>3. FeedNext(t, b).state = "csi" /\ FeedNext(t, b).params = <<>>
      BY <3>2 DEF In, Translator
    <3>4. SubSeq(k.bytes, 3, 2) = <<>>
      BY SubSeqEmpty
    <3>5. InsideKey(k, 2, FeedNext(t, b))
      <4>1. 2 >= 2
        OBVIOUS
      <4>2. QED
        BY <1>6, <3>3, <3>4, <4>1, Zenon DEF InsideKey
    <3>6. QED
      BY <1>1, <2>1, <2>3, <3>2, <3>5
  <2>4. CASE j >= 2
    <3>1. t.state = "csi" /\ t.params = SubSeq(k.bytes, 3, j)
      BY <1>6, <2>1, <2>4, KeysBegin DEF InsideKey
    <3>2. CASE j + 1 # n
      <4>1. IsParameter(b) /\ j + 1 \in 3 .. n - 1
        BY <1>1, <2>1, <2>4, <3>2
      <4>2. FeedKeys(t, b) = <<>> /\ FeedNext(t, b) = [t EXCEPT !.params = Append(@, b)]
        BY <3>1, <4>1 DEF FeedKeys, FeedNext
      <4>3. FeedNext(t, b).state = "csi" /\ FeedNext(t, b).params = Append(SubSeq(k.bytes, 3, j), b)
        BY <3>1, <4>2 DEF Translator
      <4>4. Append(SubSeq(k.bytes, 3, j), b) = SubSeq(k.bytes, 3, j + 1)
        <5>1. /\ 3 \in 1 .. n /\ j + 1 \in 3 .. n /\ (j + 1) - 1 = j
              /\ \A i \in 3 .. j : k.bytes[i] \in Octet
              /\ k.bytes[j + 1] \in Octet
          BY <1>1, <2>1, <4>1, ElementOfSeq
        <5>2. SubSeq(k.bytes, 3, j + 1) = SubSeq(k.bytes, 3, j) \o <<k.bytes[j + 1]>>
          BY <1>1, <5>1, SubSeqRecursiveSecond
        <5>3. SubSeq(k.bytes, 3, j) \in Seq(Octet)
          BY <5>1, SubSeqProperties
        <5>4. QED
          BY <5>1, <5>2, <5>3, AppendIsConcat
      <4>5. j + 1 >= 2
        BY <2>4
      <4>6. InsideKey(k, j + 1, FeedNext(t, b))
        BY <1>6, <4>3, <4>4, <4>5, Zenon DEF InsideKey
      <4>7. QED
        BY <3>2, <4>2, <4>6
    <3>3. CASE j + 1 = n
      <4>1. ~IsParameter(b) /\ b = k.bytes[n] /\ j = n - 1
        BY <1>1, <2>1, <3>3
      <4>2. FeedKeys(t, b) = CSIFinal(t, b) /\ FeedNext(t, b) = In(t, "normal")
        BY <3>1, <4>1 DEF FeedKeys, FeedNext
      <4>3. [NewTranslator EXCEPT !.params = SubSeq(k.bytes, 3, n - 1)].params = t.params
        BY <3>1, <4>1 DEF NewTranslator
      <4>4. CSIFinal(t, b) = k.codes
        BY <2>1, <4>1, <4>3, Zenon DEF CSIFinal
      <4>5. FeedNext(t, b).state = "normal"
        BY <4>2, InFields
      <4>6. QED
        BY <3>3, <4>2, <4>4, <4>5
    <3>4. QED
      BY <3>2, <3>3
  <2>5. QED
    BY <1>1, <2>2, <2>3, <2>4
<1>7. QED
  BY <1>2, <1>3, <1>4, <1>5, <1>6 DEF AKey

\* With the byte b the translator t, after the codes out, does what u does after
\* the codes of n keys.
GoesOnAs(ks, n, out, t, u, b) ==
  /\ FeedNext(t, b) = FeedNext(u, b)
  /\ out \o FeedKeys(t, b) = CodesUpTo(ks, n) \o FeedKeys(u, b)

\* A byte after an Esc that waits: the Esc is sent, and the byte is fed as if it
\* had been.
LEMMA FeedAfterEscape ==
  ASSUME NEW ks, TheUser(ks), NEW n \in 1 .. Len(ks) - 1, ks[n] = EscapeKey,
         NEW t \in Translator, t.state = "esc", NEW b, b = ks[n + 1].bytes[1]
  PROVE  GoesOnAs(ks, n, CodesUpTo(ks, n - 1), t, In(t, "normal"), b)
<1>1. ks \in UserKeys /\ Len(ks) \in Nat
  BY TypeOfKeys DEF TheUser
<1>2. ~Introducer(b)
  <2>1. n + 1 \in 2 .. Len(ks) /\ (n + 1) - 1 = n
    BY <1>1
  <2>2. QED
    BY <2>1 DEF TheUser
<1>3. In(t, "normal") \in Translator /\ In(t, "normal").state = "normal"
  BY InFields
<1>4. /\ FeedKeys(In(t, "normal"), b) = NormalKeys(b)
      /\ FeedNext(In(t, "normal"), b) = NormalNext(In(t, "normal"), b)
  BY <1>3, NormalFeed
<1>5. /\ FeedNext(t, b) = NormalNext(In(t, "normal"), b)
      /\ FeedKeys(t, b) = PressKey(Key.Esc, {}) \o NormalKeys(b)
  BY <1>2 DEF FeedNext, FeedKeys, Introducer
<1>6. /\ CodesUpTo(ks, n) = CodesUpTo(ks, n - 1) \o PressKey(Key.Esc, {})
      /\ CodesUpTo(ks, n - 1) \in Seq(Octet) /\ PressKey(Key.Esc, {}) \in Seq(Octet)
  <2>1. n - 1 \in 0 .. Len(ks) - 1 /\ n - 1 \in 0 .. Len(ks) /\ (n - 1) + 1 = n /\ n \in 1 .. Len(ks)
    BY <1>1
  <2>2. CodesUpTo(ks, (n - 1) + 1) = CodesUpTo(ks, n - 1) \o ks[(n - 1) + 1].codes
    BY <1>1, <2>1, KeysAdd
  <2>3. ks[n].codes = PressKey(Key.Esc, {})
    BY DEF EscapeKey
  <2>4. ks[n].codes \in Seq(Octet)
    BY <1>1, <2>1, TypeOfKeys
  <2>5. CodesUpTo(ks, n - 1) \in Seq(Octet)
    BY <1>1, <2>1, KeysAdd
  <2>6. QED
    BY <2>1, <2>2, <2>3, <2>4, <2>5, Zenon
<1>7. NormalKeys(b) \in Seq(Octet)
  BY NormalKeysBalanced DEF Balanced
<1>8. (CodesUpTo(ks, n - 1) \o PressKey(Key.Esc, {})) \o NormalKeys(b)
        = CodesUpTo(ks, n - 1) \o (PressKey(Key.Esc, {}) \o NormalKeys(b))
  BY <1>6, <1>7, Associative
<1>9. QED
  BY <1>4, <1>5, <1>6, <1>8, Zenon DEF GoesOnAs

\* Feeding a byte leads from such a state to such a state.
LEMMA FeedParsed ==
  ASSUME NEW ks, TheUser(ks), NEW f, NEW t \in Translator, NEW out, NEW cut, NEW n, NEW j,
         ParsedAt(ks, f, t, out, cut, n, j),
         NEW c \in Seq(Octet), c # <<>>, NEW rest \in Seq(Octet), f \o (c \o rest) = Bytes(ks)
  PROVE  \E n2, j2 : ParsedAt(ks, Append(f, Head(c)), FeedNext(t, Head(c)),
                              out \o FeedKeys(t, Head(c)), cut, n2, j2)
<1> DEFINE b == Head(c)
           k == ks[n + 1]
<1>1. Position(ks, f, n, j) /\ ks \in UserKeys /\ Len(ks) \in Nat
  BY TypeOfKeys DEF ParsedAt, TheUser
<1>2. /\ n \in 0 .. Len(ks) - 1 /\ j \in 0 .. Len(k.bytes) - 1
      /\ b = k.bytes[j + 1]
      /\ IF j + 1 = Len(k.bytes) THEN Position(ks, Append(f, b), n + 1, 0)
         ELSE Position(ks, Append(f, b), n, j + 1)
  BY <1>1, NextByte
<1>3. n + 1 \in 1 .. Len(ks) /\ k \in UserKey /\ AKey(k)
  <2>1. n + 1 \in 1 .. Len(ks)
    BY <1>1, <1>2
  <2>2. \A i \in 1 .. Len(ks) : ks[i] \in UserKey /\ AKey(ks[i])
    BY <1>1, TypeOfKeys DEF TheUser
  <2>3. QED
    BY <2>1, <2>2, Zenon
<1>4. k.codes \in Seq(Octet) /\ CodesUpTo(ks, n) \in Seq(Octet)
  <2>1. n \in 0 .. Len(ks)
    BY <1>1, <1>2
  <2>2. QED
    BY <1>1, <1>3, <2>1, KeysAdd, TypeOfKeys
<1>5. CASE cut
  BY <1>2, <1>5, Zenon DEF ParsedAt
<1>6. CASE ~cut
  <2>1. \E u \in Translator :
          /\ IF j = 0 THEN u.state = "normal" ELSE InsideKey(k, j, u)
          /\ GoesOnAs(ks, n, out, t, u, b)
    <3>1. CASE j # 0
      <4>1. InsideKey(k, j, t) /\ out = CodesUpTo(ks, n)
        BY <1>6, <3>1, Zenon DEF ParsedAt
      <4>2. GoesOnAs(ks, n, out, t, t, b)
        BY <4>1, Zenon DEF GoesOnAs
      <4>3. QED
        BY <3>1, <4>1, <4>2, Zenon
    <3>2. CASE j = 0 /\ t.state = "normal" /\ out = CodesUpTo(ks, n)
      <4>1. GoesOnAs(ks, n, out, t, t, b)
        BY <3>2, Zenon DEF GoesOnAs
      <4>2. QED
        BY <3>2, <4>1, Zenon
    <3>3. CASE j = 0 /\ t.state = "esc" /\ n > 0 /\ ks[n] = EscapeKey /\ out = CodesUpTo(ks, n - 1)
      <4>1. n \in 1 .. Len(ks) - 1 /\ b = k.bytes[1]
        BY <1>1, <1>2, <3>3
      <4>2. GoesOnAs(ks, n, CodesUpTo(ks, n - 1), t, In(t, "normal"), b)
        <5>1. b = ks[n + 1].bytes[1] /\ t.state = "esc" /\ ks[n] = EscapeKey
          BY <3>3, <4>1
        <5> HIDE DEF b, k
        <5>2. QED
          BY <4>1, <5>1, FeedAfterEscape, Zenon
      <4>3. In(t, "normal") \in Translator /\ In(t, "normal").state = "normal"
        BY InFields
      <4>4. QED
        BY <3>3, <4>2, <4>3, Zenon
    <3>4. QED
      BY <1>6, <3>1, <3>2, <3>3, Zenon DEF ParsedAt, BetweenKeys
  <2>2. PICK u \in Translator :
          /\ IF j = 0 THEN u.state = "normal" ELSE InsideKey(k, j, u)
          /\ GoesOnAs(ks, n, out, t, u, b)
    BY <2>1, Zenon
  <2> DEFINE t2 == FeedNext(t, b)
             out2 == out \o FeedKeys(t, b)
  <2>3. IF j + 1 = Len(k.bytes)
        THEN \/ t2.state = "normal" /\ FeedKeys(u, b) = k.codes
             \/ k = EscapeKey /\ t2.state = "esc" /\ FeedKeys(u, b) = <<>>
        ELSE InsideKey(k, j + 1, t2) /\ FeedKeys(u, b) = <<>>
    <3>1. IF j + 1 = Len(k.bytes)
          THEN \/ FeedNext(u, b).state = "normal" /\ FeedKeys(u, b) = k.codes
               \/ k = EscapeKey /\ FeedNext(u, b).state = "esc" /\ FeedKeys(u, b) = <<>>
          ELSE InsideKey(k, j + 1, FeedNext(u, b)) /\ FeedKeys(u, b) = <<>>
      <4> HIDE DEF b, k
      <4>1. QED
        BY <1>2, <1>3, <2>2, FeedKey, Zenon
    <3>2. QED
      BY <2>2, <3>1, Zenon DEF GoesOnAs
  <2>4. out2 = CodesUpTo(ks, n) \o FeedKeys(u, b)
    BY <2>2, Zenon DEF GoesOnAs
  <2>5. CodesUpTo(ks, n) \o <<>> = CodesUpTo(ks, n)
    BY <1>4, ConcatEmptySeq
  <2> HIDE DEF t2, out2, b, k
  <2>6. CASE j + 1 = Len(k.bytes)
    <3>1. CodesUpTo(ks, n + 1) = CodesUpTo(ks, n) \o k.codes
      BY <1>1, <1>2, KeysAdd DEF k
    <3>2. n + 1 > 0 /\ (n + 1) - 1 = n
      BY <1>2
    <3>3. BetweenKeys(ks, n + 1, t2, out2)
      BY <2>3, <2>4, <2>5, <2>6, <3>1, <3>2 DEF BetweenKeys, k
    <3>4. ParsedAt(ks, Append(f, b), t2, out2, cut, n + 1, 0)
      BY <1>2, <2>6, <3>3 DEF ParsedAt
    <3>5. QED
      BY <3>4, Zenon DEF t2, out2, b
  <2>7. CASE j + 1 # Len(k.bytes)
    <3>1. InsideKey(k, j + 1, t2) /\ out2 = CodesUpTo(ks, n)
      BY <2>3, <2>4, <2>5, <2>7
    <3>2. j + 1 # 0
      BY <1>2
    <3>3. ParsedAt(ks, Append(f, b), t2, out2, cut, n, j + 1)
      BY <1>2, <2>7, <3>1, <3>2 DEF ParsedAt, k
    <3>4. QED
      BY <3>3, Zenon DEF t2, out2, b
  <2>8. QED
    BY <2>6, <2>7
<1>7. QED
  BY <1>5, <1>6

\* A flush, between two keys or inside of one, leads from such a state to such a
\* state; inside of a key that waits for the byte after its ESC, it cuts the key.
LEMMA FlushParsed ==
  ASSUME NEW ks, TheUser(ks), NEW f, NEW t \in Translator, NEW out, NEW cut, NEW n, NEW j,
         ParsedAt(ks, f, t, out, cut, n, j), NEW cut2, cut \/ (t.state = "esc" /\ j # 0) => cut2
  PROVE  ParsedAt(ks, f, FlushNext(t), out \o FlushKeys(t), cut2, n, j)
<1>1. Position(ks, f, n, j) /\ ks \in UserKeys /\ Len(ks) \in Nat /\ n \in 0 .. Len(ks)
  BY TypeOfKeys DEF ParsedAt, TheUser, Position
<1>2. CASE cut2
  BY <1>1, <1>2, Zenon DEF ParsedAt
<1>3. CASE ~cut2 /\ t.state = "esc"
  <2>1. j = 0 /\ BetweenKeys(ks, n, t, out)
    BY <1>3 DEF ParsedAt
  <2>2. n > 0 /\ ks[n] = EscapeKey /\ out = CodesUpTo(ks, n - 1)
    BY <1>3, <2>1 DEF BetweenKeys
  <2>3. n - 1 \in 0 .. Len(ks) - 1 /\ (n - 1) + 1 = n
    BY <1>1, <2>2
  <2>4. CodesUpTo(ks, (n - 1) + 1) = CodesUpTo(ks, n - 1) \o ks[(n - 1) + 1].codes
    BY <1>1, <2>3, KeysAdd
  <2>5. ks[n].codes = PressKey(Key.Esc, {})
    BY <2>2 DEF EscapeKey
  <2>6. FlushKeys(t) = PressKey(Key.Esc, {}) /\ FlushNext(t) = In(t, "normal")
    BY <1>3 DEF FlushKeys, FlushNext
  <2>7. FlushNext(t).state = "normal"
    BY <2>6, InFields
  <2>8. out \o FlushKeys(t) = CodesUpTo(ks, n)
    BY <2>2, <2>3, <2>4, <2>5, <2>6, Zenon
  <2>9. QED
    BY <1>1, <2>1, <2>7, <2>8, Zenon DEF ParsedAt, BetweenKeys
<1>4. CASE ~cut2 /\ t.state # "esc"
  <2>1. FlushNext(t) = t /\ FlushKeys(t) = <<>>
    BY <1>4 DEF FlushNext, FlushKeys
  <2>2. out = CodesUpTo(ks, n)
    BY <1>4 DEF ParsedAt, BetweenKeys
  <2>3. out \o <<>> = out
    <3>1. CodesUpTo(ks, n) \in Seq(Octet)
      BY <1>1, KeysAdd
    <3>2. QED
      BY <2>2, <3>1, ConcatEmptySeq
  <2>4. ParsedAt(ks, f, t, out, cut2, n, j)
    BY <1>4, Zenon DEF ParsedAt
  <2>5. QED
    BY <2>1, <2>3, <2>4, Zenon
<1>5. QED
  BY <1>2, <1>3, <1>4

\* Wherever the bytes fed are in the keys, it is within them.
LEMMA ParsedWithin ==
  ASSUME NEW ks, TheUser(ks), NEW f, NEW t, NEW out, NEW cut, NEW n, NEW j,
         ParsedAt(ks, f, t, out, cut, n, j)
  PROVE  n \in 0 .. Len(ks) /\ j \in 0 .. Len(f)
<1>1. ks \in UserKeys /\ Position(ks, f, n, j)
  BY DEF TheUser, ParsedAt
<1>2. n \in 0 .. Len(ks) /\ j \in Nat
  BY <1>1 DEF Position
<1>3. Len(f) = Len(BytesUpTo(ks, n)) + j
  BY <1>1, PositionLength
<1>4. Len(BytesUpTo(ks, n)) \in Nat
  BY <1>1, <1>2, KeysAdd, LenProperties
<1>5. QED
  BY <1>2, <1>3, <1>4

\* Every step keeps that.
LEMMA ParsedStep == ASSUME PipeOK, TranslatorOK, ParsedOK, [Next]_vars PROVE ParsedOK'
<1> DEFINE ks == scenario.keys
<1>1. TheUser(ks) /\ tr \in Translator
  BY UserOfScenario DEF PipeOK, TranslatorOK, Translator
<1>2. PICK n \in 0 .. Len(ks), j \in 0 .. Len(fed) : ParsedAt(ks, fed, tr, typed, split, n, j)
  BY Zenon DEF ParsedOK
<1>3. CASE TakeByte
  <2> DEFINE c == channel.bytes
             rest == reader.buf \o reader.input
  <2>1. /\ c \in Seq(Octet) /\ c # <<>> /\ reader.buf \in Seq(Octet) /\ reader.input \in Seq(Octet)
        /\ fed \in Seq(Octet)
    BY <1>3 DEF TakeByte, PipeOK
  <2>2. rest \in Seq(Octet)
    BY <2>1, ConcatProperties
  <2>3. fed \o (c \o rest) = Bytes(ks)
    <3>1. fed \o c \in Seq(Octet)
      BY <2>1, ConcatProperties
    <3>2. ((fed \o c) \o reader.buf) \o reader.input = (fed \o c) \o rest
      BY <2>1, <3>1, Associative
    <3>3. (fed \o c) \o rest = fed \o (c \o rest)
      BY <2>1, <2>2, Associative
    <3>4. fed \o c \o reader.buf \o reader.input = Bytes(ks)
      BY DEF PipeOK, BytesInOrder
    <3>5. QED
      BY <3>2, <3>3, <3>4, Zenon
  <2> HIDE DEF rest
  <2>4. PICK n2, j2 : ParsedAt(ks, Append(fed, Head(c)), FeedNext(tr, Head(c)),
                               typed \o FeedKeys(tr, Head(c)), split, n2, j2)
    BY <1>1, <1>2, <2>1, <2>2, <2>3, FeedParsed, Zenon
  <2>5. /\ fed' = Append(fed, Head(c)) /\ tr' = FeedNext(tr, Head(c))
        /\ typed' = typed \o FeedKeys(tr, Head(c)) /\ split' = split /\ scenario' = scenario
    BY <1>3 DEF TakeByte
  <2>6. ParsedAt(scenario'.keys, fed', tr', typed', split', n2, j2)
    BY <2>4, <2>5, Zenon
  <2>7. n2 \in 0 .. Len(scenario'.keys) /\ j2 \in 0 .. Len(fed')
    <3>1. TheUser(scenario'.keys)
      BY <1>1, <2>5
    <3>2. QED
      BY <2>6, <3>1, ParsedWithin, Zenon
  <2>8. QED
    BY <2>6, <2>7, Zenon DEF ParsedOK
<1>4. CASE EndDrain
  <2>1. /\ fed' = fed /\ tr' = FlushNext(tr) /\ typed' = typed \o FlushKeys(tr)
        /\ split' = (split \/ (tr.state = "esc" /\ InsideAKey)) /\ scenario' = scenario
    BY <1>4 DEF EndDrain
  <2>2. InsideAKey <=> j # 0
    BY <1>1, <1>2, PositionCounts DEF ParsedAt
  <2>3. split \/ (tr.state = "esc" /\ j # 0) => split'
    BY <2>1, <2>2, Zenon
  <2>4. ParsedAt(ks, fed, FlushNext(tr), typed \o FlushKeys(tr), split', n, j)
    BY <1>1, <1>2, <2>3, FlushParsed, Zenon
  <2>5. ParsedAt(scenario'.keys, fed', tr', typed', split', n, j)
    BY <2>1, <2>4, Zenon
  <2>6. QED
    BY <2>1, <2>5, Zenon DEF ParsedOK
<1>5. ASSUME UNCHANGED <<scenario, fed, tr, typed, split>> PROVE ParsedOK'
  BY <1>2, <1>5, Zenon DEF ParsedOK
<1>6. ASSUME ~TakeByte, ~EndDrain PROVE UNCHANGED <<scenario, fed, tr, typed, split>>
  BY <1>6 DEF Next, Reads, MainLoop, Read, Send, HangUp, StartFrame, FindsItClosed,
              MachineStep, MachineFails, EndFrame, vars, userVars
<1>7. QED
  BY <1>3, <1>4, <1>5, <1>6

\* At first no key has been fed.
LEMMA ParsedInit == Init => ParsedOK
<1> SUFFICES ASSUME Init PROVE ParsedOK
  OBVIOUS
<1> DEFINE ks == scenario.keys
<1>1. scenario \in Scenarios /\ fed = <<>> /\ typed = <<>> /\ split = FALSE /\ tr.state = "normal"
  BY DEF Init, NewTranslator
<1>2. ks \in UserKeys
  BY <1>1, UserOfScenario DEF TheUser
<1>3. 0 \in 0 .. Len(ks) /\ BytesUpTo(ks, 0) = <<>> /\ CodesUpTo(ks, 0) = <<>>
  BY <1>2, TypeOfKeys, KeysAdd
<1> HIDE DEF ks
<1>4. Position(ks, fed, 0, 0)
  BY <1>1, <1>3 DEF Position
<1>5. BetweenKeys(ks, 0, tr, typed)
  BY <1>1, <1>3 DEF BetweenKeys
<1>6. ParsedAt(ks, fed, tr, typed, split, 0, 0)
  BY <1>4, <1>5, Zenon DEF ParsedAt
<1>7. TheUser(ks)
  BY <1>1, UserOfScenario DEF ks
<1>8. 0 \in 0 .. Len(ks) /\ 0 \in 0 .. Len(fed)
  BY <1>6, <1>7, ParsedWithin, Zenon
<1>9. QED
  BY <1>6, <1>8, Zenon DEF ParsedOK, ks


-----------------------------------------------------------------------------
(***************************************************************************)
(* The theorems.                                                           *)
(***************************************************************************)

\* At first everything typed is still to be read, and nothing has been shown.
LEMMA InitIInv == Init => IInv
<1> SUFFICES ASSUME Init PROVE IInv
  OBVIOUS
<1>1. Bytes(scenario.keys) \in Seq(Octet)
  BY InteractiveAssumption DEF Init
<1>2. PipeOK
  <2>1. BytesInOrder
    BY <1>1, ConcatEmptySeq DEF Init, BytesInOrder
  <2>2. QED
    BY <1>1, <2>1, InteractiveAssumption DEF Init, PipeOK
<1>3. LoopOK
  BY InteractiveAssumption DEF Init, LoopOK
<1>4. TranslatorOK
  BY DEF Init, TranslatorOK, Translator, NewTranslator
<1>5. ScreenOK
  BY DEF Init, ScreenOK, ShownScreenIsCurrent
<1>6. Balanced(typed)
  BY BalanceAdds DEF Init
<1>7. ParsedOK
  BY ParsedInit
<1>8. QED
  BY <1>2, <1>3, <1>4, <1>5, <1>6, <1>7 DEF IInv

\* Every step keeps the inductive invariant.
LEMMA StepIInv == IInv /\ [Next]_vars => IInv'
  BY PipeStep, LoopStep, TranslatorStep, ScreenStep, BalanceStep, ParsedStep DEF IInv

\* The inductive invariant holds in every reachable state of the interactive
\* mode, for every input, every capacity and every screen.
THEOREM Invariance == Spec => []IInv
  BY InitIInv, StepIInv, PTL DEF Spec

\* Every variable has its type, the channel and the buffer keep their bounds, and
\* no more steps are executed than the limit allows.
THEOREM TypeCorrect == Spec => []TypeOK
<1>1. IInv => TypeOK
  BY DEF IInv, PipeOK, LoopOK, TranslatorOK, Translator, ScreenOK, TypeOK
<1>2. QED
  BY <1>1, Invariance, PTL

\* No byte of the terminal is lost, repeated or overtaken on its way to the
\* translator.
THEOREM NothingLost == Spec => []BytesInOrder
<1>1. IInv => BytesInOrder
  BY DEF IInv, PipeOK
<1>2. QED
  BY <1>1, Invariance, PTL

\* Between frames, and after the last, the terminal shows the machine's screen.
THEOREM ScreenCurrent == Spec => []ShownScreenIsCurrent
<1>1. IInv => ShownScreenIsCurrent
  BY DEF IInv, ScreenOK
<1>2. QED
  BY <1>1, Invariance, PTL

\* Between two bytes no key and no modifier is down in the machine, whatever
\* bytes have come, split sequences included, and whatever the layout.
THEOREM KeysComeUp == Spec => []NoKeyStaysDown
<1>1. IInv => NoKeyStaysDown
  <2> SUFFICES ASSUME Balanced(typed), NEW code \in 1 .. 88
               PROVE  Times(code) = Times(code + 128)
    BY DEF IInv, NoKeyStaysDown
  <2>1. Occurrences(typed, code) = Occurrences(typed, Break(code))
    BY DEF Balanced
  <2>2. QED
    BY <2>1 DEF Occurrences, Times, Break
<1>2. QED
  BY <1>1, Invariance, PTL

\* The machine gets the codes of the keys that have been fed, each complete and
\* in order, whatever bytes share a frame, unless a flush has cut a key.
THEOREM KeysArrive == Spec => []KeysArriveAsPressed
<1>1. IInv => KeysArriveAsPressed
  <2> SUFFICES ASSUME IInv, ~split, tr.state = "normal"
               PROVE  typed = Codes(SubSeq(scenario.keys, 1, KeysFed))
    BY DEF KeysArriveAsPressed
  <2>1. PICK n \in 0 .. Len(scenario.keys), j \in 0 .. Len(fed) :
          ParsedAt(scenario.keys, fed, tr, typed, split, n, j)
    BY Zenon DEF IInv, ParsedOK
  <2>2. TheUser(scenario.keys)
    BY UserOfScenario DEF IInv, PipeOK
  <2>3. KeysFed = n
    BY <2>1, <2>2, PositionCounts DEF ParsedAt
  <2>4. typed = CodesUpTo(scenario.keys, n)
    BY <2>1 DEF ParsedAt, BetweenKeys
  <2>5. QED
    BY <2>3, <2>4 DEF CodesUpTo
<1>2. QED
  BY <1>1, Invariance, PTL
=============================================================================
