--------------------------- MODULE InteractiveProps ---------------------------
(***************************************************************************)
(* What the interactive mode owes to the user at the terminal.             *)
(***************************************************************************)
EXTENDS Interactive

(***************************************************************************)
(* What the keys of the terminal are: their bytes, and the codes the       *)
(* machine is to get for them.                                             *)
(***************************************************************************)
EscapeKey == [bytes |-> <<ESC>>, codes |-> PressKey(Key.Esc, {})]

CharacterKey(k) == \E b \in Octet \ {ESC} : k = [bytes |-> <<b>>, codes |-> NormalKeys(b)]

\* The bytes of a character the layout has no key for.
UnknownCharacter(k) ==
  /\ k.codes = <<>> /\ k.bytes # <<>>
  /\ \A i \in DOMAIN k.bytes : k.bytes[i] # ESC /\ NormalKeys(k.bytes[i]) = <<>>

SS3Key(k) == \E b \in Octet : k = [bytes |-> <<ESC, LetterO, b>>, codes |-> ArrowOrFn(b)]

CSIKey(k) ==
  LET n == Len(k.bytes) IN
  /\ n >= 3 /\ k.bytes[1] = ESC /\ k.bytes[2] = Bracket
  /\ \A i \in 3 .. n - 1 : IsParameter(k.bytes[i])
  /\ ~IsParameter(k.bytes[n])
  /\ k.codes = CSIFinal([NewTranslator EXCEPT !.params = SubSeq(k.bytes, 3, n - 1)], k.bytes[n])

\* After an Esc that is a key, the byte that would begin a sequence with it is no
\* key of its own: the bytes of both are those of one.
ASSUME UserAssumption ==
  \A s \in Scenarios :
    /\ s.keys \in Seq([bytes : Seq(Octet), codes : Seq(Octet)])
    /\ \A i \in DOMAIN s.keys :
         LET k == s.keys[i] IN
         /\ k = EscapeKey \/ CharacterKey(k) \/ UnknownCharacter(k) \/ SS3Key(k) \/ CSIKey(k)
         /\ i > 1 /\ s.keys[i - 1] = EscapeKey => ~Introducer(k.bytes[1])

\* Every variable has its type; the loop never executes more than the limit.
TypeOK ==
  /\ Len(channel.bytes) <= Capacity /\ Len(reader.buf) <= ReadSize
  /\ loop.pc \in {"tick", "drain", "run", "done"}
  /\ loop.left >= 0
  /\ Limited => loop.executed + loop.left <= scenario.maxSteps
  /\ tr.state \in {"normal", "esc", "csi", "ss3"} /\ tr.quit \in BOOLEAN
  /\ terminal = <<>> \/ DOMAIN terminal.screen = 0 .. Rows - 1

\* Between the terminal and the translator no byte is lost, repeated or
\* overtaken, however the reads are cut and however full the channel is
\* (runInteractive, interactive.go:26-39 and 55-65).
BytesInOrder ==
  fed \o channel.bytes \o reader.buf \o reader.input = Bytes(scenario.keys)

\* The machine gets the codes of the keys the user pressed, each complete and in
\* order, whatever bytes share a frame and whatever the key before left behind;
\* only a key whose ESC is flushed before the rest of its bytes has come is
\* excepted (feed and flush, interactive.go:138-183; PressKey and Type,
\* scancodes.go:117-177).
KeysArriveAsPressed ==
  ~split /\ tr.state = "normal" => typed = Codes(SubSeq(scenario.keys, 1, KeysFed))

Times(code) == Cardinality({i \in DOMAIN typed : typed[i] = code})

\* No key stays down in the machine: between two bytes every code that went down
\* has come up, whatever the bytes are, split sequences included; a lost break
\* of Shift or Ctrl would change every key that follows (PressKey,
\* scancodes.go:114-144).
NoKeyStaysDown ==
  \A code \in 1 .. 88 : Times(code) = Times(code + 128)

\* Between frames, and when the loop has ended for whatever reason, the
\* terminal shows the text the machine has on its screen (renderFrame,
\* interactive.go:91-117; runInteractive, interactive.go:75-86).
ShownScreenIsCurrent ==
  ~At("run") /\ terminal # <<>> => terminal.screen = Screen

\* The loop ends once there is a reason to: the user presses Ctrl+], the terminal
\* goes, or there is a limit of steps (runInteractive, interactive.go:14-17,
\* 58-60, 67-69 and 84-86).
EndsWhenAsked ==
  (\E i \in DOMAIN scenario.keys : scenario.keys[i].bytes = <<CtrlBracket>>)
  \/ channel.closed \/ Limited
    ~> At("done")

\* What interactive.go:92 says of renderFrame, that "poi posiziona il cursore
\* dove lo tiene il 6845": between frames the cursor is where the adapter has
\* it.
ShownCursorIsCurrent ==
  ~At("run") /\ terminal # <<>> => terminal.cursor = Video!CursorPos(video)
=============================================================================
