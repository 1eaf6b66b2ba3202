---------------------------- MODULE KeyTranslator ----------------------------
(***************************************************************************)
(* The escape-sequence parser of cmd/retronet-pc/interactive.go: bytes of  *)
(* the host terminal become keys.  A translator is a record; with each     *)
(* operation goes the sequence of scan codes it hands to the keyboard.     *)
(***************************************************************************)
EXTENDS ScanCodes

ESC == 27
CtrlBracket == 29     \* Ctrl+]
DEL == 127
Bracket == 91         \* '['
LetterO == 79         \* 'O'
Tilde == 126          \* '~'
Semicolon == 59       \* ';'
Digits == 48 .. 57    \* '0' .. '9'

NewTranslator == [state |-> "normal", params |-> <<>>, quit |-> FALSE]

In(tr, state) == [tr EXCEPT !.state = state]

\* The final bytes that CSI and SS3 have in common, A to S.
FinalKey ==
  [b \in {65, 66, 67, 68, 70, 72, 80, 81, 82, 83} |->
     CASE b = 65 -> Key.Up   [] b = 66 -> Key.Down [] b = 67 -> Key.Right [] b = 68 -> Key.Left
       [] b = 72 -> Key.Home [] b = 70 -> Key.End
       [] b = 80 -> Key.F1   [] b = 81 -> Key.F2   [] b = 82 -> Key.F3    [] b = 83 -> Key.F4]

\* The parameters before a '~'.
TildeKey ==
  [p \in {<<d>> : d \in 49 .. 56} |->
     CASE p[1] \in {49, 55} -> Key.Home [] p[1] \in {52, 56} -> Key.End
       [] p[1] = 50 -> Key.Insert [] p[1] = 51 -> Key.Delete
       [] p[1] = 53 -> Key.PageUp [] p[1] = 54 -> Key.PageDown]

ArrowOrFn(b) == IF b \in DOMAIN FinalKey THEN PressKey(FinalKey[b], {}) ELSE <<>>

CSIFinal(tr, b) ==
  IF b # Tilde THEN ArrowOrFn(b)
  ELSE IF tr.params \in DOMAIN TildeKey THEN PressKey(TildeKey[tr.params], {})
  ELSE <<>>

(***************************************************************************)
(* feed: the translator after a byte, and the codes it sends.              *)
(***************************************************************************)
NormalNext(tr, b) ==
  CASE b = ESC -> In(tr, "esc")
    [] b = CtrlBracket -> [tr EXCEPT !.quit = TRUE]
    [] OTHER -> tr
NormalKeys(b) ==
  CASE b \in {ESC, CtrlBracket} -> <<>>
    [] b = DEL -> PressKey(Key.Backspace, {})
    [] OTHER -> TypeByte(b)

IsParameter(b) == b \in Digits \cup {Semicolon}

Introducer(b) == b \in {Bracket, LetterO}

FeedNextKeepsParams(tr, b) ==     \* mutant: the parameters of the sequence before stay
  CASE tr.state = "normal" -> NormalNext(tr, b)
    [] tr.state = "esc" /\ b = Bracket -> In(tr, "csi")
    [] tr.state = "esc" /\ b = LetterO -> In(tr, "ss3")
    [] tr.state = "esc" /\ ~Introducer(b) -> NormalNext(In(tr, "normal"), b)
    [] tr.state = "csi" /\ IsParameter(b) -> [tr EXCEPT !.params = Append(@, b)]
    [] OTHER -> In(tr, "normal")
FeedNext(tr, b) ==
  CASE tr.state = "normal" -> NormalNext(tr, b)
    [] tr.state = "esc" /\ b = Bracket -> [In(tr, "csi") EXCEPT !.params = <<>>]
    [] tr.state = "esc" /\ b = LetterO -> In(tr, "ss3")
    [] tr.state = "esc" /\ ~Introducer(b) -> NormalNext(In(tr, "normal"), b)
    [] tr.state = "csi" /\ IsParameter(b) -> [tr EXCEPT !.params = Append(@, b)]
    [] OTHER -> In(tr, "normal")

FeedKeys(tr, b) ==
  CASE tr.state = "normal" -> NormalKeys(b)
    [] tr.state = "esc" /\ Introducer(b) -> <<>>
    [] tr.state = "esc" /\ ~Introducer(b) -> PressKey(Key.Esc, {}) \o NormalKeys(b)
    [] tr.state = "csi" /\ IsParameter(b) -> <<>>
    [] tr.state = "csi" /\ ~IsParameter(b) -> CSIFinal(tr, b)
    [] tr.state = "ss3" -> ArrowOrFn(b)

(***************************************************************************)
(* flush: an ESC that nothing follows is the Esc key.                      *)
(***************************************************************************)
FlushNext(tr) == IF tr.state = "esc" THEN In(tr, "normal") ELSE tr
FlushKeysDown(tr) ==     \* mutant: the code that goes down, and none that comes up
  IF tr.state = "esc" THEN <<Key.Esc.code>> ELSE <<>>
FlushKeys(tr) == IF tr.state = "esc" THEN PressKey(Key.Esc, {}) ELSE <<>>
=============================================================================
