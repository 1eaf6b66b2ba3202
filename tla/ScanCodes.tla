------------------------------ MODULE ScanCodes ------------------------------
(***************************************************************************)
(* device/scancodes.go: from keys and typed bytes to scan codes of set 1.  *)
(* Each operator returns the codes that are handed to PressScancode, in    *)
(* order.  The layout (usKeyrows) is data and comes as a constant.         *)
(***************************************************************************)
EXTENDS Naturals, Sequences

CONSTANT KeyMap     \* from bytes to [code, shift]

\* The layout names keys of the keyboard by their make codes.
ASSUME KeyMapAssumption ==
  \A b \in DOMAIN KeyMap : KeyMap[b].code \in 1 .. 88 /\ KeyMap[b].shift \in BOOLEAN

Plain(code) == [code |-> code, extended |-> FALSE]
Extended(code) == [code |-> code, extended |-> TRUE]

Key ==
  [Esc |-> Plain(1), Backspace |-> Plain(14), Tab |-> Plain(15), Enter |-> Plain(28),
   F1 |-> Plain(59), F2 |-> Plain(60), F3 |-> Plain(61), F4 |-> Plain(62),
   Up |-> Extended(72), Down |-> Extended(80), Left |-> Extended(75), Right |-> Extended(77),
   Home |-> Extended(71), End |-> Extended(79), PageUp |-> Extended(73),
   PageDown |-> Extended(81), Insert |-> Extended(82), Delete |-> Extended(83)]

Break(code) == code + 128

When(cond, code) == IF cond THEN <<code>> ELSE <<>>

ExtendedPrefix == 224

\* The modifiers go down in one order and up in the other, around the key.
ModsMake(mods) ==
  When("Shift" \in mods, 42) \o When("Ctrl" \in mods, 29) \o When("Alt" \in mods, 56)
ModsBreak(mods) ==
  When("Alt" \in mods, Break(56)) \o When("Ctrl" \in mods, Break(29))
  \o When("Shift" \in mods, Break(42))

PressKey(k, mods) ==
  ModsMake(mods)
  \o When(k.extended, ExtendedPrefix) \o <<k.code>>
  \o When(k.extended, ExtendedPrefix) \o <<Break(k.code)>>
  \o ModsBreak(mods)

(***************************************************************************)
(* Type, for one byte.  A byte that is on no key is ignored; so are the    *)
(* two bytes that string(b) makes of one above 127, which are both above   *)
(* 127 as well.                                                            *)
(***************************************************************************)
Letter(b) == 96 + b        \* 'a' + b - 1, for Ctrl-A to Ctrl-Z

TypeByte(b) ==
  CASE b \in {10, 13} -> PressKey(Key.Enter, {})
    [] b = 8 -> PressKey(Key.Backspace, {})
    [] b = 9 -> PressKey(Key.Tab, {})
    [] b = 27 -> PressKey(Key.Esc, {})
    [] b \in 1 .. 26 \ {8, 9, 10, 13} ->
         IF Letter(b) \in DOMAIN KeyMap THEN PressKey(Plain(KeyMap[Letter(b)].code), {"Ctrl"})
         ELSE <<>>
    [] b \in DOMAIN KeyMap ->
         PressKey(Plain(KeyMap[b].code), IF KeyMap[b].shift THEN {"Shift"} ELSE {})
    [] OTHER -> <<>>
=============================================================================
