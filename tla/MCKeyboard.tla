----------------------------- MODULE MCKeyboard -----------------------------
(***************************************************************************)
(* Two codes, a delay of four strokes counted in ones and threes, and all  *)
(* four settings of PB6 and PB7.                                           *)
(***************************************************************************)
EXTENDS Keyboard
=============================================================================
