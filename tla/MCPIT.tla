-------------------------------- MODULE MCPIT --------------------------------
(***************************************************************************)
(* Counters 0 and 1 with two-valued bytes: a full turn is four strokes.    *)
(* Counter 0 takes every access mode and the latch; counter 1 is loaded by *)
(* its low byte, as the BIOS does for the refresh.                         *)
(***************************************************************************)
EXTENDS PITClock

\* Counter 0: 0x14, 0x24 and 0x34 (LSB, MSB, both) and the latch 0x00; counter
\* 1: 0x54 (LSB).
MCControlBytes == {20, 36, 52, 0, 84}
=============================================================================
