-------------------------------- MODULE Words --------------------------------
(***************************************************************************)
(* A 16-bit register as its two bytes.  Radix is the number of values of a *)
(* byte, 256 in the program: every wrap of the code is at a multiple of it *)
(* or of its square, so a smaller Radix keeps the structure and makes the  *)
(* boundaries reachable.                                                   *)
(***************************************************************************)
EXTENDS Naturals

CONSTANT Radix

ASSUME RadixAssumption == Radix \in Nat \ {0, 1}

Digit == 0 .. Radix - 1                    \* a byte
WordSize == Radix * Radix
Word == 0 .. WordSize - 1                  \* a uint16

Low(w) == w % Radix
High(w) == w \div Radix
WithLow(w, v) == w - (w % Radix) + v       \* w&0xFF00 | v
WithHigh(w, v) == (w % Radix) + v * Radix  \* w&0x00FF | v<<8
=============================================================================
