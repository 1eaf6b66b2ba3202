-------------------------------- MODULE Bits --------------------------------
(***************************************************************************)
(* The bit tests of the register-level code.  A byte is a natural number;  *)
(* value&(1<<k) != 0 is Bit(value, k).                                     *)
(***************************************************************************)
EXTENDS Naturals

Byte == 0 .. 255

Bit(value, k) == (value \div 2^k) % 2 = 1

\* The positions below n whose bit is set: a register with one bit per line,
\* channel or counter, read as the set of the lines it names.
BitSet(value, n) == {k \in 0 .. n - 1 : Bit(value, k)}
=============================================================================
