-------------------------------- MODULE MCPIC --------------------------------
(***************************************************************************)
(* Four lines; ICW1 with and without ICW4, both kinds of EOI, an OCW2 that *)
(* is not an EOI and an OCW3; data bytes that differ as a vector base, as  *)
(* ICW4 and as a mask.                                                     *)
(***************************************************************************)
EXTENDS PICService

MCCommandBytes == {18, 19, 32, 64, 11} \cup {96 + l : l \in Line}
MCDataBytes == {0, 2, 5, 9, 255}
=============================================================================
