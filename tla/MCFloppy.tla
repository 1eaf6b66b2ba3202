------------------------------ MODULE MCFloppy ------------------------------
(***************************************************************************)
(* Two cylinders, one head, two sectors of two bytes, and an address space *)
(* of two pages of four bytes.  Every byte of the disk and of the memory   *)
(* is different.                                                           *)
(***************************************************************************)
EXTENDS Floppy

Data(op, drive, c, r, eot) == <<op, drive, c, 0, r, 2, eot, 42, 255>>

\* Read (0xE6) and write (0xC5) with sectors inside and outside the geometry, R
\* above EOT, drives 0 and 1; seek, recalibrate, sense interrupt, sense drive,
\* read ID, specify, an unknown command and a Write Deleted that the code does
\* not implement.
MCCommands ==
  {Data(230, 0, 1, r, e) : r \in {1, 2}, e \in {1, 2}}
  \cup {Data(230, 1, 0, 1, 1), Data(230, 0, 2, 1, 2)}
  \cup {Data(197, 0, 1, 1, 2), Data(197, 0, 0, 2, 3), Data(197, 0, 1, 3, 1)}
  \cup {<<15, 0, 0>>, <<15, 1, 1>>, <<7, 1>>, <<8>>, <<4, 0>>, <<10, 1>>, <<3, 175, 2>>, <<30>>}
  \cup {Data(9, 0, 1, 1, 1)}

\* One sector, two sectors, a part of a sector, in the second page.
MCSetups == {[addr |-> 0, count |-> 1, page |-> 1], [addr |-> 0, count |-> 3, page |-> 1],
             [addr |-> 1, count |-> 2, page |-> 0], [addr |-> 3, count |-> 3, page |-> 0]}

\* The ROM ends with the first byte of the second page.
MCInitialMem ==
  LET RAM == [Bus!NewBus EXCEPT !.data = [a \in Address |-> 200 + a]]
  IN  Bus!LoadROM(RAM, 3, <<253, 254>>)
MCInitialImage == [o \in Image |-> 100 + o]
=============================================================================
