------------------------------- MODULE Memory -------------------------------
(***************************************************************************)
(* The memory bus, memory/bus.go: flat memory with read-only ranges.  A    *)
(* range is kept as the pair of its first and last address; one that runs  *)
(* over the end of memory has first > last and covers nothing.             *)
(***************************************************************************)
EXTENDS Naturals

CONSTANT Size       \* bytes of memory; mask is Size - 1

Addr == 0 .. Size - 1

NewBus == [data |-> [a \in Addr |-> 0], rom |-> {}]

Read8(bus, addr) == bus.data[addr % Size]

IsROMButLast(bus, a) ==     \* mutant: the last byte of a range is left out
  \E r \in bus.rom : r.lo <= a /\ a < r.hi
IsROM(bus, a) == \E r \in bus.rom : r.lo <= a /\ a <= r.hi

Write8(bus, addr, value) ==
  IF IsROM(bus, addr % Size) THEN bus ELSE [bus EXCEPT !.data[addr % Size] = value]

\* Loading looks at no protection; a byte that wraps onto an earlier one wins.
LoadRAM(bus, addr, bytes) ==
  LET Lands(a) == {i \in DOMAIN bytes : (addr + i - 1) % Size = a} IN
  [bus EXCEPT !.data =
     [a \in Addr |-> IF Lands(a) = {} THEN @[a]
                     ELSE bytes[CHOOSE i \in Lands(a) : \A j \in Lands(a) : j <= i]]]

LoadROM(bus, addr, bytes) ==
  IF DOMAIN bytes = {} THEN bus
  ELSE LET last == CHOOSE n \in DOMAIN bytes : n + 1 \notin DOMAIN bytes
       IN [LoadRAM(bus, addr, bytes) EXCEPT
             !.rom = @ \cup {[lo |-> addr % Size, hi |-> (addr + last - 1) % Size]}]
=============================================================================
