------------------------------ MODULE TextVideo ------------------------------
(***************************************************************************)
(* The text adapter with its 6845, device/textvideo.go: pure operators on  *)
(* a record.  Ports are counted from the base port of the adapter.  The    *)
(* video memory is part of the memory bus; every second byte of a cell is  *)
(* its attribute and is never shown.                                       *)
(***************************************************************************)
EXTENDS Integers, Bits

CONSTANTS
  Radix,      \* the values of a register byte: two of them make an offset
  Columns,    \* 80
  Rows,       \* 25
  Cells,      \* cells of a video page, cellMask + 1
  Base,       \* address of the video memory
  MemSize     \* size of the address space

Ram == INSTANCE Memory WITH Size <- MemSize

Registers == 0 .. 17

NewVideo == [index |-> 0, crtc |-> [r \in Registers |-> 0], mode |-> 0, status |-> 0]

Out8(v, port, value) ==
  CASE port = 0 -> [v EXCEPT !.index = value % 32]
    [] port = 1 /\ v.index \in Registers -> [v EXCEPT !.crtc[v.index] = value]
    [] port = 4 -> [v EXCEPT !.mode = value]
    [] OTHER -> v

\* A read of the status flips bits 0 and 3, display and retrace.
AfterIn8(v, port) == IF port = 6 THEN [v EXCEPT !.status = 9 - @] ELSE v

CursorOffset(v) == v.crtc[14] * Radix + v.crtc[15]
StartOffset(v) == v.crtc[12] * Radix + v.crtc[13]

Hidden(v) == Bit(v.crtc[10], 5)

\* Row and column of the cursor on the screen, or nothing.
CursorPos(v) ==
  LET off == (CursorOffset(v) - StartOffset(v)) % Cells
      row == off \div Columns
  IN  IF ~Hidden(v) /\ row < Rows THEN <<row, off % Columns>> ELSE <<>>

Printable(ch) ==
  IF ch \in {0, 32} THEN 32 ELSE IF ch \in 33 .. 126 THEN ch ELSE 46

CellAt(v, r, c) == (StartOffset(v) + r * Columns + c) % Cells

Render(v, mem) ==
  [r \in 0 .. Rows - 1 |-> [c \in 0 .. Columns - 1 |->
     Printable(Ram!Read8(mem, Base + CellAt(v, r, c) * 2))]]
=============================================================================
