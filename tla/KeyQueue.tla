------------------------------ MODULE KeyQueue ------------------------------
(***************************************************************************)
(* What the keyboard promises to the software: a queue of scan codes.  The *)
(* code at its head is announced by one interrupt request, and leaves when *)
(* the software clears the keyboard; a keyboard reset throws everything    *)
(* away and announces the answer of the self test.  How long a code waits, *)
(* and what the port registers hold, is left open.                         *)
(***************************************************************************)
EXTENDS Sequences

CONSTANTS
  Codes,      \* the scan codes a key may send
  SelfTest    \* the answer to a reset

VARIABLES
  queue,      \* codes sent and not yet cleared, the oldest first
  announced,  \* the head of the queue has been announced
  request     \* the interrupt request the software has not taken yet

vars == <<queue, announced, request>>

Init == queue = <<>> /\ announced = FALSE /\ request = FALSE

\* A code is sent; if nothing is in its way it may be announced at once.
Send(code) ==
  /\ queue' = Append(queue, code)
  /\ \/ UNCHANGED <<announced, request>>
     \/ ~announced /\ announced' = TRUE /\ request' = TRUE

Announce ==
  /\ queue # <<>> /\ ~announced
  /\ announced' = TRUE /\ request' = TRUE
  /\ UNCHANGED queue

Clear ==
  /\ announced
  /\ queue' = Tail(queue) /\ announced' = FALSE
  /\ UNCHANGED request

Restart == queue' = <<SelfTest>> /\ announced' = TRUE /\ request' = TRUE

TakeRequest == request /\ request' = FALSE /\ UNCHANGED <<queue, announced>>

Next ==
  \/ \E code \in Codes : Send(code)
  \/ Announce \/ Clear \/ Restart \/ TakeRequest

Spec == Init /\ [][Next]_vars
=============================================================================
