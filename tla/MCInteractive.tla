---------------------------- MODULE MCInteractive ----------------------------
(***************************************************************************)
(* A screen of two cells on a page of four, a channel of two bytes, reads  *)
(* of one or two.  Either the user types any two keys out of ten on a      *)
(* machine that leaves its screen alone, or the software changes cells,    *)
(* attributes, cursor and start address while one key comes.               *)
(***************************************************************************)
EXTENDS InteractiveProps, TLC

UserKey(b, c) == [bytes |-> b, codes |-> c]

\* The bytes a terminal sends, and the codes of the XT keyboard.
LowerA == UserKey(<<97>>, <<30, 158>>)
UpperA == UserKey(<<65>>, <<42, 30, 158, 170>>)
CtrlC == UserKey(<<3>>, <<29, 46, 174, 157>>)
Enter == UserKey(<<13>>, <<28, 156>>)
Backspace == UserKey(<<127>>, <<14, 142>>)
Escape == UserKey(<<27>>, <<1, 129>>)
Up == UserKey(<<27, 91, 65>>, <<224, 72, 224, 200>>)
Delete == UserKey(<<27, 91, 51, 126>>, <<224, 83, 224, 211>>)
Home == UserKey(<<27, 91, 49, 126>>, <<224, 71, 224, 199>>)
F1 == UserKey(<<27, 79, 80>>, <<59, 187>>)
Accent == UserKey(<<195, 168>>, <<>>)
Quit == UserKey(<<29>>, <<>>)

MCKeys == {LowerA, UpperA, CtrlC, Enter, Backspace, Escape, Up, Delete, Home, F1, Accent, Quit}

MCKeyMap ==
  (97 :> [code |-> 30, shift |-> FALSE]) @@ (65 :> [code |-> 30, shift |-> TRUE])
  @@ (99 :> [code |-> 46, shift |-> FALSE]) @@ (91 :> [code |-> 26, shift |-> FALSE])
  @@ (79 :> [code |-> 24, shift |-> TRUE]) @@ (80 :> [code |-> 25, shift |-> TRUE])
  @@ (51 :> [code |-> 4, shift |-> FALSE]) @@ (49 :> [code |-> 2, shift |-> FALSE])
  @@ (126 :> [code |-> 41, shift |-> TRUE])

Output(p, v) == [op |-> "OUT", port |-> p, value |-> v]
Compute == [op |-> "NONE"]
MCAccesses ==
  {Compute, Output(0, 13), Output(0, 15), Output(1, 1), Output(4, 41), [op |-> "IN", port |-> 6],
   [op |-> "STORE", addr |-> 0, value |-> 65], [op |-> "STORE", addr |-> 4, value |-> 200],
   [op |-> "STORE", addr |-> 1, value |-> 7]}

Scenario(keys, max, frame, accesses) ==
  [keys |-> keys, maxSteps |-> max, stepsPerFrame |-> frame, accesses |-> accesses]

MCScenarios ==
  {Scenario(<<k, l>>, 0, 1, {Compute}) : k \in MCKeys, l \in MCKeys}
  \cup {Scenario(<<k>>, 5, 2, {Compute}) : k \in {Up, Quit}}
  \cup {Scenario(<<>>, 5, 2, MCAccesses)}
=============================================================================
