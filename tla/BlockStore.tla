----------------------------- MODULE BlockStore -----------------------------
(***************************************************************************)
(* What the hard disk promises to a driver: an array of blocks.  A read of *)
(* blocks that are there is granted, and hands over the words they hold    *)
(* when it is asked for.  A write takes the words of its blocks and        *)
(* changes the array in a single step, with the last of them, if the       *)
(* blocks are there; if not it fails and changes nothing.  A request may   *)
(* be given up at any moment, and then it has changed nothing.             *)
(***************************************************************************)
EXTENDS Integers, Sequences

CONSTANTS
  Blocks,       \* number of blocks
  SectorSize,   \* bytes of a block, an even number
  InitialDisk,  \* what they hold at first
  Word,         \* the words a driver may write, pairs of bytes
  Identity      \* the words with which the disk describes itself

VARIABLES
  blocks,  \* what they hold
  state,   \* "idle", "reading", "writing", "done" or "failed"
  range,   \* the blocks of the request
  due,     \* the words a read is to hand over
  words    \* the words handed over, or taken

vars == <<blocks, state, range, due, words>>

Block == 0 .. Blocks - 1
Range == [lba : Nat, count : Nat \ {0}]
NoRange == [lba |-> 0, count |-> 0]

IsThere(r) == r.lba + r.count <= Blocks

\* The k-th byte from a block on, counted from 0.
ByteAt(lba, k) == blocks[lba + k \div SectorSize][(k % SectorSize) + 1]
Content(r) ==
  [i \in 1 .. (r.count * SectorSize) \div 2 |-> <<ByteAt(r.lba, 2 * i - 2), ByteAt(r.lba, 2 * i - 1)>>]

\* The array with words in a range of its blocks; the k-th byte of words is
\* counted from 1.
ByteOf(w, k) == w[(k + 1) \div 2][2 - (k % 2)]
Put(r, w) ==
  [b \in Block |->
     IF b \in r.lba .. r.lba + r.count - 1
     THEN [i \in 1 .. SectorSize |-> ByteOf(w, (b - r.lba) * SectorSize + i)]
     ELSE blocks[b]]

Init ==
  /\ blocks = InitialDisk
  /\ state = "idle" /\ range = NoRange /\ due = <<>> /\ words = <<>>

Read ==
  /\ range' \in Range
  /\ IF IsThere(range')
     THEN state' = "reading" /\ due' = Content(range')
     ELSE state' = "failed" /\ due' = <<>>
  /\ words' = <<>>
  /\ UNCHANGED blocks

Identify ==
  /\ state' = "reading" /\ due' = Identity
  /\ range' = NoRange /\ words' = <<>>
  /\ UNCHANGED blocks

HandOver ==
  /\ state = "reading"
  /\ words' = Append(words, due[Len(words) + 1])
  /\ state' = IF Len(words') = Len(due) THEN "done" ELSE "reading"
  /\ UNCHANGED <<blocks, range, due>>

Write ==
  /\ range' \in Range
  /\ state' = "writing" /\ due' = <<>> /\ words' = <<>>
  /\ UNCHANGED blocks

\* A word, and with the last one all of them.
Take(word) ==
  /\ state = "writing"
  /\ words' = Append(words, word)
  /\ IF 2 * Len(words') < range.count * SectorSize THEN state' = "writing" /\ UNCHANGED blocks
     ELSE IF IsThere(range) THEN state' = "done" /\ blocks' = Put(range, words')
     ELSE state' = "failed" /\ UNCHANGED blocks
  /\ UNCHANGED <<range, due>>

GiveUp ==
  /\ state' = "idle" /\ range' = NoRange /\ due' = <<>> /\ words' = <<>>
  /\ UNCHANGED blocks

Next ==
  \/ Read \/ Identify \/ HandOver
  \/ Write \/ (\E word \in Word : Take(word))
  \/ GiveUp

Spec == Init /\ [][Next]_vars
=============================================================================
