--------------------------- MODULE HardDiskProofs ---------------------------
(***************************************************************************)
(* The drive keeps its promises to the driver for every size of the disk   *)
(* and of its sectors, every geometry and every order of commands.         *)
(*                                                                         *)
(* The inductive invariant says what the drive keeps by itself (Drive: a   *)
(* buffer of whole words, at a position between two of them, with DRQ only *)
(* before its end) and, for each direction of a transfer, how the driver's *)
(* account and the drive's buffer belong together (In, Out).  From it      *)
(* follows that the drive implements an array of blocks (Refinement).      *)
(***************************************************************************)
EXTENDS HardDisk, SequenceTheorems, TLAPS

\* A buffer is a sequence, whatever its bytes are.
Buffer(b) == Len(b) \in Nat /\ b = [i \in 1 .. Len(b) |-> b[i]]

Registers(a) ==
  a \in [secCount : Byte, lba0 : Byte, lba1 : Byte, lba2 : Byte, drvHead : Byte,
         status : SUBSET Flags, errReg : {a.errReg}, buf : {a.buf}, bufPos : Nat,
         writing : BOOLEAN, writeLBA : {a.writeLBA}]

\* What the drive keeps by itself.
Drive(a) ==
  /\ Registers(a)
  /\ Buffer(a.buf)
  /\ Len(a.buf) % 2 = 0 /\ a.bufPos % 2 = 0 /\ a.bufPos <= Len(a.buf)
  /\ "DRQ" \in a.status => a.bufPos < Len(a.buf)

SameAddress(b, a) ==
  /\ b.secCount = a.secCount /\ b.drvHead = a.drvHead
  /\ b.lba0 = a.lba0 /\ b.lba1 = a.lba1 /\ b.lba2 = a.lba2

-----------------------------------------------------------------------------
(***************************************************************************)
(* Single registers.                                                       *)
(***************************************************************************)

\* Only the status changes.
LEMMA StatusChanges ==
  ASSUME NEW a, Registers(a), NEW s \in SUBSET Flags
  PROVE  LET b == [a EXCEPT !.status = s] IN
         /\ Registers(b) /\ SameAddress(b, a) /\ b.status = s
         /\ b.buf = a.buf /\ b.bufPos = a.bufPos /\ b.writing = a.writing /\ b.writeLBA = a.writeLBA
  BY DEF Registers, SameAddress

\* Only the error register changes.
LEMMA ErrorChanges ==
  ASSUME NEW a, Registers(a), NEW e
  PROVE  LET b == [a EXCEPT !.errReg = e] IN
         /\ Registers(b) /\ SameAddress(b, a) /\ b.status = a.status
         /\ b.buf = a.buf /\ b.bufPos = a.bufPos /\ b.writing = a.writing /\ b.writeLBA = a.writeLBA
  BY DEF Registers, SameAddress

\* Only the buffer changes.
LEMMA BufferChanges ==
  ASSUME NEW a, Registers(a), NEW x
  PROVE  LET b == [a EXCEPT !.buf = x] IN
         /\ Registers(b) /\ SameAddress(b, a) /\ b.status = a.status
         /\ b.buf = x /\ b.bufPos = a.bufPos /\ b.writing = a.writing /\ b.writeLBA = a.writeLBA
  BY DEF Registers, SameAddress

\* Only the position changes.
LEMMA PositionChanges ==
  ASSUME NEW a, Registers(a), NEW n \in Nat
  PROVE  LET b == [a EXCEPT !.bufPos = n] IN
         /\ Registers(b) /\ SameAddress(b, a) /\ b.status = a.status
         /\ b.buf = a.buf /\ b.bufPos = n /\ b.writing = a.writing /\ b.writeLBA = a.writeLBA
  BY DEF Registers, SameAddress

\* Only the mark of a write in progress changes.
LEMMA WritingChanges ==
  ASSUME NEW a, Registers(a), NEW w \in BOOLEAN
  PROVE  LET b == [a EXCEPT !.writing = w] IN
         /\ Registers(b) /\ SameAddress(b, a) /\ b.status = a.status
         /\ b.buf = a.buf /\ b.bufPos = a.bufPos /\ b.writing = w /\ b.writeLBA = a.writeLBA
  BY DEF Registers, SameAddress

\* Only the block to be written changes.
LEMMA WriteLBAChanges ==
  ASSUME NEW a, Registers(a), NEW n
  PROVE  LET b == [a EXCEPT !.writeLBA = n] IN
         /\ Registers(b) /\ SameAddress(b, a) /\ b.status = a.status
         /\ b.buf = a.buf /\ b.bufPos = a.bufPos /\ b.writing = a.writing /\ b.writeLBA = n
  BY DEF Registers, SameAddress

\* The address registers select; they move nothing.
LEMMA AddressChanges ==
  ASSUME NEW a, Registers(a), NEW disk0, NEW reg \in 2 .. 6, NEW v \in Byte
  PROVE  LET b == WriteReg(a, disk0, reg, v) IN
         /\ Registers(b) /\ b.status = a.status
         /\ b.buf = a.buf /\ b.bufPos = a.bufPos /\ b.writing = a.writing /\ b.writeLBA = a.writeLBA
         /\ reg # 6 => b.drvHead = a.drvHead
<1>1. CASE reg = 2
  BY <1>1 DEF Registers, WriteReg
<1>2. CASE reg = 3
  BY <1>2 DEF Registers, WriteReg
<1>3. CASE reg = 4
  BY <1>3 DEF Registers, WriteReg
<1>4. CASE reg = 5
  BY <1>4 DEF Registers, WriteReg
<1>5. CASE reg = 6
  BY <1>5 DEF Registers, WriteReg
<1>6. QED
  BY <1>1, <1>2, <1>3, <1>4, <1>5

-----------------------------------------------------------------------------
(***************************************************************************)
(* Buffers.                                                                *)
(***************************************************************************)

\* A number of sectors is a number of whole words.
LEMMA WholeWords ==
  ASSUME NEW n \in Nat \ {0}
  PROVE  n * SectorSize \in Nat \ {0} /\ (n * SectorSize) % 2 = 0
<1>1. SectorSize \in Nat \ {0} /\ SectorSize % 2 = 0
  BY ATAAssumption
<1> DEFINE h == SectorSize \div 2
<1>2. h \in Nat \ {0} /\ SectorSize = 2 * h
  BY <1>1
<1> HIDE DEF h
<1>3. n * SectorSize = 2 * (n * h) /\ n * h \in Nat \ {0}
  BY <1>2
<1>4. (2 * (n * h)) % 2 = 0 /\ 2 * (n * h) \in Nat \ {0}
  BY <1>3
<1>5. QED
  BY <1>3, <1>4

\* A write begins with a buffer of zeros.
LEMMA EmptyBuffer ==
  ASSUME NEW n \in Nat
  PROVE  Buffer([i \in 1 .. n |-> 0]) /\ Len([i \in 1 .. n |-> 0]) = n
  BY DEF Buffer

\* A read brings a buffer of as many bytes as its sectors have.
LEMMA ReadBuffer ==
  ASSUME NEW d, NEW lba, NEW n, n * SectorSize \in Nat
  PROVE  Buffer(DiskBytes(d, lba, n)) /\ Len(DiskBytes(d, lba, n)) = n * SectorSize
  BY DEF Buffer, DiskBytes

\* A command transfers at least one sector, from an address that a uint32 holds.
LEMMA AddressIsNatural ==
  ASSUME NEW a, Registers(a)
  PROVE  /\ SectorCount(a) \in Nat \ {0}
         /\ CurrentLBA(a) \in Nat /\ CurrentLBA(a) \in 0 .. LBASpace - 1
<1>1. /\ a.secCount \in Nat /\ a.lba0 \in Nat /\ a.lba1 \in Nat /\ a.lba2 \in Nat
      /\ a.drvHead \in Nat
  BY DEF Registers, Byte
<1>2. SectorCount(a) \in Nat \ {0}
  BY <1>1, ATAAssumption DEF SectorCount
<1>3. (((a.drvHead % 16) * 256 + a.lba2) * 256 + a.lba1) * 256 + a.lba0 \in 0 .. LBASpace - 1
  <2> DEFINE h == a.drvHead % 16
  <2>1. h \in 0 .. 15
    BY <1>1
  <2> HIDE DEF h
  <2>2. a.lba0 \in 0 .. 255 /\ a.lba1 \in 0 .. 255 /\ a.lba2 \in 0 .. 255
    BY DEF Registers, Byte
  <2> DEFINE h2 == h * 256 + a.lba2
             h3 == h2 * 256 + a.lba1
             h4 == h3 * 256 + a.lba0
             n2 == 16 * 256
             n3 == n2 * 256
             n4 == n3 * 256
  <2>3. n2 \in Nat /\ h2 \in 0 .. n2 - 1
    <3>1. \A x \in 0 .. 15, y \in 0 .. 255 : x * 256 + y \in Int /\ x * 256 + y >= 0
                                              /\ x * 256 + y <= 4095
      OBVIOUS
    <3>2. h2 \in Int /\ h2 >= 0 /\ h2 <= 4095
      BY <2>1, <2>2, <3>1
    <3>3. n2 = 4096
      OBVIOUS
    <3> HIDE DEF h2, n2
    <3>4. QED
      BY <3>2, <3>3
  <2> HIDE DEF h2, n2
  <2>4. n3 \in Nat /\ h3 \in 0 .. n3 - 1
    BY <2>2, <2>3
  <2> HIDE DEF h3, n3
  <2>5. n4 \in Nat /\ h4 \in 0 .. n4 - 1
    BY <2>2, <2>4
  <2> HIDE DEF h4, n4
  <2>6. n4 <= LBASpace /\ LBASpace \in Nat
    BY ATAAssumption DEF n2, n3, n4
  <2>7. h4 \in 0 .. LBASpace - 1
    BY <2>5, <2>6
  <2>8. QED
    BY <2>7 DEF h, h2, h3, h4
<1> DEFINE chs == ((((a.lba2 * 256 + a.lba1) * GeoHeads + (a.drvHead % 16)) * GeoSectors)
                     + (a.lba0 - 1))
<1>4. chs \in Int
  <2>1. GeoHeads \in Nat /\ GeoSectors \in Nat
    BY ATAAssumption
  <2> DEFINE h == a.drvHead % 16
             cylinder == a.lba2 * 256 + a.lba1
  <2>2. h \in Nat /\ cylinder \in Nat
    BY <1>1
  <2> HIDE DEF h, cylinder
  <2> DEFINE track == cylinder * GeoHeads + h
  <2>3. track \in Nat
    BY <2>1, <2>2
  <2> HIDE DEF track
  <2>4. track * GeoSectors \in Nat
    BY <2>1, <2>3
  <2>5. track * GeoSectors + (a.lba0 - 1) \in Int
    BY <1>1, <2>4
  <2>6. QED
    BY <2>5 DEF track, cylinder, h
<1> HIDE DEF chs
<1>5. chs % LBASpace \in 0 .. LBASpace - 1
  BY <1>4, ATAAssumption
<1>6. CurrentLBA(a) \in 0 .. LBASpace - 1
  BY <1>3, <1>5 DEF CurrentLBA, chs
<1>7. CurrentLBA(a) \in Nat
  BY <1>6, ATAAssumption
<1>8. QED
  BY <1>2, <1>6, <1>7

\* The same address registers name the same blocks.
LEMMA SameBlocks ==
  ASSUME NEW a, NEW b, SameAddress(b, a)
  PROVE  CurrentLBA(b) = CurrentLBA(a) /\ SectorCount(b) = SectorCount(a) /\ Present(b) = Present(a)
  BY DEF SameAddress, CurrentLBA, SectorCount, Present

-----------------------------------------------------------------------------
(***************************************************************************)
(* Commands.                                                               *)
(***************************************************************************)

\* A command that fails asks for no data and leaves the buffer.
LEMMA FailedKeeps ==
  ASSUME NEW a, Drive(a), NEW err
  PROVE  LET b == Failed(a, err) IN
         /\ Drive(b) /\ SameAddress(b, a) /\ b.status = Ready \cup {"ERR"}
         /\ b.writing = a.writing
<1> DEFINE c == [a EXCEPT !.errReg = err]
           b == [c EXCEPT !.status = Ready \cup {"ERR"}]
<1>1. /\ Registers(c) /\ SameAddress(c, a) /\ c.buf = a.buf /\ c.bufPos = a.bufPos
      /\ c.writing = a.writing
  BY ErrorChanges DEF Drive
<1> HIDE DEF c
<1>2. Ready \cup {"ERR"} \in SUBSET Flags /\ "DRQ" \notin Ready \cup {"ERR"}
  BY DEF Ready, Flags
<1>3. /\ Registers(b) /\ SameAddress(b, c) /\ b.status = Ready \cup {"ERR"}
      /\ b.buf = c.buf /\ b.bufPos = c.bufPos /\ b.writing = c.writing
  BY <1>1, <1>2, StatusChanges
<1>4. Failed(a, err) = b
  BY DEF Failed, b, c
<1> HIDE DEF b
<1>5. SameAddress(b, a)
  BY <1>1, <1>3 DEF SameAddress
<1>6. Drive(b)
  BY <1>1, <1>2, <1>3 DEF Drive
<1>7. QED
  BY <1>1, <1>3, <1>4, <1>5, <1>6

\* A command that returns data offers it from the first word on.
LEMMA DataInOffers ==
  ASSUME NEW a, Registers(a), NEW x, Buffer(x), Len(x) % 2 = 0, Len(x) > 0
  PROVE  LET b == DataIn(a, x) IN
         /\ Drive(b) /\ SameAddress(b, a) /\ b.status = Ready \cup {"DRQ"}
         /\ b.buf = x /\ b.bufPos = 0
<1> DEFINE c == [a EXCEPT !.buf = x]
           d == [c EXCEPT !.bufPos = 0]
           e == [d EXCEPT !.writing = FALSE]
           b == [e EXCEPT !.status = Ready \cup {"DRQ"}]
<1>1. Registers(c) /\ SameAddress(c, a) /\ c.buf = x
  BY BufferChanges
<1> HIDE DEF c
<1>2. Registers(d) /\ SameAddress(d, c) /\ d.buf = c.buf /\ d.bufPos = 0
  BY <1>1, PositionChanges
<1> HIDE DEF d
<1>3. Registers(e) /\ SameAddress(e, d) /\ e.buf = d.buf /\ e.bufPos = d.bufPos
  BY <1>2, WritingChanges
<1> HIDE DEF e
<1>4. Ready \cup {"DRQ"} \in SUBSET Flags
  BY DEF Ready, Flags
<1>5. /\ Registers(b) /\ SameAddress(b, e) /\ b.status = Ready \cup {"DRQ"}
      /\ b.buf = e.buf /\ b.bufPos = e.bufPos
  BY <1>3, <1>4, StatusChanges
<1>6. DataIn(a, x) = b
  BY DEF DataIn, b, c, d, e
<1> HIDE DEF b
<1>7. SameAddress(b, a)
  BY <1>1, <1>2, <1>3, <1>5 DEF SameAddress
<1>8. Drive(b)
  BY <1>1, <1>2, <1>3, <1>5 DEF Drive, Buffer
<1>9. QED
  BY <1>1, <1>2, <1>3, <1>5, <1>6, <1>7, <1>8

\* A write command begins with an empty buffer for all its sectors.
LEMMA BeginWriteAsks ==
  ASSUME NEW a, Registers(a)
  PROVE  LET b == BeginWrite(a) IN
         /\ Drive(b) /\ SameAddress(b, a) /\ b.status = Ready \cup {"DRQ"}
         /\ Len(b.buf) = SectorCount(a) * SectorSize /\ b.bufPos = 0
         /\ b.writing /\ b.writeLBA = CurrentLBA(a)
<1> DEFINE n == SectorCount(a) * SectorSize
           x == [i \in 1 .. n |-> 0]
           c == [a EXCEPT !.writeLBA = CurrentLBA(a)]
           d == [c EXCEPT !.buf = x]
           e == [d EXCEPT !.bufPos = 0]
           f == [e EXCEPT !.writing = TRUE]
           b == [f EXCEPT !.status = Ready \cup {"DRQ"}]
<1>1. n \in Nat \ {0} /\ n % 2 = 0
  BY AddressIsNatural, WholeWords
<1>2. BeginWrite(a) = b
  BY DEF BeginWrite
<1> HIDE DEF n
<1>3. Buffer(x) /\ Len(x) = n
  BY <1>1, EmptyBuffer
<1> HIDE DEF x
<1>4. Registers(c) /\ SameAddress(c, a) /\ c.writeLBA = CurrentLBA(a)
  BY WriteLBAChanges
<1> HIDE DEF c
<1>5. Registers(d) /\ SameAddress(d, c) /\ d.writeLBA = c.writeLBA /\ d.buf = x
  BY <1>4, BufferChanges
<1> HIDE DEF d
<1>6. Registers(e) /\ SameAddress(e, d) /\ e.writeLBA = d.writeLBA /\ e.buf = d.buf /\ e.bufPos = 0
  BY <1>5, PositionChanges
<1> HIDE DEF e
<1>7. /\ Registers(f) /\ SameAddress(f, e) /\ f.writeLBA = e.writeLBA /\ f.buf = e.buf
      /\ f.bufPos = e.bufPos /\ f.writing = TRUE
  BY <1>6, WritingChanges
<1> HIDE DEF f
<1>8. Ready \cup {"DRQ"} \in SUBSET Flags
  BY DEF Ready, Flags
<1>9. /\ Registers(b) /\ SameAddress(b, f) /\ b.writeLBA = f.writeLBA /\ b.buf = f.buf
      /\ b.bufPos = f.bufPos /\ b.writing = f.writing /\ b.status = Ready \cup {"DRQ"}
  BY <1>7, <1>8, StatusChanges
<1> HIDE DEF b
<1>10. SameAddress(b, a)
  BY <1>4, <1>5, <1>6, <1>7, <1>9 DEF SameAddress
<1>11. Drive(b)
  BY <1>1, <1>3, <1>5, <1>6, <1>7, <1>9 DEF Drive
<1>12. QED
  BY <1>2, <1>3, <1>4, <1>5, <1>6, <1>7, <1>9, <1>10, <1>11 DEF n

\* A range that is accepted lies on the disk.
LEMMA AcceptedRange ==
  ASSUME NEW lba \in Nat, NEW n \in Nat, InRange(lba, n)
  PROVE  lba + n <= Blocks
<1>1. Blocks \in Nat /\ LBASpace \in Nat /\ Blocks < LBASpace /\ lba < Blocks
  BY ATAAssumption DEF InRange
<1>2. (Blocks - lba) % LBASpace = Blocks - lba
  BY <1>1
<1>3. QED
  BY <1>1, <1>2 DEF InRange

\* A range that lies on the disk is accepted.
LEMMA RangeAccepted ==
  ASSUME NEW lba \in Nat, NEW n \in Nat \ {0}
  PROVE  InRange(lba, n) <=> lba + n <= Blocks
<1>1. Blocks \in Nat /\ LBASpace \in Nat /\ Blocks < LBASpace
  BY ATAAssumption
<1>2. ASSUME lba + n <= Blocks PROVE InRange(lba, n)
  <2>1. (Blocks - lba) % LBASpace = Blocks - lba
    BY <1>1, <1>2
  <2>2. QED
    BY <1>1, <1>2, <2>1 DEF InRange
<1>3. QED
  BY <1>2, AcceptedRange

\* What a command leaves: a drive that keeps its promises, with DRQ only for the
\* commands that move data; a write is for the sectors in the task file, a read
\* brings sectors that lie on the disk.
LEMMA CommandKeeps ==
  ASSUME NEW a, Drive(a), NEW d, NEW cmd
  PROVE  LET b == Command(a, d, cmd) IN
         /\ Drive(b) /\ SameAddress(b, a)
         /\ "DRQ" \in b.status => Present(b) /\ b.bufPos = 0
         /\ "DRQ" \in b.status /\ cmd \in WriteCommands =>
              b.writing /\ b.writeLBA = CurrentLBA(b) /\ Len(b.buf) = SectorCount(b) * SectorSize
         /\ "DRQ" \in b.status /\ cmd \notin WriteCommands =>
              \/ cmd = Identify /\ b.buf = IdentifyBlock
              \/ /\ cmd \in ReadCommands /\ CurrentLBA(b) + SectorCount(b) <= Blocks
                 /\ b.buf = DiskBytes(d, CurrentLBA(b), SectorCount(b))
<1> DEFINE c == [a EXCEPT !.errReg = 0]
           b == Command(a, d, cmd)
<1>1. /\ Registers(c) /\ SameAddress(c, a) /\ c.status = a.status
      /\ c.buf = a.buf /\ c.bufPos = a.bufPos
  BY ErrorChanges DEF Drive
<1>2. /\ Identify \notin ReadCommands \cup WriteCommands \cup IdleCommands
      /\ \A x \in ReadCommands : x \notin WriteCommands \cup IdleCommands
      /\ \A x \in WriteCommands : x \notin IdleCommands
  BY DEF Identify, ReadCommands, WriteCommands, IdleCommands
<1> HIDE DEF c, b
<1>3. Drive(c)
  BY <1>1 DEF Drive
<1>4. "DRQ" \notin Ready /\ "DRQ" \notin Ready \cup {"ERR"} /\ Ready \in SUBSET Flags
  BY DEF Ready, Flags
<1>5. ASSUME Drive(b), SameAddress(b, c), "DRQ" \notin b.status
      PROVE  Drive(b) /\ SameAddress(b, a) /\ "DRQ" \notin b.status
  BY <1>1, <1>5 DEF SameAddress
<1>6. ASSUME SameAddress(b, c), Present(a)
      PROVE  SameAddress(b, a) /\ Present(b)
  BY <1>1, <1>6, SameBlocks DEF SameAddress
<1>7. CASE ~Present(a)
  <2>1. b = [c EXCEPT !.status = {}]
    BY <1>2, <1>7 DEF b, c, Command
  <2>2. /\ Registers(b) /\ SameAddress(b, c) /\ b.status = {}
        /\ b.buf = c.buf /\ b.bufPos = c.bufPos
    BY <1>1, <2>1, StatusChanges
  <2>3. Drive(b)
    BY <1>3, <2>2 DEF Drive
  <2>4. QED
    BY <1>5, <2>2, <2>3 DEF b
<1>8. CASE Present(a) /\ cmd = Identify
  <2>1. b = DataIn(c, IdentifyBlock)
    BY <1>2, <1>8 DEF b, c, Command
  <2>2. Buffer(IdentifyBlock) /\ Len(IdentifyBlock) % 2 = 0 /\ Len(IdentifyBlock) > 0
    BY ATAAssumption DEF Buffer
  <2>3. Drive(b) /\ SameAddress(b, c) /\ b.buf = IdentifyBlock /\ b.bufPos = 0
    BY <1>1, <2>1, <2>2, DataInOffers
  <2>4. cmd \notin WriteCommands
    BY <1>8 DEF Identify, WriteCommands
  <2>5. QED
    BY <1>6, <1>8, <2>3, <2>4 DEF b
<1>9. CASE Present(a) /\ cmd \in ReadCommands
  <2> DEFINE lba == CurrentLBA(c)
             n == SectorCount(c)
  <2>1. b = IF InRange(lba, n) THEN DataIn(c, DiskBytes(d, lba, n)) ELSE Failed(c, 16)
    BY <1>2, <1>9 DEF b, c, Command, ReadSectors, lba, n
  <2>2. cmd \notin WriteCommands
    BY <1>2, <1>9
  <2>3. lba \in Nat /\ n \in Nat \ {0}
    BY <1>1, AddressIsNatural
  <2> HIDE DEF lba, n
  <2>4. CASE ~InRange(lba, n)
    <3>1. Drive(b) /\ SameAddress(b, c) /\ b.status = Ready \cup {"ERR"}
      BY <1>3, <2>1, <2>4, FailedKeeps
    <3>2. QED
      BY <1>4, <1>5, <3>1 DEF b
  <2>5. CASE InRange(lba, n)
    <3>1. lba + n <= Blocks
      BY <2>3, <2>5, AcceptedRange
    <3>2. n * SectorSize \in Nat \ {0} /\ (n * SectorSize) % 2 = 0
      BY <2>3, WholeWords
    <3> DEFINE x == DiskBytes(d, lba, n)
    <3>3. Buffer(x) /\ Len(x) = n * SectorSize
      BY <3>2, ReadBuffer
    <3>4. b = DataIn(c, x)
      BY <2>1, <2>5
    <3> HIDE DEF x
    <3>5. Len(x) % 2 = 0 /\ Len(x) > 0
      BY <3>2, <3>3
    <3>6. Drive(b) /\ SameAddress(b, c) /\ b.buf = x /\ b.bufPos = 0
      BY <1>1, <3>3, <3>4, <3>5, DataInOffers
    <3>7. CurrentLBA(b) = lba /\ SectorCount(b) = n
      BY <3>6, SameBlocks DEF lba, n
    <3>8. SameAddress(b, a) /\ Present(b)
      BY <1>6, <1>9, <3>6
    <3>9. b.buf = DiskBytes(d, CurrentLBA(b), SectorCount(b)) /\ CurrentLBA(b) + SectorCount(b) <= Blocks
      BY <3>1, <3>6, <3>7 DEF x
    <3>10. QED
      BY <1>9, <2>2, <3>6, <3>8, <3>9 DEF b
  <2>6. QED
    BY <2>4, <2>5
<1>10. CASE Present(a) /\ cmd \in WriteCommands
  <2>1. b = BeginWrite(c)
    BY <1>2, <1>10 DEF b, c, Command
  <2>2. /\ Drive(b) /\ SameAddress(b, c) /\ Len(b.buf) = SectorCount(c) * SectorSize
        /\ b.bufPos = 0 /\ b.writing /\ b.writeLBA = CurrentLBA(c)
    BY <1>1, <2>1, BeginWriteAsks
  <2>3. CurrentLBA(b) = CurrentLBA(c) /\ SectorCount(b) = SectorCount(c)
    BY <2>2, SameBlocks
  <2>4. SameAddress(b, a) /\ Present(b)
    BY <1>6, <1>10, <2>2
  <2>5. QED
    BY <1>10, <2>2, <2>3, <2>4 DEF b
<1>11. CASE Present(a) /\ cmd \in IdleCommands /\ cmd \notin {Identify} \cup ReadCommands \cup WriteCommands
  <2> DEFINE e == [c EXCEPT !.status = Ready]
             err == IF cmd = 144 THEN 1 ELSE 0
  <2>1. b = [e EXCEPT !.errReg = err]
    BY <1>2, <1>11 DEF b, c, Command
  <2>2. /\ Registers(e) /\ SameAddress(e, c) /\ e.status = Ready
        /\ e.buf = c.buf /\ e.bufPos = c.bufPos
    BY <1>1, <1>4, StatusChanges
  <2> HIDE DEF e, err
  <2>3. /\ Registers(b) /\ SameAddress(b, e) /\ b.status = e.status
        /\ b.buf = e.buf /\ b.bufPos = e.bufPos
    BY <2>1, <2>2, ErrorChanges
  <2>4. Drive(b) /\ SameAddress(b, c) /\ "DRQ" \notin b.status
    BY <1>3, <1>4, <2>2, <2>3 DEF Drive, SameAddress
  <2>5. QED
    BY <1>5, <2>4 DEF b
<1>12. CASE Present(a) /\ cmd \notin {Identify} \cup ReadCommands \cup WriteCommands \cup IdleCommands
  <2>1. b = Failed(c, 4)
    BY <1>2, <1>12 DEF b, c, Command
  <2>2. Drive(b) /\ SameAddress(b, c) /\ b.status = Ready \cup {"ERR"}
    BY <1>3, <2>1, FailedKeeps
  <2>3. QED
    BY <1>4, <1>5, <2>2 DEF b
<1>13. QED
  BY <1>7, <1>8, <1>9, <1>10, <1>11, <1>12

\* What a drive that is present answers: it asks for the data of every write and
\* offers those of every read of blocks that are there; to any other read it
\* answers with an error.
LEMMA CommandAnswers ==
  ASSUME NEW a, Drive(a), NEW d, NEW cmd, Present(a)
  PROVE  LET b == Command(a, d, cmd) IN
         /\ "DRQ" \in b.status => "ERR" \notin b.status
         /\ cmd \in WriteCommands => "DRQ" \in b.status
         /\ cmd \in ReadCommands =>
              IF CurrentLBA(b) + SectorCount(b) <= Blocks THEN "DRQ" \in b.status
              ELSE b.status = Ready \cup {"ERR"}
<1> DEFINE c == [a EXCEPT !.errReg = 0]
           b == Command(a, d, cmd)
<1>1. Registers(c) /\ SameAddress(c, a) /\ Registers(a)
  BY ErrorChanges DEF Drive
<1>2. SameAddress(b, a)
  BY CommandKeeps
<1>3. Drive(c)
  <2>1. c.status = a.status /\ c.buf = a.buf /\ c.bufPos = a.bufPos
    BY ErrorChanges DEF Drive
  <2>2. QED
    BY <1>1, <2>1 DEF Drive
<1>4. /\ CurrentLBA(b) = CurrentLBA(c) /\ SectorCount(b) = SectorCount(c)
      /\ CurrentLBA(c) \in Nat /\ SectorCount(c) \in Nat \ {0}
  BY <1>1, <1>2, SameBlocks, AddressIsNatural
<1>5. /\ Identify \notin ReadCommands \cup WriteCommands \cup IdleCommands
      /\ \A x \in ReadCommands : x \notin WriteCommands \cup IdleCommands
      /\ \A x \in WriteCommands : x \notin IdleCommands
  BY DEF Identify, ReadCommands, WriteCommands, IdleCommands
<1>6. b = CASE cmd = Identify -> DataIn(c, IdentifyBlock)
            [] cmd \in ReadCommands -> ReadSectors(c, d)
            [] cmd \in WriteCommands -> BeginWrite(c)
            [] cmd \in IdleCommands -> [c EXCEPT !.status = Ready, !.errReg = IF cmd = 144 THEN 1 ELSE 0]
            [] OTHER -> Failed(c, 4)
  BY <1>5 DEF b, c, Command
<1>7. /\ "DRQ" \notin Ready /\ "DRQ" \notin Ready \cup {"ERR"} /\ "ERR" \notin Ready \cup {"DRQ"}
      /\ "DRQ" \in Ready \cup {"DRQ"}
  BY DEF Ready
<1>8. \A x : DataIn(c, x).status = Ready \cup {"DRQ"}
  BY <1>1 DEF DataIn, Registers
<1>9. BeginWrite(c).status = Ready \cup {"DRQ"}
  BY <1>1 DEF BeginWrite, Registers
<1>10. Failed(c, 4).status = Ready \cup {"ERR"} /\ Failed(c, 16).status = Ready \cup {"ERR"}
  BY <1>3, FailedKeeps
<1>11. [c EXCEPT !.status = Ready, !.errReg = IF cmd = 144 THEN 1 ELSE 0].status = Ready
  BY <1>1 DEF Registers
<1>12. ReadSectors(c, d) = IF InRange(CurrentLBA(c), SectorCount(c))
                           THEN DataIn(c, DiskBytes(d, CurrentLBA(c), SectorCount(c))) ELSE Failed(c, 16)
  BY DEF ReadSectors
<1>13. InRange(CurrentLBA(c), SectorCount(c)) <=> CurrentLBA(c) + SectorCount(c) <= Blocks
  BY <1>4, RangeAccepted
<1> HIDE DEF b, c
<1>14. CASE cmd \in ReadCommands
  <2>1. b = ReadSectors(c, d) /\ cmd \notin WriteCommands
    BY <1>5, <1>6, <1>14
  <2>2. b.status = IF CurrentLBA(b) + SectorCount(b) <= Blocks THEN Ready \cup {"DRQ"}
                   ELSE Ready \cup {"ERR"}
    BY <1>4, <1>8, <1>10, <1>12, <1>13, <2>1
  <2>3. QED
    BY <1>7, <1>14, <2>1, <2>2 DEF b
<1>15. CASE cmd \in WriteCommands
  <2>1. b = BeginWrite(c) /\ cmd \notin ReadCommands
    BY <1>5, <1>6, <1>15
  <2>2. QED
    BY <1>7, <1>9, <2>1 DEF b
<1>16. CASE cmd \notin ReadCommands \cup WriteCommands
  <2>1. b.status \in {Ready, Ready \cup {"DRQ"}, Ready \cup {"ERR"}}
    BY <1>6, <1>8, <1>10, <1>11, <1>16
  <2>2. QED
    BY <1>7, <1>16, <2>1 DEF b
<1>17. QED
  BY <1>14, <1>15, <1>16

\* A reset, and any other byte of Device Control, leaves a drive that keeps its
\* promises.
LEMMA ResetKeeps ==
  ASSUME NEW a, Drive(a), NEW v
  PROVE  Drive(WriteDevCtl(a, v))
<1> DEFINE c == [a EXCEPT !.status = Ready]
           d == [c EXCEPT !.errReg = 1]
           e == [d EXCEPT !.buf = <<>>]
           f == [e EXCEPT !.bufPos = 0]
           b == [f EXCEPT !.writing = FALSE]
<1>1. WriteDevCtl(a, v) \in {a, b}
  BY DEF WriteDevCtl
<1>2. Ready \in SUBSET Flags /\ "DRQ" \notin Ready
  BY DEF Ready, Flags
<1>3. Registers(c) /\ c.status = Ready
  BY <1>2, StatusChanges DEF Drive
<1> HIDE DEF c
<1>4. Registers(d) /\ d.status = Ready
  BY <1>3, ErrorChanges
<1> HIDE DEF d
<1>5. Registers(e) /\ e.status = Ready /\ e.buf = <<>>
  BY <1>4, BufferChanges
<1> HIDE DEF e
<1>6. Registers(f) /\ f.status = Ready /\ f.buf = <<>> /\ f.bufPos = 0
  BY <1>5, PositionChanges
<1> HIDE DEF f
<1>7. Registers(b) /\ b.status = Ready /\ b.buf = <<>> /\ b.bufPos = 0
  BY <1>6, WritingChanges
<1> HIDE DEF b
<1>8. Buffer(<<>>) /\ Len(<<>>) = 0
  BY DEF Buffer
<1>9. Drive(b)
  BY <1>2, <1>7, <1>8 DEF Drive
<1>10. QED
  BY <1>1, <1>9

-----------------------------------------------------------------------------
(***************************************************************************)
(* The data register.                                                      *)
(***************************************************************************)

\* A position between two words stays between two words.
LEMMA EvenSteps ==
  ASSUME NEW p \in Nat, p % 2 = 0
  PROVE  (p + 2) % 2 = 0
  OBVIOUS

\* While the drive asks for data there is a whole word to be moved.
LEMMA WordIsLeft ==
  ASSUME NEW a, Drive(a), a.bufPos < Len(a.buf)
  PROVE  WordLeft(a)
  BY DEF Drive, Buffer, Registers, WordLeft

\* Reading a word moves the position; DRQ goes with the last one.
LEMMA ReadMoves ==
  ASSUME NEW a, Drive(a), "DRQ" \in a.status
  PROVE  LET b == AfterReadData16(a) IN
         /\ Drive(b) /\ SameAddress(b, a)
         /\ b.buf = a.buf /\ b.bufPos = a.bufPos + 2
         /\ "DRQ" \in b.status <=> a.bufPos + 2 < Len(a.buf)
         /\ b.status \subseteq a.status
<1> DEFINE c == [a EXCEPT !.bufPos = a.bufPos + 2]
           s == IF a.bufPos + 2 >= Len(a.buf) THEN a.status \ {"DRQ"} ELSE a.status
           b == [c EXCEPT !.status = s]
<1>1. a.bufPos < Len(a.buf) /\ a.bufPos \in Nat /\ Len(a.buf) \in Nat /\ Registers(a)
  BY DEF Drive, Registers, Buffer
<1>2. WordLeft(a)
  BY <1>1, WordIsLeft
<1>3. AfterReadData16(a) = b
  BY <1>2 DEF AfterReadData16
<1>4. /\ Registers(c) /\ SameAddress(c, a) /\ c.buf = a.buf /\ c.bufPos = a.bufPos + 2
  <2>1. a.bufPos + 2 \in Nat
    BY <1>1
  <2>2. QED
    BY <1>1, <2>1, PositionChanges
<1> HIDE DEF c
<1>5. s \in SUBSET Flags /\ ("DRQ" \in s <=> a.bufPos + 2 < Len(a.buf)) /\ s \subseteq a.status
  BY <1>1 DEF Registers
<1> HIDE DEF s
<1>6. Registers(b) /\ SameAddress(b, c) /\ b.buf = c.buf /\ b.bufPos = c.bufPos /\ b.status = s
  BY <1>4, <1>5, StatusChanges
<1> HIDE DEF b
<1>7. SameAddress(b, a)
  BY <1>4, <1>6 DEF SameAddress
<1>8. a.bufPos + 2 <= Len(a.buf) /\ (a.bufPos + 2) % 2 = 0 /\ Len(a.buf) % 2 = 0 /\ Buffer(a.buf)
  <2>1. Len(a.buf) % 2 = 0 /\ a.bufPos % 2 = 0 /\ Buffer(a.buf)
    BY DEF Drive
  <2>2. a.bufPos + 2 <= Len(a.buf)
    BY <1>1, <1>2 DEF WordLeft
  <2>3. (a.bufPos + 2) % 2 = 0
    BY <1>1, <2>1, EvenSteps
  <2>4. QED
    BY <2>1, <2>2, <2>3
<1>9. Drive(b)
  BY <1>4, <1>5, <1>6, <1>8 DEF Drive
<1>10. QED
  BY <1>3, <1>4, <1>5, <1>6, <1>7, <1>9

\* A buffer with a word added at a position.
Filled(y, x, p, word) ==
  /\ Buffer(y) /\ Len(y) = Len(x)
  /\ \A i \in 1 .. p : y[i] = x[i]
  /\ y[p + 1] = word[1] /\ y[p + 2] = word[2]

\* A world as a record.
WorldOf(w) == w \in [ata : {w.ata}, high : {w.high}, disk : {w.disk}]

\* The buffer takes the two bytes of a word.
LEMMA WordFills ==
  ASSUME NEW x, Buffer(x), NEW p \in Nat, p + 2 <= Len(x), NEW word
  PROVE  Filled([[x EXCEPT ![p + 1] = word[1]] EXCEPT ![p + 2] = word[2]], x, p, word)
<1> DEFINE y == [x EXCEPT ![p + 1] = word[1]]
           z == [y EXCEPT ![p + 2] = word[2]]
<1>1. Len(x) \in Nat /\ DOMAIN x = 1 .. Len(x)
  BY DEF Buffer
<1>2. y = [i \in 1 .. Len(x) |-> IF i = p + 1 THEN word[1] ELSE x[i]]
  BY <1>1
<1>3. z = [i \in 1 .. Len(x) |-> IF i = p + 2 THEN word[2] ELSE y[i]]
  BY <1>2
<1> HIDE DEF y, z
<1>4. z = [i \in 1 .. Len(x) |-> IF i = p + 2 THEN word[2] ELSE IF i = p + 1 THEN word[1] ELSE x[i]]
  BY <1>2, <1>3
<1>5. Len(z) = Len(x)
  BY <1>1, <1>4
<1>6. Buffer(z)
  BY <1>1, <1>4, <1>5 DEF Buffer
<1>7. Filled(z, x, p, word)
  BY <1>1, <1>4, <1>5, <1>6 DEF Filled
<1>8. QED
  BY <1>7 DEF z, y

\* Writing a word fills the buffer; the last one stores all of it, or fails.
LEMMA WriteMoves ==
  ASSUME NEW w, WorldOf(w), Drive(w.ata), "DRQ" \in w.ata.status, w.ata.writing, NEW word
  PROVE  LET a == w.ata
             x == WriteData16(w, word)
         IN /\ Drive(x.ata) /\ SameAddress(x.ata, a) /\ x.high = w.high
            /\ Len(x.ata.buf) = Len(a.buf)
            /\ a.bufPos + 2 <= Len(a.buf)
            /\ \E y : Filled(y, a.buf, a.bufPos, word) /\
                 \/ /\ a.bufPos + 2 < Len(a.buf) /\ "DRQ" \in x.ata.status
                    /\ x.ata.buf = y /\ x.ata.bufPos = a.bufPos + 2
                    /\ x.ata.writing /\ x.ata.writeLBA = a.writeLBA
                    /\ x.disk = w.disk
                 \/ /\ a.bufPos + 2 = Len(a.buf) /\ x.ata.status = Ready
                    /\ x.disk = Stored(w.disk, a.writeLBA, y)
                    /\ InRange(a.writeLBA, Len(a.buf) \div SectorSize)
                 \/ /\ a.bufPos + 2 = Len(a.buf) /\ x.ata.status = Ready \cup {"ERR"}
                    /\ x.disk = w.disk
                    /\ ~InRange(a.writeLBA, Len(a.buf) \div SectorSize)
<1> DEFINE a == w.ata
           n == a.bufPos + 2
           y == [[a.buf EXCEPT ![a.bufPos + 1] = word[1]] EXCEPT ![a.bufPos + 2] = word[2]]
           c == [a EXCEPT !.buf = y]
           filled == [c EXCEPT !.bufPos = n]
           stores == InRange(a.writeLBA, Len(a.buf) \div SectorSize)
           x == WriteData16(w, word)
<1>1. a.bufPos < Len(a.buf) /\ a.bufPos \in Nat /\ Len(a.buf) \in Nat /\ Registers(a) /\ Buffer(a.buf)
  BY DEF Drive, Registers, Buffer
<1>2. WordLeft(a) /\ n <= Len(a.buf)
  BY <1>1, WordIsLeft DEF WordLeft
<1>3. Filled(y, a.buf, a.bufPos, word)
  BY <1>1, <1>2, WordFills
<1>4. x = IF filled.bufPos < Len(a.buf) THEN [w EXCEPT !.ata = filled]
          ELSE [w EXCEPT !.ata = AfterLastWord(filled),
                         !.disk = IF stores THEN Stored(w.disk, a.writeLBA, filled.buf) ELSE w.disk]
  BY <1>2 DEF WriteData16
<1> HIDE DEF x, y
<1>5. /\ Registers(filled) /\ SameAddress(filled, a) /\ filled.status = a.status
      /\ filled.buf = y /\ filled.bufPos = n /\ filled.writing = a.writing
      /\ filled.writeLBA = a.writeLBA
  <2> DEFINE b == w.ata
  <2>1. Registers(b) /\ n \in Nat
    BY <1>1
  <2> HIDE DEF n
  <2>2. filled = [[b EXCEPT !.buf = y] EXCEPT !.bufPos = n]
    OBVIOUS
  <2> HIDE DEF b, filled
  <2>3. /\ Registers(filled) /\ SameAddress(filled, b) /\ filled.status = b.status
        /\ filled.buf = y /\ filled.bufPos = n /\ filled.writing = b.writing
        /\ filled.writeLBA = b.writeLBA
    BY <2>1, <2>2 DEF Registers, SameAddress
  <2>4. QED
    BY <2>3 DEF b
<1> HIDE DEF c, filled
<1>6. /\ Registers(filled) /\ SameAddress(filled, a) /\ filled.status = a.status
      /\ filled.buf = y /\ filled.bufPos = n
  BY <1>5
<1>7. SameAddress(filled, a)
  BY <1>5
<1>8. Len(y) = Len(a.buf) /\ Buffer(y)
  BY <1>3 DEF Filled
<1>9. n % 2 = 0 /\ Len(y) % 2 = 0
  <2>1. Len(a.buf) % 2 = 0 /\ a.bufPos % 2 = 0
    BY DEF Drive
  <2>2. QED
    BY <1>1, <1>8, <2>1, EvenSteps
<1>10. CASE n < Len(a.buf)
  <2>1. x.ata = filled /\ x.high = w.high /\ x.disk = w.disk
    BY <1>4, <1>6, <1>10 DEF WorldOf
  <2>2. Drive(filled)
    BY <1>1, <1>2, <1>6, <1>8, <1>9, <1>10 DEF Drive
  <2>3. QED
    BY <1>2, <1>3, <1>5, <1>6, <1>7, <1>8, <1>10, <2>1, <2>2 DEF x
<1>11. CASE n = Len(a.buf)
  <2> DEFINE d == [filled EXCEPT !.status = Ready]
             e == IF stores THEN d ELSE Failed(filled, 16)
             f == [e EXCEPT !.writing = FALSE]
  <2>1. AfterLastWord(filled) = f
    BY <1>5, <1>6, <1>8 DEF AfterLastWord
  <2>2. /\ x.ata = f /\ x.high = w.high
        /\ x.disk = IF stores THEN Stored(w.disk, a.writeLBA, y) ELSE w.disk
    <3> HIDE DEF f, stores
    <3>1. QED
      BY <1>1, <1>4, <1>6, <1>11, <2>1 DEF WorldOf
  <2>3. Ready \in SUBSET Flags /\ "DRQ" \notin Ready /\ "DRQ" \notin Ready \cup {"ERR"}
    BY DEF Ready, Flags
  <2>4. /\ Registers(d) /\ SameAddress(d, filled) /\ d.status = Ready /\ d.buf = y /\ d.bufPos = n
    BY <1>6, <2>3, StatusChanges
  <2> HIDE DEF d
  <2>5. /\ Registers(Failed(filled, 16)) /\ SameAddress(Failed(filled, 16), filled)
        /\ Failed(filled, 16).status = Ready \cup {"ERR"}
        /\ Failed(filled, 16).buf = y /\ Failed(filled, 16).bufPos = n
    <3> DEFINE h == [filled EXCEPT !.errReg = 16]
               j == [h EXCEPT !.status = Ready \cup {"ERR"}]
    <3>1. Registers(h) /\ SameAddress(h, filled) /\ h.buf = y /\ h.bufPos = n
      BY <1>6, ErrorChanges
    <3>2. Failed(filled, 16) = j
      BY DEF Failed
    <3> HIDE DEF h
    <3>3. Ready \cup {"ERR"} \in SUBSET Flags
      BY DEF Ready, Flags
    <3>4. /\ Registers(j) /\ SameAddress(j, h) /\ j.status = Ready \cup {"ERR"}
          /\ j.buf = h.buf /\ j.bufPos = h.bufPos
      BY <3>1, <3>3, StatusChanges
    <3> HIDE DEF j
    <3>5. SameAddress(j, filled)
      BY <3>1, <3>4 DEF SameAddress
    <3>6. QED
      BY <3>1, <3>2, <3>4, <3>5
  <2>6. /\ Registers(e) /\ SameAddress(e, filled) /\ e.buf = y /\ e.bufPos = n
        /\ e.status = IF stores THEN Ready ELSE Ready \cup {"ERR"}
    BY <2>4, <2>5
  <2> HIDE DEF e
  <2>7. Registers(f) /\ SameAddress(f, e) /\ f.buf = y /\ f.bufPos = n /\ f.status = e.status
    BY <2>6, WritingChanges
  <2> HIDE DEF f, stores
  <2>8. Drive(f)
    BY <1>1, <1>2, <1>8, <1>9, <2>3, <2>6, <2>7 DEF Drive
  <2>9. SameAddress(f, a)
    BY <1>7, <2>6, <2>7 DEF SameAddress
  <2>10. QED
    BY <1>2, <1>3, <1>8, <1>11, <2>2, <2>6, <2>7, <2>8, <2>9 DEF x, stores
<1>12. QED
  BY <1>1, <1>2, <1>10, <1>11

\* A sequence takes one more element at its end.
LEMMA Appended ==
  ASSUME NEW s, Buffer(s), NEW e
  PROVE  /\ Buffer(Append(s, e)) /\ Len(Append(s, e)) = Len(s) + 1
         /\ \A i \in 1 .. Len(s) : Append(s, e)[i] = s[i]
         /\ Append(s, e)[Len(s) + 1] = e
<1> DEFINE S == {s[i] : i \in 1 .. Len(s)} \cup {e}
<1>1. Len(s) \in Nat /\ s = [i \in 1 .. Len(s) |-> s[i]]
  BY DEF Buffer
<1>2. \A i \in 1 .. Len(s) : s[i] \in S
  OBVIOUS
<1>3. e \in S
  OBVIOUS
<1> HIDE DEF S
<1>4. s \in Seq(S)
  BY <1>1, <1>2
<1> DEFINE x == Append(s, e)
<1>5. /\ x \in Seq(S)
      /\ Len(x) = Len(s) + 1
      /\ \A i \in 1 .. Len(s) : x[i] = s[i]
      /\ x[Len(s) + 1] = e
  <2>1. x \in Seq(S) /\ Len(x) = Len(s) + 1
    BY <1>3, <1>4
  <2>2. \A i \in 1 .. Len(s) : x[i] = s[i]
    BY <1>3, <1>4
  <2>3. x[Len(s) + 1] = e
    BY <1>1, <1>3, <1>4
  <2>4. QED
    BY <2>1, <2>2, <2>3
<1> HIDE DEF x
<1>6. Len(x) \in Nat /\ x \in [1 .. Len(x) -> S]
  BY <1>5, LenProperties, Zenon
<1>7. Buffer(x)
  BY <1>6 DEF Buffer
<1>8. QED
  BY <1>5, <1>7 DEF x

\* An even number is twice its half.
LEMMA Halves ==
  ASSUME NEW m \in Nat, m % 2 = 0
  PROVE  m \div 2 \in Nat /\ 2 * (m \div 2) = m
  OBVIOUS

\* A single byte never lies between two even numbers.
LEMMA OddIsNoEnd ==
  ASSUME NEW p \in Nat, NEW m \in Nat, p % 2 = 0, m % 2 = 0
  PROVE  p + 1 # m
  OBVIOUS

\* The word a byte belongs to.
LEMMA Places ==
  ASSUME NEW n \in Nat, NEW i \in 1 .. 2 * n
  PROVE  LET k == (i + 1) \div 2 IN
         k \in 1 .. n /\ (i % 2 = 1 => i = 2 * k - 1) /\ (i % 2 # 1 => i = 2 * k)
  OBVIOUS

\* The words of a buffer of whole words.
LEMMA WordsOf ==
  ASSUME NEW b, Buffer(b), Len(b) % 2 = 0
  PROVE  /\ Len(Words(b)) \in Nat /\ 2 * Len(Words(b)) = Len(b)
         /\ \A i \in 1 .. Len(Words(b)) : Words(b)[i] = <<b[2 * i - 1], b[2 * i]>>
<1> DEFINE n == Len(b) \div 2
<1>1. n \in Nat /\ 2 * n = Len(b)
  <2>1. Len(b) \in Nat
    BY DEF Buffer
  <2>2. QED
    BY <2>1, Halves
<1>2. Words(b) = [i \in 1 .. n |-> <<b[2 * i - 1], b[2 * i]>>]
  BY DEF Words
<1> HIDE DEF n
<1>3. Len(Words(b)) = n
  BY <1>1, <1>2
<1>4. QED
  BY <1>1, <1>2, <1>3

\* A buffer that holds the two bytes of every word is the words put in a row.
LEMMA FlattenIs ==
  ASSUME NEW y, Buffer(y), NEW words, Len(words) \in Nat, Len(y) = 2 * Len(words),
         \A k \in 1 .. Len(words) : y[2 * k - 1] = words[k][1] /\ y[2 * k] = words[k][2]
  PROVE  y = Flatten(words)
<1> DEFINE n == Len(words)
           g(i) == words[(i + 1) \div 2][IF i % 2 = 1 THEN 1 ELSE 2]
<1>1. n \in Nat /\ Len(y) = 2 * n
  OBVIOUS
<1>2. ASSUME NEW i \in 1 .. 2 * n
      PROVE  y[i] = g(i)
  <2> DEFINE k == (i + 1) \div 2
  <2>1. k \in 1 .. n /\ (i % 2 = 1 => i = 2 * k - 1) /\ (i % 2 # 1 => i = 2 * k)
    BY <1>1, Places
  <2> HIDE DEF k
  <2>2. y[2 * k - 1] = words[k][1] /\ y[2 * k] = words[k][2]
    BY <2>1
  <2>3. y[i] = words[k][IF i % 2 = 1 THEN 1 ELSE 2]
    BY <2>1, <2>2
  <2>4. QED
    BY <2>3 DEF k
<1>3. Flatten(words) = [i \in 1 .. 2 * n |-> g(i)]
  BY DEF Flatten
<1>4. y = [i \in 1 .. 2 * n |-> y[i]]
  BY <1>1 DEF Buffer
<1> HIDE DEF g, n
<1>5. QED
  BY <1>2, <1>3, <1>4

-----------------------------------------------------------------------------
(***************************************************************************)
(* The registers through the card.                                         *)
(***************************************************************************)

\* Everything a transfer in progress stands on is as it was.
SameData(x, w) ==
  /\ WorldOf(x) /\ Registers(x.ata) /\ x.high = w.high /\ x.disk = w.disk
  /\ x.ata.status = w.ata.status /\ x.ata.buf = w.ata.buf /\ x.ata.bufPos = w.ata.bufPos
  /\ x.ata.writing = w.ata.writing /\ x.ata.writeLBA = w.ata.writeLBA

Task == [secCount : Byte, lba0 : Byte, lba1 : Byte, lba2 : Byte, drvHead : Byte]

\* A register written through the card is a register of the drive.
LEMMA RegisterWrites ==
  ASSUME NEW w, WorldOf(w), NEW reg, NEW v
  PROVE  LET x == WriteRegister(w, reg, v) IN
         WorldOf(x) /\ x.ata = WriteReg(w.ata, w.disk, reg, v) /\ x.high = w.high /\ x.disk = w.disk
  BY DEF WorldOf, WriteRegister

\* One address register.
LEMMA AddressWrites ==
  ASSUME NEW w, WorldOf(w), Registers(w.ata), NEW reg \in 2 .. 6, NEW v \in Byte
  PROVE  LET x == WriteRegister(w, reg, v) IN
         SameData(x, w) /\ (reg # 6 => x.ata.drvHead = w.ata.drvHead)
<1> DEFINE x == WriteRegister(w, reg, v)
           b == WriteReg(w.ata, w.disk, reg, v)
<1>1. WorldOf(x) /\ x.ata = b /\ x.high = w.high /\ x.disk = w.disk
  BY RegisterWrites
<1>2. /\ Registers(b) /\ b.status = w.ata.status /\ b.buf = w.ata.buf
      /\ b.bufPos = w.ata.bufPos /\ b.writing = w.ata.writing /\ b.writeLBA = w.ata.writeLBA
      /\ reg # 6 => b.drvHead = w.ata.drvHead
  BY AddressChanges
<1> HIDE DEF b, x
<1>3. QED
  BY <1>1, <1>2 DEF SameData, x

\* The address registers leave a transfer, and the choice of the drive, alone.
LEMMA AddressRegistersKeep ==
  ASSUME NEW w, WorldOf(w), Registers(w.ata), NEW t \in Task
  PROVE  LET x == AddressRegisters(w, t) IN SameData(x, w) /\ x.ata.drvHead = w.ata.drvHead
<1> DEFINE r2 == WriteRegister(w, 2, t.secCount)
           r3 == WriteRegister(r2, 3, t.lba0)
           r4 == WriteRegister(r3, 4, t.lba1)
           r5 == WriteRegister(r4, 5, t.lba2)
<1>1. t.secCount \in Byte /\ t.lba0 \in Byte /\ t.lba1 \in Byte /\ t.lba2 \in Byte
  BY DEF Task
<1>2. 2 \in 2 .. 6 /\ 3 \in 2 .. 6 /\ 4 \in 2 .. 6 /\ 5 \in 2 .. 6
      /\ 2 # 6 /\ 3 # 6 /\ 4 # 6 /\ 5 # 6
  OBVIOUS
<1>3. AddressRegisters(w, t) = r5
  BY DEF AddressRegisters
<1>4. SameData(r2, w) /\ r2.ata.drvHead = w.ata.drvHead
  BY <1>1, <1>2, AddressWrites
<1> HIDE DEF r2
<1>5. SameData(r3, r2) /\ r3.ata.drvHead = r2.ata.drvHead
  <2>1. WorldOf(r2) /\ Registers(r2.ata)
    BY <1>4 DEF SameData
  <2>2. QED
    BY <1>1, <1>2, <2>1, AddressWrites
<1> HIDE DEF r3
<1>6. SameData(r4, r3) /\ r4.ata.drvHead = r3.ata.drvHead
  <2>1. WorldOf(r3) /\ Registers(r3.ata)
    BY <1>5 DEF SameData
  <2>2. QED
    BY <1>1, <1>2, <2>1, AddressWrites
<1> HIDE DEF r4
<1>7. SameData(r5, r4) /\ r5.ata.drvHead = r4.ata.drvHead
  <2>1. WorldOf(r4) /\ Registers(r4.ata)
    BY <1>6 DEF SameData
  <2>2. QED
    BY <1>1, <1>2, <2>1, AddressWrites
<1> HIDE DEF r5
<1>8. SameData(r5, w) /\ r5.ata.drvHead = w.ata.drvHead
  BY <1>4, <1>5, <1>6, <1>7 DEF SameData
<1>9. QED
  BY <1>3, <1>8

\* So does the whole task file, but for the choice of the drive.
LEMMA TaskFileKeeps ==
  ASSUME NEW w, WorldOf(w), Registers(w.ata), NEW t \in Task
  PROVE  SameData(TaskFile(w, t), w)
<1> DEFINE r == AddressRegisters(w, t)
           x == WriteRegister(r, 6, t.drvHead)
<1>1. SameData(r, w)
  BY AddressRegistersKeep
<1>2. WorldOf(r) /\ Registers(r.ata) /\ t.drvHead \in Byte /\ 6 \in 2 .. 6
  BY <1>1 DEF SameData, Task
<1>3. TaskFile(w, t) = x
  BY DEF TaskFile
<1> HIDE DEF r
<1>4. SameData(x, r)
  BY <1>2, AddressWrites
<1> HIDE DEF x
<1>5. QED
  BY <1>1, <1>3, <1>4 DEF SameData

\* A drive of which only the address changed keeps its promises.
LEMMA SameDataDrive ==
  ASSUME NEW w, Drive(w.ata), NEW x, SameData(x, w)
  PROVE  Drive(x.ata)
  BY DEF SameData, Drive

-----------------------------------------------------------------------------
(***************************************************************************)
(* The inductive invariant.                                                *)
(***************************************************************************)

\* Words in: what the driver expects is the buffer, and it stands where the
\* drive stands.
In ==
  /\ expected = Words(ata.buf) /\ Present(ata)
  /\ "DRQ" \in ata.status <=> ata.bufPos < Len(ata.buf)
  /\ "ERR" \notin ata.status
  /\ Buffer(moved) /\ 2 * Len(moved) = ata.bufPos
  /\ \A i \in 1 .. Len(moved) :
       moved[i] = IF half /\ i = Len(moved) THEN <<expected[i][1]>> ELSE expected[i]
  /\ half => Len(moved) > 0 /\ high = expected[Len(moved)][2]

\* The words the drive has taken: the last one may still be in the latch.
Sent == IF half THEN Len(expected) - 1 ELSE Len(expected)

\* Words out: the buffer is the words sent, followed by zeros.
Filling ==
  /\ ata.writing /\ ata.writeLBA = target.lba
  /\ Sent \in Nat /\ ata.bufPos = 2 * Sent
  /\ \A k \in 1 .. Sent :
       ata.buf[2 * k - 1] = expected[k][1] /\ ata.buf[2 * k] = expected[k][2]
  /\ half => high = expected[Len(expected)][2]

Out ==
  /\ Buffer(expected) /\ Present(ata)
  /\ Len(ata.buf) = target.count * SectorSize
  /\ IF "DRQ" \in ata.status THEN Filling ELSE ~half /\ 2 * Len(expected) = Len(ata.buf)

IInv ==
  /\ Drive(ata)
  /\ disk = store
  /\ half \in BOOLEAN
  /\ transfer \in {"none", "in", "out"}
  /\ transfer = "in" => In
  /\ transfer = "out" => Out

\* While a transfer goes on the driver sees the drive's own status.
LEMMA StatusIsSeen ==
  ASSUME NEW a, "DRQ" \in StatusValue(a)
  PROVE  Present(a) /\ "DRQ" \in a.status
  BY DEF StatusValue

\* The variables of the card as a world.
LEMMA TheWorld ==
  WorldOf(World) /\ World.ata = ata /\ World.high = high /\ World.disk = disk
  BY DEF WorldOf, World

\* It holds at power-on.
LEMMA InitIInv == Init => IInv
<1> SUFFICES ASSUME Init PROVE IInv
  OBVIOUS
<1>1. Registers(NewATA)
  BY DEF NewATA, Registers, Byte, Ready, Flags
<1>2. NewATA.buf = <<>> /\ NewATA.bufPos = 0 /\ NewATA.status = Ready
  BY DEF NewATA
<1>3. Drive(NewATA)
  BY <1>1, <1>2 DEF Drive, Buffer, Ready
<1>4. QED
  BY <1>3 DEF Init, IInv

\* A command is one of a drive that keeps its promises.
LEMMA IssueCommands ==
  ASSUME IInv, NEW t \in Tasks, NEW cmd \in CommandBytes, Issue(t, cmd)
  PROVE  \E a : Drive(a) /\ ata' = Command(a, disk, cmd) /\ disk' = disk
<1> DEFINE r == TaskFile(World, t)
           x == WriteRegister(r, 7, cmd)
<1>1. t \in Task
  BY HardDiskAssumption DEF Task
<1>2. SameData(r, World)
  BY <1>1, TheWorld, TaskFileKeeps DEF IInv, Drive
<1> HIDE DEF r
<1>3. Drive(r.ata) /\ WorldOf(r) /\ r.disk = disk
  BY <1>2, TheWorld, SameDataDrive DEF IInv, SameData
<1>4. x.ata = WriteReg(r.ata, r.disk, 7, cmd) /\ x.disk = r.disk
  BY <1>3, RegisterWrites
<1> HIDE DEF x
<1>5. ata' = x.ata /\ disk' = x.disk
  BY DEF Issue, Become, x, r
<1>6. ata' = Command(r.ata, disk, cmd) /\ disk' = disk
  BY <1>3, <1>4, <1>5 DEF WriteReg
<1>7. QED
  BY <1>3, <1>6

\* A command.
LEMMA IssueStep ==
  ASSUME IInv, NEW t \in Tasks, NEW cmd \in CommandBytes, Issue(t, cmd)
  PROVE  IInv'
<1>1. PICK a : Drive(a) /\ ata' = Command(a, disk, cmd) /\ disk' = disk
  BY IssueCommands
<1>2. /\ Drive(ata') /\ SameAddress(ata', a)
      /\ "DRQ" \in ata'.status => Present(ata') /\ ata'.bufPos = 0
      /\ "DRQ" \in ata'.status /\ cmd \in WriteCommands =>
           /\ ata'.writing /\ ata'.writeLBA = CurrentLBA(ata')
           /\ Len(ata'.buf) = SectorCount(ata') * SectorSize
      /\ "DRQ" \in ata'.status /\ cmd \notin WriteCommands =>
           \/ cmd = Identify /\ ata'.buf = IdentifyBlock
           \/ /\ cmd \in ReadCommands /\ CurrentLBA(ata') + SectorCount(ata') <= Blocks
              /\ ata'.buf = DiskBytes(disk, CurrentLBA(ata'), SectorCount(ata'))
  BY <1>1, CommandKeeps
<1>3. half' = FALSE /\ moved' = <<>> /\ store' = store /\ disk' = disk /\ disk = store
  BY <1>1 DEF Issue, Breaks, IInv
<1>4. transfer' = IF "DRQ" \notin StatusValue(ata') THEN "none"
                  ELSE IF cmd \in WriteCommands THEN "out" ELSE "in"
  BY DEF Issue
<1>5. ASSUME transfer' = "in"
       PROVE  In'
  <2>1. "DRQ" \in StatusValue(ata') /\ cmd \notin WriteCommands
    BY <1>4, <1>5
  <2>2. Present(ata') /\ "DRQ" \in ata'.status /\ ata'.bufPos = 0
    BY <1>2, <2>1, StatusIsSeen
  <2>3. expected' = DriverReads(cmd)
    BY <1>5 DEF Issue
  <2>4. expected' = Words(ata'.buf)
    <3>1. CASE cmd = Identify /\ ata'.buf = IdentifyBlock
      BY <2>3, <3>1 DEF DriverReads, Identify, ReadCommands
    <3>2. CASE /\ cmd \in ReadCommands /\ CurrentLBA(ata') + SectorCount(ata') <= Blocks
               /\ ata'.buf = DiskBytes(disk, CurrentLBA(ata'), SectorCount(ata'))
      <4>1. cmd # Identify
        BY <3>2 DEF Identify, ReadCommands
      <4>2. Addressed.lba = CurrentLBA(ata') /\ Addressed.count = SectorCount(ata')
        BY DEF Addressed
      <4>3. QED
        BY <1>3, <2>3, <3>2, <4>1, <4>2 DEF DriverReads, OnDisk
    <3>3. QED
      BY <1>2, <2>1, <2>2, <3>1, <3>2
  <2>5. ata'.bufPos < Len(ata'.buf)
    BY <1>2, <2>2 DEF Drive
  <2>6. "ERR" \notin ata'.status
    <3>1. Present(a)
      BY <1>2, <2>2, SameBlocks
    <3>2. QED
      BY <1>1, <2>2, <3>1, CommandAnswers
  <2>7. Buffer(moved') /\ Len(moved') = 0
    BY <1>3 DEF Buffer
  <2>8. QED
    BY <1>3, <2>2, <2>4, <2>5, <2>6, <2>7 DEF In
<1>6. ASSUME transfer' = "out"
       PROVE  Out'
  <2>1. "DRQ" \in StatusValue(ata') /\ cmd \in WriteCommands
    BY <1>4, <1>6
  <2>2. Present(ata') /\ "DRQ" \in ata'.status /\ ata'.bufPos = 0
    BY <1>2, <2>1, StatusIsSeen
  <2>3. expected' = <<>> /\ target' = Addressed
    BY <1>6 DEF Issue
  <2>4. target'.lba = CurrentLBA(ata') /\ target'.count = SectorCount(ata')
    BY <2>3 DEF Addressed
  <2>5. Buffer(expected') /\ Len(expected') = 0
    BY <2>3 DEF Buffer
  <2>6. Filling'
    BY <1>2, <1>3, <2>1, <2>2, <2>4, <2>5 DEF Filling, Sent
  <2>7. QED
    BY <1>2, <2>1, <2>2, <2>4, <2>5, <2>6 DEF Out
<1>7. transfer' \in {"none", "in", "out"}
  BY <1>4
<1>8. QED
  BY <1>2, <1>3, <1>5, <1>6, <1>7 DEF IInv

\* Another drive.
LEMMA SelectStep ==
  ASSUME IInv, NEW t \in Tasks, Select(t)
  PROVE  IInv'
<1> DEFINE r == TaskFile(World, t)
<1>1. t \in Task
  BY HardDiskAssumption DEF Task
<1>2. SameData(r, World)
  BY <1>1, TheWorld, TaskFileKeeps DEF IInv, Drive
<1>3. ata' = r.ata /\ disk' = r.disk
  BY DEF Select, Become
<1> HIDE DEF r
<1>4. Drive(r.ata) /\ r.disk = disk
  BY <1>2, TheWorld, SameDataDrive DEF IInv, SameData
<1>5. half' = FALSE /\ transfer' = "none" /\ store' = store /\ disk = store
  BY DEF Select, Breaks, IInv
<1>6. QED
  BY <1>3, <1>4, <1>5 DEF IInv

\* A reset.
LEMMA ResetStep ==
  ASSUME IInv, Reset
  PROVE  IInv'
<1>1. WriteControl(World, 4).ata = WriteDevCtl(ata, 4) /\ WriteControl(World, 4).disk = disk
  BY DEF WriteControl, World
<1>2. ata' = WriteDevCtl(ata, 4) /\ disk' = disk
  BY <1>1 DEF Reset, Become
<1>3. Drive(ata')
  BY <1>2, ResetKeeps DEF IInv
<1>4. half' = FALSE /\ transfer' = "none" /\ store' = store /\ disk = store
  BY DEF Reset, Breaks, IInv
<1>5. QED
  BY <1>2, <1>3, <1>4 DEF IInv

\* The address of the next command, during a transfer.
LEMMA PrepareNextStep ==
  ASSUME IInv, NEW t \in Tasks, PrepareNext(t)
  PROVE  IInv'
<1> DEFINE r == AddressRegisters(World, t)
<1>1. t \in Task
  BY HardDiskAssumption DEF Task
<1>2. SameData(r, World) /\ r.ata.drvHead = World.ata.drvHead
  BY <1>1, TheWorld, AddressRegistersKeep DEF IInv, Drive
<1>3. ata' = r.ata /\ disk' = r.disk /\ high' = r.high
  BY DEF PrepareNext, Become
<1> HIDE DEF r
<1>4. /\ Drive(ata') /\ disk' = disk /\ high' = high /\ ata'.drvHead = ata.drvHead
      /\ ata'.status = ata.status /\ ata'.buf = ata.buf /\ ata'.bufPos = ata.bufPos
      /\ ata'.writing = ata.writing /\ ata'.writeLBA = ata.writeLBA
  BY <1>2, <1>3, TheWorld, SameDataDrive DEF IInv, SameData
<1>5. /\ store' = store /\ transfer' = transfer /\ expected' = expected /\ moved' = moved
      /\ target' = target /\ half' = half
  BY DEF PrepareNext
<1>6. Present(ata') <=> Present(ata)
  BY <1>4 DEF Present
<1>7. In => In'
  BY <1>4, <1>5, <1>6 DEF In
<1>8. Out => Out'
  BY <1>4, <1>5, <1>6 DEF Out, Filling, Sent
<1>9. QED
  BY <1>4, <1>5, <1>7, <1>8 DEF IInv

\* The low byte of a word in; the high one goes to the latch.
LEMMA ReadLowStep ==
  ASSUME IInv, ReadLow
  PROVE  IInv'
<1>1. /\ transfer = "in" /\ In /\ Drive(ata) /\ ~half /\ disk = store
  BY DEF ReadLow, IInv
<1>2. Present(ata) /\ "DRQ" \in ata.status
  BY StatusIsSeen DEF ReadLow, DRQ
<1> DEFINE w == DataWord(ata)
<1>3. ata' = AfterReadData16(ata) /\ high' = w[2] /\ disk' = disk
  BY DEF ReadLow, Become, ReadDataPort, World
<1>4. moved' = Append(moved, <<w[1]>>)
  BY DEF ReadLow, DataPortValue, World
<1>5. /\ half' = TRUE /\ store' = store /\ transfer' = transfer /\ expected' = expected
  BY DEF ReadLow
<1>6. /\ Drive(ata') /\ SameAddress(ata', ata) /\ ata'.buf = ata.buf
      /\ ata'.bufPos = ata.bufPos + 2
      /\ "DRQ" \in ata'.status <=> ata.bufPos + 2 < Len(ata.buf)
      /\ ata'.status \subseteq ata.status
  BY <1>1, <1>2, <1>3, ReadMoves
<1> DEFINE n == Len(moved)
<1>7. /\ n \in Nat /\ 2 * n = ata.bufPos /\ ata.bufPos < Len(ata.buf)
      /\ Len(ata.buf) \in Nat /\ Len(ata.buf) % 2 = 0 /\ Buffer(ata.buf) /\ Buffer(moved)
  BY <1>1, <1>2 DEF In, Drive, Buffer
<1>8. /\ Len(expected) \in Nat /\ 2 * Len(expected) = Len(ata.buf)
      /\ \A i \in 1 .. Len(expected) : expected[i] = <<ata.buf[2 * i - 1], ata.buf[2 * i]>>
  BY <1>1, <1>7, WordsOf DEF In
<1>9. n + 1 \in 1 .. Len(expected)
  BY <1>7, <1>8
<1>10. w = expected[n + 1]
  <2>1. WordLeft(ata)
    BY <1>1, <1>7, WordIsLeft
  <2>2. w = <<ata.buf[ata.bufPos + 1], ata.buf[ata.bufPos + 2]>>
    BY <2>1 DEF DataWord
  <2>3. 2 * (n + 1) - 1 = ata.bufPos + 1 /\ 2 * (n + 1) = ata.bufPos + 2
    BY <1>7
  <2>4. expected[n + 1] = <<ata.buf[2 * (n + 1) - 1], ata.buf[2 * (n + 1)]>>
    BY <1>8, <1>9
  <2>5. QED
    BY <2>2, <2>3, <2>4
<1> HIDE DEF w
<1>11. /\ Buffer(moved') /\ Len(moved') = n + 1
       /\ \A i \in 1 .. n : moved'[i] = moved[i]
       /\ moved'[n + 1] = <<expected[n + 1][1]>>
  BY <1>4, <1>7, <1>10, Appended
<1>12. \A i \in 1 .. n : moved[i] = expected[i]
  BY <1>1 DEF In
<1>13. \A i \in 1 .. Len(moved') :
         moved'[i] = IF i = Len(moved') THEN <<expected[i][1]>> ELSE expected[i]
  <2> HIDE DEF n
  <2>1. ASSUME NEW i \in 1 .. n + 1
        PROVE  moved'[i] = IF i = n + 1 THEN <<expected[i][1]>> ELSE expected[i]
    <3>1. CASE i = n + 1
      BY <1>11, <3>1
    <3>2. CASE i # n + 1
      <4>1. i \in 1 .. n
        BY <1>7, <3>2
      <4>2. moved'[i] = expected[i]
        BY <1>11, <1>12, <4>1
      <4>3. QED
        BY <3>2, <4>2
    <3>3. QED
      BY <3>1, <3>2
  <2>2. QED
    BY <1>11, <2>1
<1>14. Present(ata')
  BY <1>2, <1>6, SameBlocks
<1>15. expected' = Words(ata'.buf) /\ 2 * Len(moved') = ata'.bufPos /\ Len(moved') > 0
  BY <1>1, <1>5, <1>6, <1>7, <1>11 DEF In
<1>16. "ERR" \notin ata'.status
  BY <1>1, <1>6 DEF In
<1>17. In'
  BY <1>3, <1>5, <1>6, <1>10, <1>11, <1>13, <1>14, <1>15, <1>16 DEF In
<1>18. QED
  BY <1>1, <1>3, <1>5, <1>6, <1>17 DEF IInv

\* The high byte of a word in, from the latch.
LEMMA ReadHighStep ==
  ASSUME IInv, ReadHigh
  PROVE  IInv'
<1>1. transfer = "in" /\ In /\ half
  BY DEF ReadHigh, IInv
<1>2. moved' = [moved EXCEPT ![Len(moved)] = Append(@, high)] /\ half' = FALSE
  BY DEF ReadHigh
<1>3. /\ ata' = ata /\ disk' = disk /\ store' = store /\ transfer' = transfer
      /\ expected' = expected
  BY DEF ReadHigh
<1> DEFINE n == Len(moved)
<1>4. /\ n \in Nat \ {0} /\ 2 * n = ata.bufPos /\ Buffer(moved)
      /\ ata.bufPos <= Len(ata.buf) /\ Len(ata.buf) % 2 = 0 /\ Buffer(ata.buf)
      /\ Len(ata.buf) \in Nat
  <2>1. Buffer(moved) /\ 2 * n = ata.bufPos /\ n > 0
    BY <1>1 DEF In
  <2>2. n \in Nat \ {0}
    BY <2>1 DEF Buffer
  <2>3. /\ ata.bufPos <= Len(ata.buf) /\ Len(ata.buf) % 2 = 0 /\ Buffer(ata.buf)
    BY DEF IInv, Drive
  <2>4. QED
    BY <2>1, <2>2, <2>3 DEF Buffer
<1>5. /\ Len(expected) \in Nat /\ 2 * Len(expected) = Len(ata.buf)
      /\ \A i \in 1 .. Len(expected) : expected[i] = <<ata.buf[2 * i - 1], ata.buf[2 * i]>>
  BY <1>1, <1>4, WordsOf DEF In
<1>6. moved[n] = <<expected[n][1]>> /\ high = expected[n][2]
  <2>1. n \in 1 .. Len(moved) /\ n = Len(moved)
    BY <1>4
  <2>2. \A i \in 1 .. Len(moved) :
          moved[i] = IF i = n THEN <<expected[i][1]>> ELSE expected[i]
    BY <1>1 DEF In
  <2>3. high = expected[n][2]
    BY <1>1 DEF In
  <2>4. QED
    BY <2>1, <2>2, <2>3
<1>7. expected[n] = <<expected[n][1], expected[n][2]>>
  <2>1. n \in 1 .. Len(expected)
    BY <1>4, <1>5
  <2>2. expected[n] = <<ata.buf[2 * n - 1], ata.buf[2 * n]>>
    BY <1>5, <2>1
  <2>3. QED
    BY <2>2
<1>8. Append(moved[n], high) = expected[n]
  BY <1>6, <1>7
<1>9. moved' = [i \in 1 .. n |-> IF i = n THEN expected[n] ELSE moved[i]]
  BY <1>2, <1>4, <1>8 DEF Buffer
<1>10. \A i \in 1 .. n : i # n => moved[i] = expected[i]
  BY <1>1 DEF In
<1>11. /\ Buffer(moved') /\ Len(moved') = n
       /\ \A i \in 1 .. n : moved'[i] = expected[i]
  BY <1>4, <1>9, <1>10 DEF Buffer
<1>12. In'
  BY <1>1, <1>2, <1>3, <1>11 DEF In
<1>13. QED
  BY <1>1, <1>2, <1>3, <1>12 DEF IInv

\* The high byte of a word out, to the latch.
LEMMA WriteHighStep ==
  ASSUME IInv, NEW word \in WordValues, WriteHigh(word)
  PROVE  IInv'
<1>1. transfer = "out" /\ Out /\ ~half
  BY DEF WriteHigh, IInv
<1>2. Present(ata) /\ "DRQ" \in ata.status
  BY StatusIsSeen DEF WriteHigh, DRQ
<1>3. ata' = ata /\ disk' = disk /\ high' = word[2]
  BY DEF WriteHigh, Become, WriteLatch, World
<1>4. /\ expected' = Append(expected, word) /\ half' = TRUE /\ store' = store
      /\ transfer' = transfer /\ target' = target
  BY DEF WriteHigh
<1> DEFINE n == Len(expected)
<1>5. Buffer(expected) /\ n \in Nat
  BY <1>1 DEF Out, Buffer
<1>6. Filling
  BY <1>1, <1>2 DEF Out
<1>7. /\ Buffer(expected') /\ Len(expected') = n + 1
      /\ \A k \in 1 .. n : expected'[k] = expected[k]
      /\ expected'[n + 1] = word
  BY <1>4, <1>5, Appended
<1>8. Sent = n /\ Sent' = n
  BY <1>1, <1>4, <1>5, <1>7 DEF Sent
<1>9. Filling'
  BY <1>3, <1>4, <1>5, <1>6, <1>7, <1>8 DEF Filling
<1>10. Out'
  BY <1>1, <1>2, <1>3, <1>4, <1>7, <1>9 DEF Out
<1>11. QED
  BY <1>1, <1>3, <1>4, <1>10 DEF IInv

\* With the low byte the word goes to the drive; the last one ends the command.
LEMMA WriteLowStep ==
  ASSUME IInv, WriteLow
  PROVE  IInv'
<1> DEFINE n == Len(expected)
           word == <<expected[n][1], high>>
           x == WriteData16(World, word)
<1>1. transfer = "out" /\ Out /\ half /\ Drive(ata) /\ disk = store
  BY DEF WriteLow, IInv
<1>2. "DRQ" \in ata.status /\ Present(ata) /\ Filling
  BY <1>1 DEF Out
<1>3. ata' = x.ata /\ disk' = x.disk
  BY DEF WriteLow, Become, WriteDataPort, World
<1>4. /\ half' = FALSE /\ transfer' = transfer /\ expected' = expected /\ target' = target
      /\ store' = IF {"DRQ", "ERR"} \cap StatusValue(ata') = {}
                  THEN Stored(store, target.lba, Flatten(expected)) ELSE store
  BY DEF WriteLow
<1>5. /\ Buffer(expected) /\ n \in Nat /\ Len(ata.buf) = target.count * SectorSize
      /\ Buffer(ata.buf) /\ Len(ata.buf) \in Nat
  BY <1>1 DEF Out, Buffer, Drive
<1>6. n \in Nat \ {0} /\ Sent = n - 1 /\ ata.bufPos = 2 * (n - 1)
  BY <1>1, <1>2, <1>5 DEF Filling, Sent
<1>7. /\ ata.writing /\ ata.writeLBA = target.lba /\ high = expected[n][2]
      /\ \A k \in 1 .. n - 1 :
           ata.buf[2 * k - 1] = expected[k][1] /\ ata.buf[2 * k] = expected[k][2]
  BY <1>1, <1>2, <1>6 DEF Filling
<1>8. word[1] = expected[n][1] /\ word[2] = expected[n][2]
  BY <1>7
<1> HIDE DEF word
<1>9. /\ Drive(x.ata) /\ SameAddress(x.ata, ata) /\ Len(x.ata.buf) = Len(ata.buf)
      /\ \E y : Filled(y, ata.buf, ata.bufPos, word) /\
           \/ /\ ata.bufPos + 2 < Len(ata.buf) /\ "DRQ" \in x.ata.status
              /\ x.ata.buf = y /\ x.ata.bufPos = ata.bufPos + 2
              /\ x.ata.writing /\ x.ata.writeLBA = ata.writeLBA
              /\ x.disk = disk
           \/ /\ ata.bufPos + 2 = Len(ata.buf) /\ x.ata.status = Ready
              /\ x.disk = Stored(disk, ata.writeLBA, y)
           \/ /\ ata.bufPos + 2 = Len(ata.buf) /\ x.ata.status = Ready \cup {"ERR"}
              /\ x.disk = disk
  <2>1. WorldOf(World) /\ World.ata = ata /\ World.disk = disk
    BY TheWorld
  <2> HIDE DEF x
  <2> DEFINE w == World
  <2>2. WorldOf(w) /\ Drive(w.ata) /\ "DRQ" \in w.ata.status /\ w.ata.writing
    BY <1>1, <1>2, <1>7, <2>1
  <2>3. w.ata = ata /\ w.disk = disk /\ WriteData16(w, word) = x
    BY <2>1 DEF x
  <2> HIDE DEF w
  <2>4. QED
    BY <2>2, <2>3, WriteMoves
<1> HIDE DEF x
<1>10. PICK y : Filled(y, ata.buf, ata.bufPos, word) /\
           \/ /\ ata.bufPos + 2 < Len(ata.buf) /\ "DRQ" \in x.ata.status
              /\ x.ata.buf = y /\ x.ata.bufPos = ata.bufPos + 2
              /\ x.ata.writing /\ x.ata.writeLBA = ata.writeLBA
              /\ x.disk = disk
           \/ /\ ata.bufPos + 2 = Len(ata.buf) /\ x.ata.status = Ready
              /\ x.disk = Stored(disk, ata.writeLBA, y)
           \/ /\ ata.bufPos + 2 = Len(ata.buf) /\ x.ata.status = Ready \cup {"ERR"}
              /\ x.disk = disk
  BY <1>9
<1>11. /\ Buffer(y) /\ Len(y) = Len(ata.buf)
       /\ \A k \in 1 .. n : y[2 * k - 1] = expected[k][1] /\ y[2 * k] = expected[k][2]
  <2>1. /\ Buffer(y) /\ Len(y) = Len(ata.buf)
        /\ \A i \in 1 .. ata.bufPos : y[i] = ata.buf[i]
        /\ y[ata.bufPos + 1] = word[1] /\ y[ata.bufPos + 2] = word[2]
    BY <1>10 DEF Filled
  <2> HIDE DEF n
  <2>2. ASSUME NEW k \in 1 .. n
        PROVE  y[2 * k - 1] = expected[k][1] /\ y[2 * k] = expected[k][2]
    <3>1. CASE k = n
      <4>1. 2 * k - 1 = ata.bufPos + 1 /\ 2 * k = ata.bufPos + 2
        BY <1>6, <3>1
      <4>2. QED
        BY <1>8, <2>1, <3>1, <4>1
    <3>2. CASE k # n
      <4>1. k \in 1 .. n - 1 /\ 2 * k - 1 \in 1 .. ata.bufPos /\ 2 * k \in 1 .. ata.bufPos
        BY <1>6, <3>2
      <4>2. QED
        BY <1>7, <2>1, <4>1
    <3>3. QED
      BY <3>1, <3>2
  <2>3. QED
    BY <2>1, <2>2
<1>12. Present(ata') /\ StatusValue(ata') = ata'.status
  BY <1>2, <1>3, <1>9, SameBlocks DEF StatusValue
<1>13. Drive(ata') /\ Len(ata'.buf) = target.count * SectorSize
  BY <1>3, <1>5, <1>9
<1>14. disk' = store' /\ Out'
  <2>1. CASE /\ ata.bufPos + 2 < Len(ata.buf) /\ "DRQ" \in x.ata.status
             /\ x.ata.buf = y /\ x.ata.bufPos = ata.bufPos + 2
             /\ x.ata.writing /\ x.ata.writeLBA = ata.writeLBA
             /\ x.disk = disk
    <3>1. store' = store /\ disk' = disk
      BY <1>3, <1>4, <1>12, <2>1
    <3>2. Sent' = n /\ ata'.bufPos = 2 * n
      BY <1>3, <1>4, <1>6, <2>1 DEF Sent
    <3>3. Filling'
      BY <1>3, <1>4, <1>5, <1>7, <1>11, <2>1, <3>2 DEF Filling
    <3>4. "DRQ" \in ata'.status
      BY <1>3, <2>1
    <3>5. QED
      BY <1>1, <1>4, <1>5, <1>12, <1>13, <3>1, <3>3, <3>4 DEF Out
  <2>2. CASE /\ ata.bufPos + 2 = Len(ata.buf) /\ x.ata.status = Ready
             /\ x.disk = Stored(disk, ata.writeLBA, y)
    <3>1. Len(y) = 2 * n
      BY <1>5, <1>6, <1>11, <2>2
    <3>2. y = Flatten(expected)
      BY <1>5, <1>11, <3>1, FlattenIs, ZenonT(60)
    <3>3. {"DRQ", "ERR"} \cap StatusValue(ata') = {} /\ "DRQ" \notin ata'.status
      BY <1>3, <1>12, <2>2 DEF Ready
    <3>4. disk' = store'
      BY <1>1, <1>3, <1>4, <1>7, <2>2, <3>2, <3>3
    <3>5. Out'
      BY <1>4, <1>5, <1>11, <1>12, <1>13, <3>1, <3>3 DEF Out
    <3>6. QED
      BY <3>4, <3>5
  <2>3. CASE /\ ata.bufPos + 2 = Len(ata.buf) /\ x.ata.status = Ready \cup {"ERR"}
             /\ x.disk = disk
    <3>1. Len(y) = 2 * n
      BY <1>5, <1>6, <1>11, <2>3
    <3>2. "ERR" \in StatusValue(ata') /\ "DRQ" \notin ata'.status
      BY <1>3, <1>12, <2>3 DEF Ready
    <3>3. disk' = store'
      BY <1>1, <1>3, <1>4, <2>3, <3>2
    <3>4. Out'
      BY <1>4, <1>5, <1>11, <1>12, <1>13, <3>1, <3>2 DEF Out
    <3>5. QED
      BY <3>3, <3>4
  <2>4. QED
    BY <1>10, <2>1, <2>2, <2>3
<1>15. QED
  BY <1>1, <1>4, <1>13, <1>14 DEF IInv

\* Every step preserves the invariant.
LEMMA StepIInv == IInv /\ [Next]_vars => IInv'
<1> SUFFICES ASSUME IInv, [Next]_vars PROVE IInv'
  OBVIOUS
<1>1. ASSUME NEW t \in Tasks, NEW cmd \in CommandBytes, Issue(t, cmd)
      PROVE  IInv'
  BY <1>1, IssueStep
<1>2. ASSUME NEW t \in Tasks, Select(t)
      PROVE  IInv'
  BY <1>2, SelectStep
<1>3. ASSUME NEW t \in Tasks, PrepareNext(t)
      PROVE  IInv'
  BY <1>3, PrepareNextStep
<1>4. ASSUME NEW word \in WordValues, WriteHigh(word)
      PROVE  IInv'
  BY <1>4, WriteHighStep
<1>5. CASE UNCHANGED vars
  BY <1>5 DEF vars, IInv, In, Out, Filling, Sent
<1>6. QED
  BY <1>1, <1>2, <1>3, <1>4, <1>5, ResetStep, ReadLowStep, ReadHighStep, WriteLowStep DEF Next

\* The strengthened invariant holds in every behaviour.
THEOREM Invariance == Spec => []IInv
<1>1. IInv /\ [Next]_vars => IInv'
  BY StepIInv
<1>2. QED
  BY <1>1, InitIInv, PTL DEF Spec

\* While the drive asks for data a whole word is there, for every size of the
\* disk and every order of commands (ReadData16 and WriteData16, ata.go:103-140).
THEOREM WordIsThere == Spec => []DRQPromisesAWord
<1>1. IInv => DRQPromisesAWord
  <2> SUFFICES ASSUME IInv PROVE DRQPromisesAWord
    OBVIOUS
  <2>1. Drive(ata)
    BY DEF IInv
  <2>2. "DRQ" \in ata.status => WordLeft(ata)
    BY <2>1, WordIsLeft DEF Drive
  <2>3. ata.bufPos \in Nat /\ Len(ata.buf) \in Nat /\ Len(ata.buf) % 2 = 0 /\ ata.bufPos % 2 = 0
    BY <2>1 DEF Drive, Registers, Buffer
  <2>4. ata.bufPos + 1 # Len(ata.buf)
    BY <2>3, OddIsNoEnd
  <2>5. QED
    BY <2>2, <2>4 DEF DRQPromisesAWord, HalfWordLeft
<1>2. QED
  BY <1>1, Invariance, PTL

\* The invariant makes the driver and the drive count the same words.
LEMMA SameCount == IInv => PhaseEndsOnTime
<1> SUFFICES ASSUME IInv PROVE PhaseEndsOnTime
  OBVIOUS
<1>1. /\ Buffer(ata.buf) /\ Len(ata.buf) \in Nat /\ Len(ata.buf) % 2 = 0 /\ ata.bufPos \in Nat
      /\ "DRQ" \in ata.status => ata.bufPos < Len(ata.buf)
  BY DEF IInv, Drive, Registers, Buffer
<1>2. ASSUME transfer = "in"
      PROVE  DRQ <=> Len(moved) < Len(expected)
  <2>1. In
    BY <1>2 DEF IInv
  <2>2. DRQ <=> ata.bufPos < Len(ata.buf)
    BY <2>1 DEF In, DRQ, StatusValue
  <2>3. Len(expected) \in Nat /\ 2 * Len(expected) = Len(ata.buf)
    BY <1>1, <2>1, WordsOf DEF In
  <2>4. Len(moved) \in Nat /\ 2 * Len(moved) = ata.bufPos
    BY <2>1 DEF In, Buffer
  <2>5. QED
    BY <1>1, <2>2, <2>3, <2>4
<1>3. ASSUME transfer = "out", ~half
      PROVE  DRQ <=> 2 * Len(expected) < target.count * SectorSize
  <2>1. Out
    BY <1>3 DEF IInv
  <2>2. DRQ <=> "DRQ" \in ata.status
    BY <2>1 DEF Out, DRQ, StatusValue
  <2>3. Len(ata.buf) = target.count * SectorSize
    BY <2>1 DEF Out
  <2>4. "DRQ" \in ata.status => ata.bufPos = 2 * Len(expected)
    BY <1>3, <2>1 DEF Out, Filling, Sent
  <2>5. "DRQ" \notin ata.status => 2 * Len(expected) = Len(ata.buf)
    BY <2>1 DEF Out
  <2>6. QED
    BY <1>1, <2>2, <2>3, <2>4, <2>5
<1>4. QED
  BY <1>2, <1>3 DEF PhaseEndsOnTime

\* The driver and the drive count the same words (ReadData16 and WriteData16,
\* ata.go:103-140).
THEOREM CountsAgree == Spec => []PhaseEndsOnTime
  BY SameCount, Invariance, PTL

\* Every word read is the word the driver knows to be on the disk there (In8,
\* xtide.go:24-37; readSectors, ata.go:189-197).
THEOREM ReadsAreTrue == Spec => []ReadsReturnWhatWasWritten
<1>1. IInv => ReadsReturnWhatWasWritten
  <2> SUFFICES ASSUME IInv, transfer = "in", NEW i \in 1 .. Len(moved)
               PROVE  /\ i <= Len(expected)
                      /\ moved[i] = IF half /\ i = Len(moved) THEN <<expected[i][1]>> ELSE expected[i]
    BY DEF ReadsReturnWhatWasWritten
  <2>1. /\ Buffer(ata.buf) /\ Len(ata.buf) \in Nat /\ Len(ata.buf) % 2 = 0
        /\ ata.bufPos <= Len(ata.buf)
    BY DEF IInv, Drive, Buffer
  <2>2. In
    BY DEF IInv
  <2>3. Len(expected) \in Nat /\ 2 * Len(expected) = Len(ata.buf)
    BY <2>1, <2>2, WordsOf DEF In
  <2>4. Len(moved) \in Nat /\ 2 * Len(moved) = ata.bufPos
    BY <2>2 DEF In, Buffer
  <2>5. i <= Len(expected)
    BY <2>1, <2>3, <2>4
  <2>6. QED
    BY <2>2, <2>5 DEF In
<1>2. QED
  BY <1>1, Invariance, PTL

\* The disk holds what the driver has seen confirmed and nothing else
\* (WriteData16, ata.go:124-140; WriteLBA, harddisk.go:64-71).
THEOREM WritesAreWhole == Spec => []DiskHoldsConfirmedWrites
<1>1. IInv => DiskHoldsConfirmedWrites
  BY DEF IInv, DiskHoldsConfirmedWrites
<1>2. QED
  BY <1>1, Invariance, PTL
-----------------------------------------------------------------------------
(***************************************************************************)
(* Types.  The invariant (Contents) says that the registers, the buffer,   *)
(* the latch and the disk hold bytes, and that the words the driver has    *)
(* sent, which fill the buffer, are pairs of bytes.                        *)
(***************************************************************************)
Disk == [Block -> Sector]

Holding(w) == w \in [ata : ATAState, high : Byte, disk : Disk]

\* What the driver writes, and where.
Sending ==
  expected \in Seq(WordValues) /\ target \in [lba : Nat, count : Nat \ {0}]

Contents ==
  /\ ata \in ATAState /\ high \in Byte /\ disk \in Disk
  /\ transfer = "out" => Sending

\* Each register takes the values of its type.
LEMMA RegisterTypes ==
  ASSUME NEW a \in ATAState
  PROVE  /\ \A x \in Byte : /\ [a EXCEPT !.secCount = x] \in ATAState
                           /\ [a EXCEPT !.lba0 = x] \in ATAState
                           /\ [a EXCEPT !.lba1 = x] \in ATAState
                           /\ [a EXCEPT !.lba2 = x] \in ATAState
                           /\ [a EXCEPT !.drvHead = x] \in ATAState
                           /\ [a EXCEPT !.errReg = x] \in ATAState
         /\ \A x \in SUBSET Flags : [a EXCEPT !.status = x] \in ATAState
         /\ \A x \in Seq(Byte) : [a EXCEPT !.buf = x] \in ATAState
         /\ \A x \in Nat : [a EXCEPT !.bufPos = x] \in ATAState
         /\ \A x \in BOOLEAN : [a EXCEPT !.writing = x] \in ATAState
         /\ \A x \in 0 .. LBASpace - 1 : [a EXCEPT !.writeLBA = x] \in ATAState
  BY DEF ATAState

\* The fields of a drive.
LEMMA Fields ==
  ASSUME NEW a \in ATAState
  PROVE  /\ a.status \in SUBSET Flags /\ a.buf \in Seq(Byte) /\ a.bufPos \in Nat
         /\ a.writing \in BOOLEAN /\ a.writeLBA \in 0 .. LBASpace - 1 /\ a.writeLBA \in Nat
         /\ Registers(a)
<1>1. /\ a.status \in SUBSET Flags /\ a.buf \in Seq(Byte) /\ a.bufPos \in Nat
      /\ a.writing \in BOOLEAN /\ a.writeLBA \in 0 .. LBASpace - 1
  BY DEF ATAState
<1>2. Registers(a)
  BY DEF ATAState, Registers
<1>3. a.writeLBA \in Nat
  BY <1>1, ATAAssumption
<1>4. QED
  BY <1>1, <1>2, <1>3

\* The sets of flags the code writes.
LEMMA StatusTypes ==
  /\ Ready \in SUBSET Flags /\ Ready \cup {"ERR"} \in SUBSET Flags
  /\ Ready \cup {"DRQ"} \in SUBSET Flags
  /\ {} \in SUBSET Flags
  BY DEF Ready, Flags

\* A command that fails leaves a drive of its type.
LEMMA FailedIsTyped ==
  ASSUME NEW a \in ATAState, NEW e \in Byte
  PROVE  Failed(a, e) \in ATAState
<1> DEFINE b == [a EXCEPT !.errReg = e]
<1>1. b \in ATAState
  BY RegisterTypes
<1>2. Failed(a, e) = [b EXCEPT !.status = Ready \cup {"ERR"}]
  BY DEF Failed
<1> HIDE DEF b
<1>3. QED
  BY <1>1, <1>2, StatusTypes, RegisterTypes

\* So does a command that returns bytes.
LEMMA DataInIsTyped ==
  ASSUME NEW a \in ATAState, NEW x \in Seq(Byte)
  PROVE  DataIn(a, x) \in ATAState
<1> DEFINE b == [a EXCEPT !.buf = x]
           c == [b EXCEPT !.bufPos = 0]
           d == [c EXCEPT !.writing = FALSE]
<1>1. b \in ATAState
  BY RegisterTypes
<1>2. DataIn(a, x) = [d EXCEPT !.status = Ready \cup {"DRQ"}]
  BY DEF DataIn
<1> HIDE DEF b
<1>3. c \in ATAState
  BY <1>1, RegisterTypes
<1> HIDE DEF c
<1>4. d \in ATAState
  BY <1>3, RegisterTypes
<1> HIDE DEF d
<1>5. QED
  BY <1>2, <1>4, StatusTypes, RegisterTypes

\* A read brings bytes.
LEMMA DiskGivesBytes ==
  ASSUME NEW d \in Disk, NEW lba \in Nat, NEW n \in Nat \ {0}
  PROVE  DiskBytes(d, lba, n) \in Seq(Byte)
<1> DEFINE m == n * SectorSize
           byte(i) == LET b == lba + (i - 1) \div SectorSize IN
                      IF b < Blocks THEN d[b][((i - 1) % SectorSize) + 1] ELSE 0
<1>1. m \in Nat
  BY WholeWords
<1> HIDE DEF m
<1>2. SectorSize \in Nat \ {0} /\ Blocks \in Nat
  BY ATAAssumption
<1>3. ASSUME NEW i \in 1 .. m PROVE byte(i) \in Byte
  <2> DEFINE q == (i - 1) \div SectorSize
             r == (i - 1) % SectorSize
  <2>1. i - 1 \in Nat
    BY <1>1
  <2>2. q \in Nat /\ r \in 0 .. SectorSize - 1
    BY <1>2, <2>1
  <2>3. byte(i) = IF lba + q < Blocks THEN d[lba + q][r + 1] ELSE 0
    OBVIOUS
  <2> HIDE DEF q, r, byte
  <2>4. r + 1 \in 1 .. SectorSize
    BY <1>2, <2>2
  <2>5. CASE lba + q < Blocks
    <3>1. lba + q \in Block
      BY <1>2, <2>2, <2>5 DEF Block
    <3>2. d[lba + q] \in Sector
      BY <3>1 DEF Disk
    <3>3. d[lba + q][r + 1] \in Byte
      BY <2>4, <3>2 DEF Sector
    <3>4. QED
      BY <2>3, <2>5, <3>3
  <2>6. CASE ~(lba + q < Blocks)
    BY <2>3, <2>6 DEF Byte
  <2>7. QED
    BY <2>5, <2>6
<1>4. DiskBytes(d, lba, n) = [i \in 1 .. m |-> byte(i)]
  BY DEF DiskBytes, m
<1> HIDE DEF byte
<1>5. QED
  BY <1>1, <1>3, <1>4

\* A write begins with registers of their types.
LEMMA BeginWriteIsTyped ==
  ASSUME NEW a \in ATAState
  PROVE  BeginWrite(a) \in ATAState
<1> DEFINE n == SectorCount(a) * SectorSize
           x == [i \in 1 .. n |-> 0]
           b == [a EXCEPT !.writeLBA = CurrentLBA(a)]
           c == [b EXCEPT !.buf = x]
           d == [c EXCEPT !.bufPos = 0]
           e == [d EXCEPT !.writing = TRUE]
<1>1. CurrentLBA(a) \in 0 .. LBASpace - 1 /\ n \in Nat
  BY Fields, AddressIsNatural, WholeWords
<1>2. BeginWrite(a) = [e EXCEPT !.status = Ready \cup {"DRQ"}]
  BY DEF BeginWrite
<1> HIDE DEF n
<1>3. x \in Seq(Byte)
  BY <1>1 DEF Byte
<1> HIDE DEF x
<1>4. b \in ATAState
  BY <1>1, RegisterTypes
<1> HIDE DEF b
<1>5. c \in ATAState
  BY <1>3, <1>4, RegisterTypes
<1> HIDE DEF c
<1>6. d \in ATAState
  BY <1>5, RegisterTypes
<1> HIDE DEF d
<1>7. e \in ATAState
  BY <1>6, RegisterTypes
<1> HIDE DEF e
<1>8. QED
  BY <1>2, <1>7, StatusTypes, RegisterTypes

\* Every command leaves registers of their types.
LEMMA CommandIsTyped ==
  ASSUME NEW a \in ATAState, NEW d \in Disk, NEW cmd
  PROVE  Command(a, d, cmd) \in ATAState
<1> DEFINE c == [a EXCEPT !.errReg = 0]
           b == Command(a, d, cmd)
<1>1. 0 \in Byte /\ 1 \in Byte /\ 4 \in Byte /\ 16 \in Byte
  BY DEF Byte
<1>2. c \in ATAState
  BY <1>1, RegisterTypes
<1>3. /\ Identify \notin ReadCommands \cup WriteCommands \cup IdleCommands
      /\ \A x \in ReadCommands : x \notin WriteCommands \cup IdleCommands
      /\ \A x \in WriteCommands : x \notin IdleCommands
  BY DEF Identify, ReadCommands, WriteCommands, IdleCommands
<1> HIDE DEF c, b
<1>4. CASE ~Present(a)
  <2>1. b = [c EXCEPT !.status = {}]
    BY <1>4 DEF b, c, Command
  <2>2. QED
    BY <1>2, <2>1, StatusTypes, RegisterTypes DEF b
<1>5. CASE Present(a) /\ cmd = Identify
  <2>1. b = DataIn(c, IdentifyBlock)
    BY <1>3, <1>5 DEF b, c, Command
  <2>2. IdentifyBlock \in Seq(Byte)
    BY ATAAssumption
  <2>3. QED
    BY <1>2, <2>1, <2>2, DataInIsTyped DEF b
<1>6. CASE Present(a) /\ cmd \in ReadCommands
  <2>1. b = ReadSectors(c, d)
    BY <1>3, <1>6 DEF b, c, Command
  <2>2. CurrentLBA(c) \in Nat /\ SectorCount(c) \in Nat \ {0}
    BY <1>2, Fields, AddressIsNatural
  <2> DEFINE x == DiskBytes(d, CurrentLBA(c), SectorCount(c))
  <2>3. x \in Seq(Byte)
    BY <2>2, DiskGivesBytes
  <2>4. ReadSectors(c, d) \in {DataIn(c, x), Failed(c, 16)}
    BY DEF ReadSectors
  <2> HIDE DEF x
  <2>5. QED
    BY <1>1, <1>2, <2>1, <2>3, <2>4, DataInIsTyped, FailedIsTyped DEF b
<1>7. CASE Present(a) /\ cmd \in WriteCommands
  <2>1. b = BeginWrite(c)
    BY <1>3, <1>7 DEF b, c, Command
  <2>2. QED
    BY <1>2, <2>1, BeginWriteIsTyped DEF b
<1>8. CASE Present(a) /\ cmd \in IdleCommands
  <2> DEFINE x == IF cmd = 144 THEN 1 ELSE 0
             e == [c EXCEPT !.status = Ready]
  <2>1. b = [e EXCEPT !.errReg = x]
    BY <1>3, <1>8 DEF b, c, Command
  <2>2. e \in ATAState
    BY <1>2, StatusTypes, RegisterTypes
  <2>3. x \in Byte
    BY <1>1
  <2> HIDE DEF e, x
  <2>4. QED
    BY <2>1, <2>2, <2>3, RegisterTypes DEF b
<1>9. CASE Present(a) /\ cmd \notin {Identify} \cup ReadCommands \cup WriteCommands \cup IdleCommands
  <2>1. b = Failed(c, 4)
    BY <1>3, <1>9 DEF b, c, Command
  <2>2. QED
    BY <1>1, <1>2, <2>1, FailedIsTyped DEF b
<1>10. QED
  BY <1>4, <1>5, <1>6, <1>7, <1>8, <1>9 DEF b

\* So does every register write.
LEMMA RegisterWriteHolds ==
  ASSUME NEW w, Holding(w), NEW reg \in 2 .. 7, NEW v, reg # 7 => v \in Byte
  PROVE  Holding(WriteRegister(w, reg, v))
<1> DEFINE b == WriteReg(w.ata, w.disk, reg, v)
<1>1. w.ata \in ATAState /\ w.disk \in Disk
  BY DEF Holding
<1>2. CASE reg = 2 /\ v \in Byte
  <2>1. b = [w.ata EXCEPT !.secCount = v]
    BY <1>2 DEF WriteReg
  <2>2. b \in ATAState
    BY <1>1, <1>2, <2>1, RegisterTypes
  <2>3. QED
    BY <2>2 DEF Holding, WriteRegister
<1>3. CASE reg = 3 /\ v \in Byte
  <2>1. b = [w.ata EXCEPT !.lba0 = v]
    BY <1>3 DEF WriteReg
  <2>2. b \in ATAState
    BY <1>1, <1>3, <2>1, RegisterTypes
  <2>3. QED
    BY <2>2 DEF Holding, WriteRegister
<1>4. CASE reg = 4 /\ v \in Byte
  <2>1. b = [w.ata EXCEPT !.lba1 = v]
    BY <1>4 DEF WriteReg
  <2>2. b \in ATAState
    BY <1>1, <1>4, <2>1, RegisterTypes
  <2>3. QED
    BY <2>2 DEF Holding, WriteRegister
<1>5. CASE reg = 5 /\ v \in Byte
  <2>1. b = [w.ata EXCEPT !.lba2 = v]
    BY <1>5 DEF WriteReg
  <2>2. b \in ATAState
    BY <1>1, <1>5, <2>1, RegisterTypes
  <2>3. QED
    BY <2>2 DEF Holding, WriteRegister
<1>6. CASE reg = 6 /\ v \in Byte
  <2>1. b = [w.ata EXCEPT !.drvHead = v]
    BY <1>6 DEF WriteReg
  <2>2. b \in ATAState
    BY <1>1, <1>6, <2>1, RegisterTypes
  <2>3. QED
    BY <2>2 DEF Holding, WriteRegister
<1>7. CASE reg = 7
  <2>1. b = Command(w.ata, w.disk, v)
    BY <1>7 DEF WriteReg
  <2>2. b \in ATAState
    BY <1>1, <2>1, CommandIsTyped
  <2>3. QED
    BY <2>2 DEF Holding, WriteRegister
<1>8. QED
  BY <1>2, <1>3, <1>4, <1>5, <1>6, <1>7

\* So does the whole task file.
LEMMA TaskFileHolds ==
  ASSUME NEW w, Holding(w), NEW t \in Task
  PROVE  Holding(AddressRegisters(w, t)) /\ Holding(TaskFile(w, t))
<1> DEFINE r2 == WriteRegister(w, 2, t.secCount)
           r3 == WriteRegister(r2, 3, t.lba0)
           r4 == WriteRegister(r3, 4, t.lba1)
           r5 == WriteRegister(r4, 5, t.lba2)
<1>1. /\ t.secCount \in Byte /\ t.lba0 \in Byte /\ t.lba1 \in Byte /\ t.lba2 \in Byte
      /\ t.drvHead \in Byte
  BY DEF Task
<1>2. /\ AddressRegisters(w, t) = r5
      /\ TaskFile(w, t) = WriteRegister(r5, 6, t.drvHead)
  BY DEF AddressRegisters, TaskFile
<1>3. ASSUME NEW x, Holding(x), NEW reg \in 2 .. 6, NEW v \in Byte
      PROVE  Holding(WriteRegister(x, reg, v))
  <2>1. reg \in 2 .. 7
    OBVIOUS
  <2>2. QED
    BY <1>3, <2>1, RegisterWriteHolds
<1>4. 2 \in 2 .. 6 /\ 3 \in 2 .. 6 /\ 4 \in 2 .. 6 /\ 5 \in 2 .. 6 /\ 6 \in 2 .. 6
  OBVIOUS
<1>5. Holding(r2)
  BY <1>1, <1>3, <1>4
<1> HIDE DEF r2
<1>6. Holding(r3)
  BY <1>1, <1>3, <1>4, <1>5
<1> HIDE DEF r3
<1>7. Holding(r4)
  BY <1>1, <1>3, <1>4, <1>6
<1> HIDE DEF r4
<1>8. Holding(r5)
  BY <1>1, <1>3, <1>4, <1>7
<1> HIDE DEF r5
<1>9. QED
  BY <1>1, <1>2, <1>3, <1>4, <1>8

\* Device Control leaves registers of their types.
LEMMA ResetIsTyped ==
  ASSUME NEW a \in ATAState, NEW v
  PROVE  WriteDevCtl(a, v) \in ATAState
<1> DEFINE c == [a EXCEPT !.status = Ready]
           d == [c EXCEPT !.errReg = 1]
           e == [d EXCEPT !.buf = <<>>]
           f == [e EXCEPT !.bufPos = 0]
           b == [f EXCEPT !.writing = FALSE]
<1>1. WriteDevCtl(a, v) \in {a, b}
  BY DEF WriteDevCtl
<1>2. 1 \in Byte /\ 0 \in Nat /\ <<>> \in Seq(Byte) /\ FALSE \in BOOLEAN
  BY DEF Byte
<1>3. c \in ATAState
  BY StatusTypes, RegisterTypes
<1> HIDE DEF c
<1>4. d \in ATAState
  BY <1>2, <1>3, RegisterTypes
<1> HIDE DEF d
<1>5. e \in ATAState
  BY <1>2, <1>4, RegisterTypes
<1> HIDE DEF e
<1>6. f \in ATAState
  BY <1>2, <1>5, RegisterTypes
<1> HIDE DEF f
<1>7. b \in ATAState
  BY <1>2, <1>6, RegisterTypes
<1> HIDE DEF b
<1>8. QED
  BY <1>1, <1>7

\* The data port gives bytes, from the buffer or 0xFF.
LEMMA WordReadIsTyped ==
  ASSUME NEW a \in ATAState
  PROVE  AfterReadData16(a) \in ATAState /\ DataWord(a) \in Byte \X Byte
<1> DEFINE n == a.bufPos + 2
           s == IF n >= Len(a.buf) THEN a.status \ {"DRQ"} ELSE a.status
           b == [a EXCEPT !.bufPos = n]
<1>1. a.status \in SUBSET Flags /\ a.buf \in Seq(Byte) /\ a.bufPos \in Nat
  BY Fields
<1>2. AfterReadData16(a) \in {a, [b EXCEPT !.status = s]}
  BY DEF AfterReadData16
<1>3. s \in SUBSET Flags /\ n \in Nat
  BY <1>1
<1> HIDE DEF s, n
<1>4. b \in ATAState
  BY <1>3, RegisterTypes
<1> HIDE DEF b
<1>5. [b EXCEPT !.status = s] \in ATAState
  BY <1>3, <1>4, RegisterTypes
<1>6. DataWord(a) \in Byte \X Byte
  <2>1. CASE WordLeft(a)
    <3>1. a.bufPos + 1 \in 1 .. Len(a.buf) /\ a.bufPos + 2 \in 1 .. Len(a.buf)
      BY <1>1, <2>1 DEF WordLeft
    <3>2. a.buf[a.bufPos + 1] \in Byte /\ a.buf[a.bufPos + 2] \in Byte
      BY <1>1, <3>1
    <3>3. QED
      BY <2>1, <3>2 DEF DataWord
  <2>2. CASE ~WordLeft(a)
    BY <2>2 DEF DataWord, Byte
  <2>3. QED
    BY <2>1, <2>2
<1>7. QED
  BY <1>2, <1>5, <1>6

\* Storing whole sectors of bytes leaves sectors of bytes.
LEMMA StoredIsDisk ==
  ASSUME NEW d \in Disk, NEW lba \in Nat, NEW x \in Seq(Byte)
  PROVE  Stored(d, lba, x) \in Disk
<1> DEFINE k == Len(x) \div SectorSize
           t(b) == [i \in 1 .. SectorSize |-> x[(b - lba) * SectorSize + i]]
<1>1. Len(x) \in Nat /\ SectorSize \in Nat \ {0}
  BY ATAAssumption
<1>2. k \in Nat /\ k * SectorSize \in Nat /\ k * SectorSize <= Len(x)
  <2> DEFINE r == Len(x) % SectorSize
  <2>1. k \in Nat /\ r \in Nat /\ Len(x) = k * SectorSize + r
    BY <1>1
  <2> HIDE DEF k, r
  <2>2. k * SectorSize \in Nat
    BY <1>1, <2>1
  <2>3. QED
    BY <2>1, <2>2
<1>3. ASSUME NEW b \in Block, b \in lba .. lba + k - 1
      PROVE  t(b) \in Sector
  <2> DEFINE q == b - lba
  <2>1. q \in Nat /\ q + 1 <= k
    BY <1>2, <1>3 DEF Block
  <2> HIDE DEF q, k
  <2> DEFINE p == q * SectorSize
  <2>2. p \in Nat /\ p + SectorSize <= Len(x)
    <3> DEFINE e == k - (q + 1)
    <3>1. e \in Nat /\ k = e + (q + 1)
      BY <1>2, <2>1
    <3> HIDE DEF e
    <3>2. /\ (e + (q + 1)) * SectorSize = e * SectorSize + (q * SectorSize + SectorSize)
          /\ e * SectorSize \in Nat /\ q * SectorSize \in Nat
      BY <1>1, <2>1, <3>1
    <3>3. k * SectorSize = e * SectorSize + (q * SectorSize + SectorSize)
      BY <3>1, <3>2
    <3>4. QED
      BY <1>1, <1>2, <3>2, <3>3
  <2> HIDE DEF p
  <2>3. \A i \in 1 .. SectorSize : p + i \in 1 .. Len(x)
    BY <1>1, <2>2
  <2>4. \A i \in 1 .. SectorSize : x[p + i] \in Byte
    BY <2>3
  <2>5. t(b) = [i \in 1 .. SectorSize |-> x[p + i]]
    BY DEF p, q
  <2>6. QED
    BY <2>4, <2>5 DEF Sector
<1>4. Stored(d, lba, x) = [b \in Block |-> IF b \in lba .. lba + k - 1 THEN t(b) ELSE d[b]]
  BY DEF Stored
<1>5. \A b \in Block : d[b] \in Sector
  BY DEF Disk
<1> HIDE DEF t, k
<1>6. QED
  BY <1>3, <1>4, <1>5 DEF Disk

\* A word written keeps the types, also where it ends the command.
LEMMA WordWriteHolds ==
  ASSUME NEW w, Holding(w), NEW word \in Byte \X Byte
  PROVE  Holding(WriteData16(w, word))
<1> DEFINE a == w.ata
           x == a.buf
           p == a.bufPos
           n == p + 2
           y == [x EXCEPT ![p + 1] = word[1]]
           z == [y EXCEPT ![p + 2] = word[2]]
           c == [a EXCEPT !.buf = z]
           filled == [c EXCEPT !.bufPos = n]
           stores == InRange(a.writeLBA, Len(x) \div SectorSize)
           disk2 == IF stores THEN Stored(w.disk, a.writeLBA, z) ELSE w.disk
<1>1. /\ a \in ATAState /\ w.disk \in Disk /\ w.high \in Byte
      /\ w = [ata |-> a, high |-> w.high, disk |-> w.disk]
  BY DEF Holding
<1>2. x \in Seq(Byte) /\ p \in Nat /\ Len(x) \in Nat /\ a.writeLBA \in Nat
  <2>1. x \in Seq(Byte) /\ p \in Nat /\ a.writeLBA \in Nat
    BY <1>1, Fields
  <2>2. QED
    BY <2>1
<1>3. CASE ~a.writing \/ ~WordLeft(a)
  BY <1>3 DEF WriteData16
<1>4. CASE ~(~a.writing \/ ~WordLeft(a))
  <2>1. p + 1 \in 1 .. Len(x) /\ p + 2 \in 1 .. Len(x) /\ n \in Nat
    BY <1>2, <1>4 DEF WordLeft
  <2>2. word[1] \in Byte /\ word[2] \in Byte
    OBVIOUS
  <2>3. y \in Seq(Byte) /\ Len(y) = Len(x)
    BY <1>2, <2>1, <2>2
  <2>4. z \in Seq(Byte)
    <3> HIDE DEF y
    <3>1. QED
      BY <2>1, <2>2, <2>3
  <2>5. filled.buf = z /\ filled.bufPos = n
    BY <1>1 DEF ATAState
  <2>6. WriteData16(w, word) =
          IF n < Len(x) THEN [w EXCEPT !.ata = filled]
          ELSE [w EXCEPT !.ata = AfterLastWord(filled), !.disk = disk2]
    BY <1>4, <2>5 DEF WriteData16
  <2> HIDE DEF z, n
  <2>7. c \in ATAState
    BY <1>1, <2>4, RegisterTypes
  <2> HIDE DEF c
  <2>8. filled \in ATAState
    BY <2>1, <2>7, RegisterTypes
  <2> HIDE DEF filled
  <2>9. AfterLastWord(filled) \in ATAState
    <3> DEFINE f == IF InRange(filled.writeLBA, Len(filled.buf) \div SectorSize)
                    THEN [filled EXCEPT !.status = Ready] ELSE Failed(filled, 16)
    <3>1. 16 \in Byte /\ FALSE \in BOOLEAN
      BY DEF Byte
    <3>2. [filled EXCEPT !.status = Ready] \in ATAState
      BY <2>8, StatusTypes, RegisterTypes
    <3>3. Failed(filled, 16) \in ATAState
      BY <2>8, <3>1, FailedIsTyped
    <3>4. f \in ATAState
      BY <3>2, <3>3
    <3>5. AfterLastWord(filled) = [f EXCEPT !.writing = FALSE]
      BY DEF AfterLastWord
    <3> HIDE DEF f
    <3>6. QED
      BY <3>1, <3>4, <3>5, RegisterTypes
  <2>10. disk2 \in Disk
    BY <1>1, <1>2, <2>4, StoredIsDisk
  <2> DEFINE e == AfterLastWord(filled)
  <2> HIDE DEF e, disk2, a
  <2>11. Holding([w EXCEPT !.ata = filled]) /\ Holding([w EXCEPT !.ata = e, !.disk = disk2])
    BY <2>8, <2>9, <2>10 DEF Holding, e
  <2>12. QED
    BY <2>6, <2>11 DEF e
<1>5. QED
  BY <1>3, <1>4

-----------------------------------------------------------------------------
\* The types hold at power-on.
LEMMA InitContents == Init => Contents
<1> SUFFICES ASSUME Init PROVE Contents
  OBVIOUS
<1>1. ata = NewATA /\ high = 0 /\ disk = InitialDisk /\ transfer = "none"
  BY DEF Init
<1>2. 0 \in 0 .. LBASpace - 1
  BY ATAAssumption
<1>3. NewATA \in ATAState
  BY <1>2, StatusTypes DEF NewATA, ATAState, Byte
<1>4. InitialDisk \in Disk
  BY HardDiskAssumption DEF Disk
<1>5. QED
  BY <1>1, <1>3, <1>4 DEF Contents, Byte

\* Every step keeps the types.
LEMMA StepContents == IInv /\ Contents /\ [Next]_vars => Contents'
<1> SUFFICES ASSUME IInv, Contents, [Next]_vars PROVE Contents'
  OBVIOUS
<1>1. /\ Holding(World) /\ World.ata = ata /\ World.high = high /\ World.disk = disk
      /\ ata \in ATAState /\ high \in Byte /\ disk \in Disk
  BY DEF Contents, Holding, World
<1>2. ASSUME NEW x, Holding(x), Become(x), transfer' # "out" \/ Sending'
      PROVE  Contents'
  <2>1. x.ata \in ATAState /\ x.high \in Byte /\ x.disk \in Disk
    BY <1>2 DEF Holding
  <2>2. ata' = x.ata /\ high' = x.high /\ disk' = x.disk
    BY <1>2 DEF Become
  <2>3. ata' \in ATAState /\ high' \in Byte /\ disk' \in Disk
    BY <2>1, <2>2
  <2>4. QED
    BY <1>2, <2>3 DEF Contents, ATAState, Disk
<1>3. ASSUME NEW t \in Tasks, NEW cmd \in CommandBytes, Issue(t, cmd)
      PROVE  Contents'
  <2>1. t \in Task
    BY HardDiskAssumption DEF Task
  <2> DEFINE x == WriteRegister(TaskFile(World, t), 7, cmd)
  <2>2. Holding(x)
    <3>1. Holding(TaskFile(World, t)) /\ 7 \in 2 .. 7
      BY <1>1, <2>1, TaskFileHolds
    <3>2. QED
      BY <3>1, RegisterWriteHolds
  <2>3. /\ Become(x)
        /\ transfer' = "out" => expected' = <<>> /\ "DRQ" \in StatusValue(ata') /\ cmd \in WriteCommands
        /\ target' = IF StatusValue(ata') # {} /\ cmd \in ReadCommands \cup WriteCommands
                     THEN Addressed ELSE NoRange
    BY <1>3 DEF Issue
  <2> HIDE DEF x
  <2>4. Registers(ata')
    <3>1. IInv'
      BY <1>3, IssueStep
    <3>2. QED
      BY <3>1 DEF IInv, Drive
  <2>5. Addressed \in [lba : Nat, count : Nat \ {0}]
    BY <2>4, AddressIsNatural DEF Addressed
  <2>6. ASSUME transfer' = "out" PROVE Sending'
    <3>1. expected' = <<>> /\ target' = Addressed
      BY <2>3, <2>6
    <3>2. QED
      BY <2>5, <3>1 DEF Sending
  <2>7. QED
    BY <1>2, <2>2, <2>3, <2>6
<1>4. ASSUME NEW t \in Tasks, Select(t)
      PROVE  Contents'
  <2>1. t \in Task
    BY HardDiskAssumption DEF Task
  <2>2. Holding(TaskFile(World, t))
    BY <1>1, <2>1, TaskFileHolds
  <2>3. Become(TaskFile(World, t)) /\ transfer' = "none"
    BY <1>4 DEF Select
  <2>4. QED
    BY <1>2, <2>2, <2>3
<1>5. ASSUME NEW t \in Tasks, PrepareNext(t)
      PROVE  Contents'
  <2>1. t \in Task
    BY HardDiskAssumption DEF Task
  <2>2. Holding(AddressRegisters(World, t))
    BY <1>1, <2>1, TaskFileHolds
  <2>3. /\ Become(AddressRegisters(World, t)) /\ transfer' = transfer
        /\ expected' = expected /\ target' = target
    BY <1>5 DEF PrepareNext
  <2>4. QED
    BY <1>2, <2>2, <2>3 DEF Contents, Sending
<1>6. CASE Reset
  <2> DEFINE x == WriteControl(World, 4)
  <2>1. Become(x) /\ transfer' = "none"
    BY <1>6 DEF Reset
  <2>2. WriteDevCtl(ata, 4) \in ATAState
    BY <1>1, ResetIsTyped
  <2>3. Holding(x)
    BY <1>1, <2>2 DEF Holding, WriteControl
  <2> HIDE DEF x
  <2>4. QED
    BY <1>2, <2>1, <2>3
<1>7. CASE ReadLow
  <2> DEFINE x == ReadDataPort(World)
  <2>1. Become(x) /\ transfer' = "in"
    BY <1>7 DEF ReadLow
  <2>2. AfterReadData16(ata) \in ATAState /\ DataWord(ata) \in Byte \X Byte
    BY <1>1, WordReadIsTyped
  <2>3. Holding(x)
    BY <1>1, <2>2 DEF Holding, ReadDataPort
  <2> HIDE DEF x
  <2>4. QED
    BY <1>2, <2>1, <2>3
<1>8. CASE ReadHigh
  <2>1. UNCHANGED <<ata, high, disk, transfer, expected, target>>
    BY <1>8 DEF ReadHigh
  <2>2. QED
    BY <2>1 DEF Contents, Sending
<1>9. ASSUME NEW word \in WordValues, WriteHigh(word)
      PROVE  Contents'
  <2> DEFINE x == WriteLatch(World, word[2])
  <2>1. Become(x) /\ transfer = "out" /\ expected' = Append(expected, word) /\ target' = target
    BY <1>9 DEF WriteHigh
  <2>2. word \in Byte \X Byte /\ word[2] \in Byte
    BY HardDiskAssumption
  <2>3. Holding(x)
    BY <1>1, <2>2 DEF Holding, WriteLatch
  <2>4. Sending'
    BY <2>1, <2>2 DEF Contents, Sending
  <2> HIDE DEF x
  <2>5. QED
    BY <1>2, <2>1, <2>3, <2>4
<1>10. CASE WriteLow
  <2> DEFINE n == Len(expected)
             word == <<expected[n][1], high>>
             x == WriteData16(World, word)
  <2>1. Become(x) /\ transfer = "out" /\ half /\ expected' = expected /\ target' = target
    BY <1>1, <1>10 DEF WriteLow, WriteDataPort
  <2>2. Sending /\ expected \in Seq(WordValues) /\ n \in Nat
    BY <2>1 DEF Contents, Sending
  <2>3. n # 0
    <3>1. Filling
      BY <2>1 DEF IInv, Out
    <3>2. n - 1 \in Nat
      BY <2>1, <3>1 DEF Filling, Sent
    <3>3. QED
      BY <2>2, <3>2
  <2>4. expected[n] \in Byte \X Byte
    <3>1. expected[n] \in WordValues
      BY <2>2, <2>3
    <3>2. QED
      BY <3>1, HardDiskAssumption
  <2>5. word \in Byte \X Byte
    BY <1>1, <2>4
  <2> HIDE DEF word
  <2>6. Holding(x)
    BY <1>1, <2>5, WordWriteHolds
  <2> HIDE DEF x
  <2>7. Sending'
    BY <2>1, <2>2 DEF Sending
  <2>8. QED
    BY <1>2, <2>1, <2>6, <2>7
<1>11. CASE UNCHANGED vars
  BY <1>11 DEF vars, Contents, Sending
<1>12. QED
  BY <1>3, <1>4, <1>5, <1>6, <1>7, <1>8, <1>9, <1>10, <1>11 DEF Next

\* Every variable has its type: whatever the driver does, registers, buffer,
\* latch and disk hold bytes, a write never addresses more than 32 bits, and the
\* position stays in the buffer (ata.go:73-220, xtide.go:24-52).
THEOREM TypeCorrect == Spec => []TypeOK
<1>1. IInv /\ Contents /\ [Next]_vars => Contents'
  BY StepContents
<1>2. IInv /\ Contents => TypeOK
  BY DEF IInv, Contents, Drive, Disk, TypeOK
<1>3. Spec => []Contents
  BY <1>1, InitContents, Invariance, PTL DEF Spec
<1>4. QED
  BY <1>2, <1>3, Invariance, PTL
-----------------------------------------------------------------------------
(***************************************************************************)
(* The disk is an array of blocks.  Each access of the driver is a step of *)
(* BlockStore, or none: a word moves with its first access when it is      *)
(* read, and with its second one when it is written.                       *)
(***************************************************************************)
Requests == [lba : Nat, count : Nat \ {0}]

\* A function on the first numbers, with one value more.
LEMMA OneMore ==
  ASSUME NEW e, NEW n \in Nat
  PROVE  [i \in 1 .. n + 1 |-> e[i]] = Append([i \in 1 .. n |-> e[i]], e[n + 1])
<1> DEFINE s == [i \in 1 .. n |-> e[i]]
           r == Append(s, e[n + 1])
<1>1. Buffer(s) /\ Len(s) = n
  BY DEF Buffer
<1>2. \A i \in 1 .. n : s[i] = e[i]
  OBVIOUS
<1> HIDE DEF s
<1>3. /\ Buffer(r) /\ Len(r) = n + 1
      /\ \A i \in 1 .. n : r[i] = s[i]
      /\ r[n + 1] = e[n + 1]
  BY <1>1, Appended
<1> HIDE DEF r
<1>4. \A i \in 1 .. n + 1 : r[i] = e[i]
  BY <1>2, <1>3
<1>5. r = [i \in 1 .. n + 1 |-> r[i]]
  BY <1>3 DEF Buffer
<1>6. r = [i \in 1 .. n + 1 |-> e[i]]
  BY <1>4, <1>5
<1>7. QED
  BY <1>6 DEF r, s

\* The bytes of whole sectors are those of as many sectors.
LEMMA WholeSectors ==
  ASSUME NEW n \in Nat
  PROVE  (n * SectorSize) \div SectorSize = n
<1> DEFINE m == n * SectorSize
           q == m \div SectorSize
           r == m % SectorSize
<1>1. SectorSize \in Nat \ {0}
  BY ATAAssumption
<1>2. m \in Nat
  BY <1>1
<1>3. q \in Nat /\ r \in 0 .. SectorSize - 1 /\ m = q * SectorSize + r
  <2> HIDE DEF m
  <2>1. QED
    BY <1>1, <1>2
<1> HIDE DEF q, r
<1>4. ~(q < n)
  <2>1. SUFFICES ASSUME q < n PROVE FALSE
    OBVIOUS
  <2> DEFINE d == n - (q + 1)
  <2>2. d \in Nat /\ n = q + 1 + d
    BY <1>3, <2>1
  <2> HIDE DEF d
  <2>3. m = q * SectorSize + SectorSize + d * SectorSize /\ d * SectorSize \in Nat /\ q * SectorSize \in Nat
    BY <1>1, <1>3, <2>2
  <2> HIDE DEF m
  <2>4. QED
    BY <1>1, <1>3, <2>3
<1>5. ~(q > n)
  <2>1. SUFFICES ASSUME q > n PROVE FALSE
    OBVIOUS
  <2> DEFINE d == q - (n + 1)
  <2>2. d \in Nat /\ q = n + 1 + d
    BY <1>3, <2>1
  <2> HIDE DEF d
  <2>3. q * SectorSize = m + SectorSize + d * SectorSize /\ d * SectorSize \in Nat
    BY <1>1, <1>3, <2>2
  <2> HIDE DEF m
  <2>4. QED
    BY <1>1, <1>2, <1>3, <2>3
<1>6. QED
  BY <1>3, <1>4, <1>5 DEF q

\* Where the k-th byte of a range of sectors is, counted from 0.
LEMMA ByteInRange ==
  ASSUME NEW n \in Nat, NEW k \in Nat, k < n * SectorSize
  PROVE  k \div SectorSize \in 0 .. n - 1
<1> DEFINE q == k \div SectorSize
           r == k % SectorSize
<1>1. SectorSize \in Nat \ {0}
  BY ATAAssumption
<1>2. q \in Nat /\ r \in 0 .. SectorSize - 1 /\ k = q * SectorSize + r
  BY <1>1
<1> HIDE DEF q, r
<1>3. ~(q >= n)
  <2>1. SUFFICES ASSUME q >= n PROVE FALSE
    OBVIOUS
  <2> DEFINE d == q - n
  <2>2. d \in Nat /\ q = n + d
    BY <1>2, <2>1
  <2> HIDE DEF d
  <2>3. q * SectorSize = n * SectorSize + d * SectorSize /\ d * SectorSize \in Nat /\ n * SectorSize \in Nat
    BY <1>1, <2>2
  <2>4. QED
    BY <1>2, <2>3
<1>4. QED
  BY <1>2, <1>3 DEF q

\* What a read of blocks that are there brings is what they hold.
LEMMA ContentIs ==
  ASSUME NEW r \in Requests, r.lba + r.count <= Blocks
  PROVE  Words(DiskBytes(disk, r.lba, r.count)) = Medium!Content(r)
<1> DEFINE n == r.count * SectorSize
           x == DiskBytes(disk, r.lba, r.count)
<1>1. r.lba \in Nat /\ r.count \in Nat \ {0} /\ Blocks \in Nat
  BY ATAAssumption DEF Requests
<1>2. n \in Nat \ {0} /\ n % 2 = 0
  BY <1>1, WholeWords
<1>3. Buffer(x) /\ Len(x) = n
  BY <1>2, ReadBuffer
<1>4. ASSUME NEW k \in Nat, k < n
      PROVE  x[k + 1] = Medium!ByteAt(r.lba, k)
  <2> DEFINE b == r.lba + k \div SectorSize
  <2>1. k \div SectorSize \in 0 .. r.count - 1
    BY <1>1, <1>4, ByteInRange
  <2>2. b < Blocks
    BY <1>1, <2>1
  <2>3. k + 1 \in 1 .. n /\ (k + 1) - 1 = k
    BY <1>2, <1>4
  <2>4. x[k + 1] = IF b < Blocks THEN disk[b][(k % SectorSize) + 1] ELSE 0
    <3> HIDE DEF n
    <3>1. x = [i \in 1 .. n |-> LET c == r.lba + (i - 1) \div SectorSize IN
                 IF c < Blocks THEN disk[c][((i - 1) % SectorSize) + 1] ELSE 0]
      BY DEF DiskBytes, n
    <3>2. QED
      BY <2>3, <3>1
  <2> HIDE DEF x
  <2>5. QED
    BY <2>2, <2>4 DEF Medium!ByteAt
<1> DEFINE h == n \div 2
<1>5. h \in Nat /\ 2 * h = n
  BY <1>2, Halves
<1>6. Words(x) = [i \in 1 .. h |-> <<x[2 * i - 1], x[2 * i]>>]
  BY <1>3 DEF Words
<1>7. Medium!Content(r) =
        [i \in 1 .. h |-> <<Medium!ByteAt(r.lba, 2 * i - 2), Medium!ByteAt(r.lba, 2 * i - 1)>>]
  BY DEF Medium!Content
<1> HIDE DEF x, n, h
<1>8. ASSUME NEW i \in 1 .. h
      PROVE  /\ x[2 * i - 1] = Medium!ByteAt(r.lba, 2 * i - 2)
             /\ x[2 * i] = Medium!ByteAt(r.lba, 2 * i - 1)
  <2>1. /\ 2 * i - 2 \in Nat /\ 2 * i - 2 < n /\ (2 * i - 2) + 1 = 2 * i - 1
        /\ 2 * i - 1 \in Nat /\ 2 * i - 1 < n /\ (2 * i - 1) + 1 = 2 * i
    BY <1>5
  <2>2. x[(2 * i - 2) + 1] = Medium!ByteAt(r.lba, 2 * i - 2)
    BY <1>4, <2>1
  <2>3. x[(2 * i - 1) + 1] = Medium!ByteAt(r.lba, 2 * i - 1)
    BY <1>4, <2>1
  <2>4. QED
    BY <2>1, <2>2, <2>3
<1>9. Words(x) = Medium!Content(r)
  BY <1>6, <1>7, <1>8, Zenon
<1>10. QED
  BY <1>9 DEF x

\* What the last word of a write stores is the words the driver has sent.
LEMMA PutIs ==
  ASSUME NEW r \in Requests, NEW w, Len(w) \in Nat, 2 * Len(w) = r.count * SectorSize
  PROVE  Stored(disk, r.lba, Flatten(w)) = Medium!Put(r, w)
<1> DEFINE n == 2 * Len(w)
           f == Flatten(w)
           place(b, i) == (b - r.lba) * SectorSize + i
<1>1. /\ r.lba \in Nat /\ r.count \in Nat \ {0} /\ SectorSize \in Nat \ {0}
      /\ Blocks \in Nat /\ n \in Nat
  BY ATAAssumption DEF Requests
<1>2. f = [k \in 1 .. n |-> w[(k + 1) \div 2][IF k % 2 = 1 THEN 1 ELSE 2]]
  BY DEF Flatten
<1>3. Len(f) = n
  BY <1>1, <1>2
<1>4. Len(f) \div SectorSize = r.count
  BY <1>1, <1>3, WholeSectors
<1>5. ASSUME NEW k \in 1 .. n PROVE f[k] = Medium!ByteOf(w, k)
  <2>1. f[k] = w[(k + 1) \div 2][IF k % 2 = 1 THEN 1 ELSE 2]
    BY <1>2
  <2>2. (IF k % 2 = 1 THEN 1 ELSE 2) = 2 - (k % 2)
    BY <1>1
  <2>3. QED
    BY <2>1, <2>2 DEF Medium!ByteOf
<1>6. ASSUME NEW b \in r.lba .. r.lba + r.count - 1, NEW i \in 1 .. SectorSize
      PROVE  place(b, i) \in 1 .. n
  <2> DEFINE q == b - r.lba
             d == r.count - (q + 1)
  <2>1. q \in Nat /\ d \in Nat /\ r.count = q + 1 + d
    <3>1. \A l, c \in Nat : \A x \in l .. l + c - 1 :
            /\ x - l \in Nat /\ c - (x - l + 1) \in Nat
            /\ c = (x - l) + 1 + (c - (x - l + 1))
      OBVIOUS
    <3>2. QED
      BY <1>1, <3>1, Zenon
  <2> HIDE DEF q, d
  <2>2. /\ r.count * SectorSize = q * SectorSize + SectorSize + d * SectorSize
        /\ q * SectorSize \in Nat /\ d * SectorSize \in Nat
    BY <1>1, <2>1
  <2> DEFINE p == q * SectorSize
             e == d * SectorSize
  <2>3. p \in Nat /\ e \in Nat /\ n = p + SectorSize + e
    BY <2>2
  <2> HIDE DEF p, e
  <2>4. p + i \in 1 .. n
    <3> HIDE DEF n
    <3>1. QED
      BY <1>1, <2>3
  <2>5. QED
    BY <2>4 DEF p, q
<1>7. Stored(disk, r.lba, f) =
        [b \in Block |-> IF b \in r.lba .. r.lba + r.count - 1
                         THEN [i \in 1 .. SectorSize |-> f[place(b, i)]] ELSE disk[b]]
  BY <1>4 DEF Stored
<1>8. Medium!Put(r, w) =
        [b \in Block |-> IF b \in r.lba .. r.lba + r.count - 1
                         THEN [i \in 1 .. SectorSize |-> Medium!ByteOf(w, place(b, i))] ELSE disk[b]]
  BY DEF Medium!Put, Medium!Block, Block
<1>9. ASSUME NEW b \in r.lba .. r.lba + r.count - 1, NEW i \in 1 .. SectorSize
      PROVE  f[place(b, i)] = Medium!ByteOf(w, place(b, i))
  <2> HIDE DEF f, n, place
  <2>1. QED
    BY <1>5, <1>6
<1> HIDE DEF f, n, place
<1>10. Stored(disk, r.lba, f) = Medium!Put(r, w)
  BY <1>7, <1>8, <1>9, Zenon
<1>11. QED
  BY <1>10 DEF f

\* Of what is to be read, the words moved so far have been handed over; the high
\* byte of the last one may still be in the latch.
Handing ==
  /\ Len(moved) \in Nat /\ Len(expected) \in Nat /\ Len(moved) <= Len(expected)
  /\ DRQ <=> Len(moved) < Len(expected)
  /\ HandedOver = [i \in 1 .. Len(moved) |-> expected[i]]
  /\ "ERR" \notin StatusValue(ata)

\* The invariant says so.
LEMMA InHandsOver == IInv /\ transfer = "in" => Handing
<1> SUFFICES ASSUME IInv, transfer = "in" PROVE Handing
  OBVIOUS
<1>1. In /\ Drive(ata) /\ half \in BOOLEAN
  BY DEF IInv
<1>2. /\ Buffer(ata.buf) /\ Len(ata.buf) \in Nat /\ Len(ata.buf) % 2 = 0
      /\ ata.bufPos \in Nat /\ ata.bufPos <= Len(ata.buf)
  BY <1>1 DEF Drive, Registers, Buffer
<1>3. /\ Len(expected) \in Nat /\ 2 * Len(expected) = Len(ata.buf)
      /\ \A i \in 1 .. Len(expected) : expected[i] = <<ata.buf[2 * i - 1], ata.buf[2 * i]>>
  BY <1>1, <1>2, WordsOf DEF In
<1>4. Len(moved) \in Nat /\ 2 * Len(moved) = ata.bufPos
  BY <1>1 DEF In, Buffer
<1>5. Len(moved) <= Len(expected) /\ (ata.bufPos < Len(ata.buf) <=> Len(moved) < Len(expected))
  BY <1>2, <1>3, <1>4
<1>6. /\ DRQ <=> ata.bufPos < Len(ata.buf)
      /\ "ERR" \notin StatusValue(ata)
  BY <1>1 DEF In, DRQ, StatusValue
<1>7. ASSUME NEW i \in 1 .. Len(moved)
      PROVE  (IF half /\ i = Len(moved) THEN Append(moved[i], high) ELSE moved[i]) = expected[i]
  <2>1. moved[i] = IF half /\ i = Len(moved) THEN <<expected[i][1]>> ELSE expected[i]
    BY <1>1 DEF In
  <2>2. expected[i] = <<expected[i][1], expected[i][2]>>
    <3>1. i \in 1 .. Len(expected)
      BY <1>3, <1>4, <1>5
    <3>2. QED
      BY <1>3, <3>1
  <2>3. CASE half /\ i = Len(moved)
    <3>1. high = expected[i][2]
      BY <1>1, <2>3 DEF In
    <3>2. Append(moved[i], high) = <<expected[i][1], expected[i][2]>>
      <4>1. ASSUME NEW x, NEW y PROVE Append(<<x>>, y) = <<x, y>>
        <5> DEFINE a == Append(<<x>>, y)
        <5>1. Buffer(<<x>>) /\ Len(<<x>>) = 1
          BY DEF Buffer
        <5>2. Buffer(a) /\ Len(a) = 2 /\ a[1] = x /\ a[2] = y
          BY <5>1, Appended
        <5> HIDE DEF a
        <5>3. a = [k \in 1 .. 2 |-> IF k = 1 THEN x ELSE y]
          BY <5>2 DEF Buffer
        <5>4. <<x, y>> = [k \in 1 .. 2 |-> IF k = 1 THEN x ELSE y]
          OBVIOUS
        <5>5. QED
          BY <5>3, <5>4 DEF a
      <4>2. moved[i] = <<expected[i][1]>>
        BY <2>1, <2>3
      <4>3. QED
        BY <3>1, <4>1, <4>2, Zenon
    <3>3. QED
      BY <2>2, <2>3, <3>2
  <2>4. CASE ~(half /\ i = Len(moved))
    BY <2>1, <2>4
  <2>5. QED
    BY <2>3, <2>4
<1>8. HandedOver = [i \in 1 .. Len(moved) |-> expected[i]]
  BY <1>7, Zenon DEF HandedOver
<1>9. QED
  BY <1>3, <1>4, <1>5, <1>6, <1>8 DEF Handing

\* And after a step.
LEMMA InHandsOverThen == (IInv /\ transfer = "in" => Handing)'
  BY InHandsOver, PTL

\* A transfer given up.
LEMMA GivesUp ==
  ASSUME transfer' = "none", target' = NoRange, moved' = <<>>, disk' = disk
  PROVE  Medium!Next
<1>1. State' = "idle" /\ Due' = <<>>
  BY DEF State, Due
<1>2. HandedOver' = <<>>
  BY DEF HandedOver
<1>3. Medium!GiveUp
  BY <1>1, <1>2 DEF Medium!GiveUp, Medium!NoRange, NoRange
<1>4. QED
  BY <1>3 DEF Medium!Next

\* A command asks for a read or a write, or gives up what is under way.
LEMMA IssueMaps ==
  ASSUME IInv, NEW t \in Tasks, NEW cmd \in CommandBytes, Issue(t, cmd)
  PROVE  Medium!Next
<1>1. PICK a : Drive(a) /\ ata' = Command(a, disk, cmd) /\ disk' = disk
  BY IssueCommands
<1>2. /\ Registers(ata') /\ Present(ata') = Present(a)
      /\ "DRQ" \in ata'.status /\ cmd \notin WriteCommands => cmd \in {Identify} \cup ReadCommands
  <2>1. Drive(ata') /\ SameAddress(ata', a)
    BY <1>1, CommandKeeps
  <2>2. "DRQ" \in ata'.status /\ cmd \notin WriteCommands => cmd \in {Identify} \cup ReadCommands
    BY <1>1, CommandKeeps
  <2>3. QED
    BY <2>1, <2>2, SameBlocks DEF Drive
<1>3. /\ half' = FALSE /\ moved' = <<>> /\ disk = store
      /\ transfer' = IF "DRQ" \notin StatusValue(ata') THEN "none"
                     ELSE IF cmd \in WriteCommands THEN "out" ELSE "in"
      /\ expected' = IF transfer' = "in" THEN DriverReads(cmd) ELSE <<>>
      /\ target' = IF StatusValue(ata') # {} /\ cmd \in ReadCommands \cup WriteCommands
                   THEN Addressed ELSE NoRange
  BY DEF Issue, Breaks, IInv
<1>4. HandedOver' = <<>> /\ (transfer' = "out" => Taken' = <<>>)
  BY <1>3 DEF HandedOver, Taken
<1>5. /\ Addressed \in Requests /\ Addressed # NoRange
      /\ Addressed.lba = CurrentLBA(ata') /\ Addressed.count = SectorCount(ata')
  BY <1>2, AddressIsNatural DEF Addressed, Requests, NoRange
<1>6. Requests = Medium!Range /\ NoRange = Medium!NoRange
  BY DEF Requests, Medium!Range, NoRange, Medium!NoRange
<1>7. DRQ' <=> "DRQ" \in StatusValue(ata')
  BY DEF DRQ
<1>8. CASE ~Present(ata')
  <2>1. StatusValue(ata') = {}
    BY <1>8 DEF StatusValue
  <2>2. transfer' = "none" /\ target' = NoRange
    BY <1>3, <2>1
  <2>3. QED
    BY <1>1, <1>3, <2>2, GivesUp
<1>9. CASE Present(ata') /\ cmd \in ReadCommands
  <2>1. StatusValue(ata') = ata'.status /\ cmd # Identify /\ cmd \notin WriteCommands
    BY <1>9 DEF StatusValue, Identify, ReadCommands, WriteCommands
  <2>2. IF CurrentLBA(ata') + SectorCount(ata') <= Blocks THEN "DRQ" \in ata'.status
        ELSE ata'.status = Ready \cup {"ERR"}
    BY <1>1, <1>2, <1>9, CommandAnswers
  <2>3. target' = Addressed
    BY <1>3, <1>9, <2>1, <2>2 DEF Ready
  <2>4. CASE Addressed.lba + Addressed.count <= Blocks
    <3>1. "DRQ" \in StatusValue(ata') /\ transfer' = "in"
      BY <1>3, <1>5, <2>1, <2>2, <2>4
    <3>2. expected' = Words(DiskBytes(disk, Addressed.lba, Addressed.count))
      BY <1>3, <1>9, <2>1, <2>4, <3>1 DEF DriverReads, OnDisk
    <3>3. Due' = Medium!Content(target')
      BY <1>5, <2>3, <2>4, <3>1, <3>2, ContentIs DEF Due
    <3>4. State' = "reading"
      BY <1>7, <3>1 DEF State
    <3>5. Medium!Read
      BY <1>1, <1>4, <1>5, <1>6, <2>3, <2>4, <3>1, <3>3, <3>4 DEF Medium!Read, Medium!IsThere
    <3>6. QED
      BY <3>5 DEF Medium!Next
  <2>5. CASE ~(Addressed.lba + Addressed.count <= Blocks)
    <3>1. StatusValue(ata') = Ready \cup {"ERR"}
      BY <1>5, <2>1, <2>2, <2>5
    <3>2. transfer' = "none" /\ "ERR" \in StatusValue(ata')
      BY <1>3, <3>1 DEF Ready
    <3>3. Due' = <<>>
      BY <3>2 DEF Due
    <3>4. State' = "failed"
      BY <1>5, <2>3, <3>2 DEF State
    <3>5. Medium!Read
      BY <1>1, <1>4, <1>5, <1>6, <2>3, <2>5, <3>2, <3>3, <3>4 DEF Medium!Read, Medium!IsThere
    <3>6. QED
      BY <3>5 DEF Medium!Next
  <2>6. QED
    BY <2>4, <2>5
<1>10. CASE Present(ata') /\ cmd \in WriteCommands
  <2>1. StatusValue(ata') = ata'.status /\ "DRQ" \in ata'.status
    BY <1>1, <1>2, <1>10, CommandAnswers DEF StatusValue
  <2>2. transfer' = "out" /\ target' = Addressed
    BY <1>3, <1>10, <2>1
  <2>3. State' = "writing" /\ Due' = <<>>
    BY <1>7, <2>1, <2>2 DEF State, Due
  <2>4. Medium!Write
    BY <1>1, <1>4, <1>5, <1>6, <2>2, <2>3 DEF Medium!Write
  <2>5. QED
    BY <2>4 DEF Medium!Next
<1>11. CASE Present(ata') /\ cmd = Identify /\ "DRQ" \in ata'.status
  <2>1. StatusValue(ata') = ata'.status /\ cmd \notin ReadCommands \cup WriteCommands
    BY <1>11 DEF StatusValue, Identify, ReadCommands, WriteCommands
  <2>2. transfer' = "in" /\ target' = NoRange
    BY <1>3, <1>11, <2>1
  <2>3. Due' = Words(IdentifyBlock)
    BY <1>3, <1>11, <2>1, <2>2 DEF Due, DriverReads
  <2>4. State' = "reading"
    BY <1>7, <1>11, <2>1, <2>2 DEF State
  <2>5. Medium!Identify
    BY <1>1, <1>4, <1>6, <2>2, <2>3, <2>4 DEF Medium!Identify
  <2>6. QED
    BY <2>5 DEF Medium!Next
<1>12. CASE /\ Present(ata') /\ cmd \notin ReadCommands \cup WriteCommands
            /\ ~(cmd = Identify /\ "DRQ" \in ata'.status)
  <2>1. "DRQ" \notin StatusValue(ata')
    BY <1>2, <1>12 DEF StatusValue
  <2>2. transfer' = "none" /\ target' = NoRange
    BY <1>3, <1>12, <2>1
  <2>3. QED
    BY <1>1, <1>3, <2>2, GivesUp
<1>13. QED
  BY <1>8, <1>9, <1>10, <1>11, <1>12

\* The low byte of a word in hands the word over.
LEMMA ReadLowMaps ==
  ASSUME IInv, IInv', ReadLow
  PROVE  Medium!Next
<1> DEFINE n == Len(moved)
<1>1. /\ transfer = "in" /\ transfer' = "in" /\ DRQ
      /\ expected' = expected /\ target' = target /\ disk' = disk
  BY DEF ReadLow, Become, ReadDataPort, World
<1>2. Handing /\ Handing'
  BY <1>1, InHandsOver, InHandsOverThen
<1>3. n \in Nat /\ n < Len(expected) /\ HandedOver = [i \in 1 .. n |-> expected[i]]
  BY <1>1, <1>2 DEF Handing
<1>4. Buffer(moved)
  BY <1>1 DEF IInv, In
<1>5. Len(moved') = n + 1
  <2>1. moved' = Append(moved, <<DataPortValue(World)>>)
    BY DEF ReadLow
  <2>2. QED
    BY <1>4, <2>1, Appended
<1>6. HandedOver' = [i \in 1 .. n + 1 |-> expected[i]]
  BY <1>1, <1>2, <1>5 DEF Handing
<1>7. HandedOver' = Append(HandedOver, expected[n + 1])
  BY <1>3, <1>6, OneMore
<1>8. Len(HandedOver) = n /\ Len(HandedOver') = n + 1
  BY <1>3, <1>6
<1>9. DRQ' <=> n + 1 < Len(expected)
  BY <1>1, <1>2, <1>5 DEF Handing
<1>10. Due = expected /\ Due' = expected
  BY <1>1 DEF Due
<1>11. State = "reading"
  BY <1>1 DEF State
<1>12. State' = IF DRQ' THEN "reading" ELSE "done"
  BY <1>1, <1>2 DEF State, Handing
<1> HIDE DEF n
<1>13. State' = IF Len(HandedOver') = Len(Due) THEN "done" ELSE "reading"
  BY <1>2, <1>3, <1>8, <1>9, <1>10, <1>12 DEF Handing
<1>14. Medium!HandOver
  BY <1>1, <1>7, <1>8, <1>10, <1>11, <1>13 DEF Medium!HandOver
<1>15. QED
  BY <1>14 DEF Medium!Next

\* The rest of a word in, and the address of the next command, are no steps; nor
\* is the high byte of a word out.
LEMMA Stutters ==
  ASSUME IInv, IInv', Contents,
         ReadHigh \/ (\E t \in Tasks : PrepareNext(t)) \/ (\E word \in WordValues : WriteHigh(word))
  PROVE  UNCHANGED Medium!vars
<1>1. ASSUME UNCHANGED <<disk, target, transfer>>, StatusValue(ata') = StatusValue(ata), Due' = Due,
             transfer = "out" => Taken' = Taken, transfer # "out" => HandedOver' = HandedOver
      PROVE  UNCHANGED Medium!vars
  <2>1. State' = State
    BY <1>1 DEF State, DRQ
  <2>2. QED
    BY <1>1, <2>1 DEF Medium!vars
<1>2. CASE ReadHigh
  <2>1. /\ UNCHANGED <<ata, disk, target, transfer, expected>>
        /\ transfer = "in" /\ transfer' = "in" /\ half
        /\ moved' = [moved EXCEPT ![Len(moved)] = Append(@, high)]
    BY <1>2 DEF ReadHigh
  <2>2. Handing /\ Handing'
    BY <2>1, InHandsOver, InHandsOverThen
  <2>3. Len(moved') = Len(moved)
    <3>1. Buffer(moved) /\ Buffer(moved')
      BY <2>1 DEF IInv, In
    <3>2. DOMAIN moved' = DOMAIN moved
      BY <2>1
    <3>3. 1 .. Len(moved') = 1 .. Len(moved) /\ Len(moved) \in Nat /\ Len(moved') \in Nat
      BY <3>1, <3>2, Zenon DEF Buffer
    <3>4. QED
      BY <3>3
  <2>4. HandedOver' = HandedOver
    BY <2>1, <2>2, <2>3 DEF Handing
  <2>5. QED
    BY <1>1, <2>1, <2>4 DEF Due
<1>3. ASSUME NEW t \in Tasks, PrepareNext(t)
      PROVE  UNCHANGED Medium!vars
  <2> DEFINE r == AddressRegisters(World, t)
  <2>1. t \in Task
    BY HardDiskAssumption DEF Task
  <2>2. SameData(r, World) /\ r.ata.drvHead = World.ata.drvHead
    BY <2>1, TheWorld, AddressRegistersKeep DEF IInv, Drive
  <2>3. ata' = r.ata /\ disk' = r.disk /\ high' = r.high
    BY <1>3 DEF PrepareNext, Become
  <2> HIDE DEF r
  <2>4. ata'.status = ata.status /\ ata'.drvHead = ata.drvHead /\ disk' = disk /\ high' = high
    BY <2>2, <2>3, TheWorld DEF SameData
  <2>5. StatusValue(ata') = StatusValue(ata)
    BY <2>4 DEF StatusValue, Present
  <2>6. UNCHANGED <<target, transfer, expected, moved, half>>
    BY <1>3 DEF PrepareNext
  <2>7. Taken' = Taken /\ HandedOver' = HandedOver /\ Due' = Due
    BY <2>4, <2>6 DEF Taken, HandedOver, Due
  <2>8. QED
    BY <1>1, <2>4, <2>5, <2>6, <2>7
<1>4. ASSUME NEW word \in WordValues, WriteHigh(word)
      PROVE  UNCHANGED Medium!vars
  <2>1. /\ UNCHANGED <<ata, disk, target, transfer>> /\ transfer = "out" /\ ~half
        /\ expected' = Append(expected, word) /\ half' = TRUE
    BY <1>4 DEF WriteHigh, Become, WriteLatch, World
  <2>2. expected \in Seq(WordValues)
    BY <2>1 DEF Contents, Sending
  <2>3. Len(expected') = Len(expected) + 1 /\ SubSeq(expected', 1, Len(expected)) = expected
    BY <2>1, <2>2
  <2>4. Len(expected) \in Nat /\ (Len(expected) + 1) - 1 = Len(expected)
    BY <2>2
  <2>5. Taken' = Taken
    BY <2>1, <2>3, <2>4 DEF Taken
  <2>6. Due' = Due
    BY <2>1 DEF Due
  <2>7. QED
    BY <1>1, <2>1, <2>5, <2>6
<1>5. QED
  BY <1>2, <1>3, <1>4

\* What the drive answers to a word: it asks for the next one, or has stored them
\* all, or says that they do not fit.
LEMMA WordIsAnswered ==
  ASSUME IInv, WriteLow
  PROVE  /\ "DRQ" \in StatusValue(ata)
         /\ \/ "DRQ" \in StatusValue(ata') /\ disk' = disk
            \/ /\ StatusValue(ata') = Ready
               /\ InRange(target.lba, (target.count * SectorSize) \div SectorSize)
            \/ /\ StatusValue(ata') = Ready \cup {"ERR"} /\ disk' = disk
               /\ ~InRange(target.lba, (target.count * SectorSize) \div SectorSize)
<1> DEFINE w == World
           word == <<expected[Len(expected)][1], high>>
           x == WriteData16(w, word)
<1>1. WorldOf(w) /\ w.ata = ata /\ w.disk = disk
  BY TheWorld
<1>2. Out /\ half /\ Drive(ata)
  BY DEF WriteLow, IInv
<1>3. /\ "DRQ" \in ata.status /\ Present(ata) /\ ata.writing /\ ata.writeLBA = target.lba
      /\ Len(ata.buf) = target.count * SectorSize
  BY <1>2 DEF Out, Filling
<1>4. ata' = x.ata /\ disk' = x.disk
  BY DEF WriteLow, Become, WriteDataPort, World
<1> HIDE DEF w, word
<1>5. /\ SameAddress(x.ata, ata)
      /\ \/ "DRQ" \in x.ata.status /\ x.disk = disk
         \/ /\ x.ata.status = Ready
            /\ InRange(ata.writeLBA, Len(ata.buf) \div SectorSize)
         \/ /\ x.ata.status = Ready \cup {"ERR"} /\ x.disk = disk
            /\ ~InRange(ata.writeLBA, Len(ata.buf) \div SectorSize)
  BY <1>1, <1>2, <1>3, WriteMoves
<1> HIDE DEF x
<1>6. Present(ata') /\ StatusValue(ata') = ata'.status /\ StatusValue(ata) = ata.status
  BY <1>3, <1>4, <1>5, SameBlocks DEF StatusValue
<1>7. QED
  BY <1>3, <1>4, <1>5, <1>6

\* The counts agree after a step, too.
LEMMA SameCountThen == (IInv => PhaseEndsOnTime)'
  BY SameCount, PTL

\* With its low byte a word is taken, and with the last word all of them.
LEMMA WriteLowMaps ==
  ASSUME IInv, IInv', Contents, WriteLow
  PROVE  Medium!Next
<1> DEFINE n == Len(expected)
<1>1. /\ transfer = "out" /\ half /\ half' = FALSE /\ UNCHANGED <<transfer, expected, moved, target>>
      /\ store' = IF {"DRQ", "ERR"} \cap StatusValue(ata') = {}
                  THEN Stored(store, target.lba, Flatten(expected)) ELSE store
      /\ disk = store /\ disk' = store'
  BY DEF WriteLow, IInv
<1>2. expected \in Seq(WordValues) /\ target \in Requests /\ n \in Nat
  BY <1>1 DEF Contents, Sending, Requests
<1>3. n # 0
  <2>1. "DRQ" \in ata.status
    BY <1>1 DEF IInv, Out
  <2>2. n - 1 \in Nat
    BY <1>1, <2>1 DEF IInv, Out, Filling, Sent
  <2>3. QED
    BY <1>2, <2>2
<1>4. expected[n] \in WordValues /\ Taken' = Append(Taken, expected[n])
  <2> DEFINE e == expected
             f == SubSeq(e, 1, n - 1)
  <2>1. e \in Seq(WordValues) /\ Len(e) = n /\ n - 1 \in Nat /\ n - 1 <= n /\ (n - 1) + 1 = n
    BY <1>2, <1>3
  <2> HIDE DEF n, e
  <2>2. f = [i \in 1 .. n - 1 |-> e[i]] /\ e = [i \in 1 .. n |-> e[i]]
    <3>1. f \in Seq(WordValues) /\ Len(f) = n - 1 /\ \A i \in 1 .. n - 1 : f[i] = e[i]
      BY <2>1, SubSeqProperties
    <3> HIDE DEF f
    <3>2. QED
      BY <2>1, <3>1
  <2>3. e = Append(f, e[n])
    <3>1. [i \in 1 .. (n - 1) + 1 |-> e[i]] = Append([i \in 1 .. n - 1 |-> e[i]], e[(n - 1) + 1])
      BY <2>1, OneMore
    <3> HIDE DEF f
    <3>2. QED
      BY <2>1, <2>2, <3>1, Zenon
  <2>4. e[n] \in WordValues
    BY <1>2, <1>3, <2>1
  <2>5. QED
    BY <1>1, <2>3, <2>4 DEF Taken, n, e
<1>5. Taken' = expected
  BY <1>1 DEF Taken
<1>6. DRQ' <=> 2 * n < target.count * SectorSize
  BY <1>1, SameCountThen DEF PhaseEndsOnTime
<1>7. ~DRQ' => 2 * n = target.count * SectorSize
  <2>1. Out'
    BY <1>1 DEF IInv
  <2>2. Present(ata') /\ Len(ata'.buf) = target.count * SectorSize
        /\ ("DRQ" \notin ata'.status => 2 * n = Len(ata'.buf))
    BY <1>1, <2>1 DEF Out
  <2>3. QED
    BY <2>2 DEF DRQ, StatusValue
<1>8. InRange(target.lba, (target.count * SectorSize) \div SectorSize)
        <=> target.lba + target.count <= Blocks
  <2>1. target.lba \in Nat /\ target.count \in Nat \ {0}
    BY <1>2 DEF Requests
  <2>2. QED
    BY <2>1, WholeSectors, RangeAccepted
<1>9. /\ "DRQ" \in StatusValue(ata)
      /\ \/ "DRQ" \in StatusValue(ata') /\ disk' = disk
         \/ StatusValue(ata') = Ready /\ target.lba + target.count <= Blocks
         \/ /\ StatusValue(ata') = Ready \cup {"ERR"} /\ disk' = disk
            /\ ~(target.lba + target.count <= Blocks)
  BY <1>8, WordIsAnswered
<1>10. State = "writing" /\ Due' = Due
  BY <1>1, <1>9 DEF State, Due, DRQ
<1> HIDE DEF n
<1>11. SUFFICES Medium!Take(expected[n])
  BY <1>4 DEF Medium!Next
<1>12. CASE "DRQ" \in StatusValue(ata') /\ disk' = disk
  <2>1. State' = "writing" /\ DRQ'
    BY <1>1, <1>12 DEF State, DRQ
  <2>2. 2 * Len(Taken') < target.count * SectorSize
    BY <1>5, <1>6, <2>1 DEF n
  <2>3. QED
    BY <1>1, <1>4, <1>10, <1>12, <2>1, <2>2 DEF Medium!Take
<1>13. CASE StatusValue(ata') = Ready /\ target.lba + target.count <= Blocks
  <2>1. State' = "done" /\ ~DRQ'
    BY <1>1, <1>13 DEF State, DRQ, Ready
  <2>2. 2 * Len(Taken') = target.count * SectorSize
    BY <1>5, <1>7, <2>1 DEF n
  <2>3. disk' = Stored(disk, target.lba, Flatten(Taken'))
    BY <1>1, <1>5, <1>13 DEF Ready
  <2>4. disk' = Medium!Put(target, Taken')
    <3>1. Len(Taken') \in Nat
      BY <1>2, <1>5 DEF n
    <3>2. QED
      BY <1>2, <2>2, <2>3, <3>1, PutIs
  <2>5. ~(2 * Len(Taken') < target.count * SectorSize)
    BY <1>5, <1>6, <2>1 DEF n
  <2>6. QED
    BY <1>1, <1>4, <1>10, <1>13, <2>1, <2>4, <2>5 DEF Medium!Take, Medium!IsThere
<1>14. CASE /\ StatusValue(ata') = Ready \cup {"ERR"} /\ disk' = disk
            /\ ~(target.lba + target.count <= Blocks)
  <2>1. State' = "failed" /\ ~DRQ'
    BY <1>1, <1>14 DEF State, DRQ, Ready
  <2>2. ~(2 * Len(Taken') < target.count * SectorSize)
    BY <1>5, <1>6, <2>1 DEF n
  <2>3. QED
    BY <1>1, <1>4, <1>10, <1>14, <2>1, <2>2 DEF Medium!Take, Medium!IsThere
<1>15. QED
  BY <1>9, <1>12, <1>13, <1>14

\* At power-on nothing is asked for.
LEMMA InitMaps == Init => Medium!Init
<1> SUFFICES ASSUME Init PROVE Medium!Init
  OBVIOUS
<1>1. transfer = "none" /\ target = NoRange /\ moved = <<>> /\ disk = InitialDisk
  BY DEF Init
<1>2. State = "idle" /\ Due = <<>>
  BY <1>1 DEF State, Due
<1>3. HandedOver = <<>>
  BY <1>1 DEF HandedOver
<1>4. QED
  BY <1>1, <1>2, <1>3 DEF Medium!Init, Medium!NoRange, NoRange

\* Every step of the driver is one of the array of blocks, or none.
LEMMA StepMaps == IInv /\ IInv' /\ Contents /\ [Next]_vars => [Medium!Next]_(Medium!vars)
<1> SUFFICES ASSUME IInv, IInv', Contents, [Next]_vars PROVE [Medium!Next]_(Medium!vars)
  OBVIOUS
<1>1. ASSUME NEW t \in Tasks, NEW cmd \in CommandBytes, Issue(t, cmd) PROVE Medium!Next
  BY <1>1, IssueMaps
<1>2. ASSUME NEW t \in Tasks, Select(t) PROVE Medium!Next
  <2> DEFINE r == TaskFile(World, t)
  <2>1. t \in Task
    BY HardDiskAssumption DEF Task
  <2>2. SameData(r, World)
    BY <2>1, TheWorld, TaskFileKeeps DEF IInv, Drive
  <2>3. disk' = r.disk /\ transfer' = "none" /\ target' = NoRange /\ moved' = <<>>
    BY <1>2 DEF Select, Become, Breaks
  <2> HIDE DEF r
  <2>4. disk' = disk
    BY <2>2, <2>3, TheWorld DEF SameData
  <2>5. QED
    BY <2>3, <2>4, GivesUp
<1>3. CASE Reset
  <2>1. disk' = disk /\ transfer' = "none" /\ target' = NoRange /\ moved' = <<>>
    BY <1>3 DEF Reset, Become, Breaks, WriteControl, World
  <2>2. QED
    BY <2>1, GivesUp
<1>4. CASE ReadHigh \/ (\E t \in Tasks : PrepareNext(t)) \/ (\E word \in WordValues : WriteHigh(word))
  BY <1>4, Stutters
<1>5. CASE ReadLow
  BY <1>5, ReadLowMaps
<1>6. CASE WriteLow
  BY <1>6, WriteLowMaps
<1>7. CASE UNCHANGED vars
  <2>1. UNCHANGED <<ata, high, disk, transfer, target, expected, moved, half>>
    BY <1>7 DEF vars
  <2>2. State' = State /\ Due' = Due /\ HandedOver' = HandedOver /\ Taken' = Taken
    BY <2>1 DEF State, Due, HandedOver, Taken, DRQ
  <2>3. QED
    BY <2>1, <2>2 DEF Medium!vars
<1>8. QED
  BY <1>1, <1>2, <1>3, <1>4, <1>5, <1>6, <1>7 DEF Next

\* The disk behind the card implements an array of blocks, for every size of the
\* disk and of its sectors, every geometry and every order of commands (Command,
\* ata.go:152-220; ReadData16 and WriteData16, ata.go:103-140; ReadLBA and
\* WriteLBA, harddisk.go:52-71).
THEOREM Refinement == Spec => ImplementsBlockStore
<1>1. IInv /\ Contents /\ [Next]_vars => Contents'
  BY StepContents
<1>2. Spec => [](IInv /\ Contents)
  BY <1>1, InitContents, Invariance, PTL DEF Spec
<1>3. IInv /\ Contents /\ [Next]_vars => [Medium!Next]_(Medium!vars)
  BY StepIInv, StepMaps
<1>4. Spec => Medium!Init /\ [][Medium!Next]_(Medium!vars)
  BY <1>2, <1>3, InitMaps, PTL DEF Spec
<1>5. QED
  BY <1>4 DEF ImplementsBlockStore, Medium!Spec
=============================================================================
