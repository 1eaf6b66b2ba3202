------------------------------ MODULE PICProofs ------------------------------
(***************************************************************************)
(* Theorems about the 8259 for every number of lines up to eight and every *)
(* set of bytes the host may write.                                        *)
(*                                                                         *)
(* The inductive invariant is the conjunction of the invariants of         *)
(* PICService with two strengthenings:                                     *)
(*   - CleanInit: within an initialization sequence that no INTA cycle has *)
(*     disturbed nothing is in service, so that the ICW4 that switches     *)
(*     Auto-EOI on finds an empty in-service register;                     *)
(*   - BaseAligned: the vector base is a multiple of eight, which is what  *)
(*     makes base + line name the line.                                    *)
(***************************************************************************)
EXTENDS PICService, TLAPS

CleanInit == pic.initStep # 0 /\ ~dirtyInit => pic.isr = {}

BaseAligned == pic.base % 8 = 0 /\ pic.base <= 248

IInv ==
  /\ TypeOK
  /\ NestingFollowsPriority
  /\ AutoEOINeverBlocks
  /\ CleanInit
  /\ BaseAligned

-----------------------------------------------------------------------------
\* The bits of a byte register name lines of the chip.
LEMMA BitSetOfLines == ASSUME NEW v PROVE BitSet(v, NumLines) \in SUBSET Line
BY DEF BitSet, Line

\* Every state of the initial predicate satisfies the invariant.
LEMMA InitIInv == ServiceInit => IInv
<1> SUFFICES ASSUME ServiceInit PROVE IInv
  OBVIOUS
<1> USE PICAssumption
<1>1. pic = NewPIC /\ above = {} /\ dirtyInit = FALSE
  BY DEF ServiceInit, Init
<1>2. TypeOK
  <2>1. NewPIC \in PICState
    BY DEF NewPIC, PICState, Byte, InitSteps
  <2>. QED  BY <1>1, <2>1 DEF TypeOK
<1>3. NestingFollowsPriority /\ AutoEOINeverBlocks /\ CleanInit /\ BaseAligned
  BY <1>1 DEF NestingFollowsPriority, AutoEOINeverBlocks, CleanInit, BaseAligned, NewPIC
<1>. QED  BY <1>2, <1>3 DEF IInv

\* A request line going up changes nothing but irr.
LEMMA RaiseIInv ==
  ASSUME IInv, NEW line \in Line, ServiceRaise(line) PROVE IInv'
<1>1. /\ pic \in PICState /\ pic' = [pic EXCEPT !.irr = @ \cup ({line} \cap Line)]
      /\ above' = above /\ dirtyInit' = dirtyInit
  BY DEF IInv, TypeOK, ServiceRaise, Raise, RaiseIRQ
<1>2. pic' \in PICState
  BY <1>1 DEF PICState
<1>3. UNCHANGED <<pic.isr, pic.base, pic.autoEOI, pic.initStep>>
  BY <1>1 DEF PICState
<1>. QED
  BY <1>1, <1>2, <1>3
  DEF IInv, TypeOK, NestingFollowsPriority, AutoEOINeverBlocks, CleanInit, BaseAligned

\* The line the controller offers is above every line in service.
LEMMA OfferedLine ==
  ASSUME pic \in PICState, NEW l \in HighestPending(pic)
  PROVE  l \in Line /\ \A k \in pic.isr : l < k
BY DEF HighestPending, Highest, PICState

\* It is unique.
LEMMA OfferedLineUnique ==
  ASSUME pic \in PICState, NEW l \in HighestPending(pic), NEW k \in HighestPending(pic)
  PROVE  l = k
BY DEF HighestPending, Highest, PICState, Line

\* The INTA cycle opens at most one service, above every open one.
LEMMA INTAIInv == ASSUME IInv, ServiceINTA PROVE IInv'
<1> DEFINE offered == HighestPending(pic)
<1>1. /\ pic \in PICState
      /\ pic' = [pic EXCEPT !.irr = @ \ offered,
                            !.isr = IF pic.autoEOI THEN @ ELSE @ \cup offered]
      /\ above' = above \cup ((pic'.isr \ pic.isr) \X pic.isr)
      /\ dirtyInit' = (dirtyInit \/ pic.initStep # 0)
  BY DEF IInv, TypeOK, ServiceINTA, INTA, Acknowledge
<1>2. offered \subseteq Line
  BY <1>1, OfferedLine
<1> HIDE DEF offered
<1>3. /\ pic'.isr = IF pic.autoEOI THEN pic.isr ELSE pic.isr \cup offered
      /\ UNCHANGED <<pic.base, pic.autoEOI, pic.initStep>>
  BY <1>1 DEF PICState
<1>4. pic' \in PICState
  BY <1>1, <1>2 DEF PICState
<1>5. TypeOK'
  <2>1. pic.isr \subseteq Line /\ pic'.isr \subseteq Line
    BY <1>1, <1>4 DEF PICState
  <2>2. above' \subseteq Line \X Line
    BY <1>1, <2>1 DEF IInv, TypeOK
  <2>3. dirtyInit' \in BOOLEAN
    BY <1>1
  <2>. QED  BY <1>4, <2>2, <2>3 DEF TypeOK
<1>6. NestingFollowsPriority'
  <2>1. above = {pair \in pic.isr \X pic.isr : pair[1] < pair[2]}
    BY DEF IInv, NestingFollowsPriority
  <2>2. \A l \in offered : \A k \in pic.isr : l < k /\ ~(k < l)
    BY <1>1, OfferedLine DEF offered, PICState, Line
  <2>3. \A l, k \in offered : ~(l < k)
    BY <1>1, <1>2, OfferedLineUnique DEF offered, Line
  <2>4. \A l \in offered : l \notin pic.isr
    BY <2>2
  <2>5. CASE pic.autoEOI
    BY <2>5, <1>1, <1>3, <2>1 DEF NestingFollowsPriority
  <2>6. CASE ~pic.autoEOI
    <3>1. pic'.isr = pic.isr \cup offered /\ above' = above \cup (offered \X pic.isr)
      BY <2>6, <1>1, <1>3, <2>4
    <3>. QED  BY <3>1, <2>1, <2>2, <2>3 DEF NestingFollowsPriority
  <2>. QED  BY <2>5, <2>6
<1>7. AutoEOINeverBlocks'
  BY <1>1, <1>3 DEF IInv, AutoEOINeverBlocks, TypeOK
<1>8. CleanInit'
  BY <1>1, <1>3 DEF IInv, TypeOK, CleanInit
<1>9. BaseAligned'
  BY <1>3 DEF IInv, BaseAligned
<1>. QED  BY <1>5, <1>6, <1>7, <1>8, <1>9 DEF IInv

\* ICW1 empties the in-service register and with it the history.
LEMMA ICW1IInv ==
  ASSUME IInv, NEW v \in CommandBytes, ServiceICW1(v) PROVE IInv'
<1>1. /\ pic \in PICState /\ pic' = BeginInit(pic, v)
      /\ above' = {} /\ dirtyInit' = FALSE
  <2>1. IsICW1(v) /\ ~IsOCW2(v)
    BY DEF ServiceICW1, IsICW1, IsOCW2
  <2>. QED  BY <2>1 DEF IInv, TypeOK, ServiceICW1, Command, WriteCommand
<1>2. Bit(v, 0) \in BOOLEAN
  BY DEF Bit
<1>3. pic' \in PICState
  BY <1>1, <1>2 DEF BeginInit, PICState, InitSteps
<1>4. pic'.isr = {} /\ UNCHANGED pic.base
  BY <1>1 DEF BeginInit, PICState
<1>. QED
  BY <1>1, <1>3, <1>4
  DEF IInv, TypeOK, NestingFollowsPriority, AutoEOINeverBlocks, CleanInit, BaseAligned

\* An OCW2 or OCW3 only ever removes lines from the in-service register.
LEMMA OCWShrinksISR ==
  ASSUME pic \in PICState, NEW v, ServiceEOI(v)
  PROVE  /\ pic' \in PICState
         /\ pic'.isr \subseteq pic.isr
         /\ UNCHANGED <<pic.base, pic.autoEOI, pic.initStep>>
<1>1. pic' = IF IsOCW2(v) THEN HandleOCW2(pic, v) ELSE pic
  BY DEF ServiceEOI, Command, WriteCommand
<1>2. CASE IsOCW2(v)
  <2> DEFINE left == CASE NonSpecificEOI(v) -> pic.isr \ Highest(pic.isr)
                       [] SpecificEOI(v)    -> pic.isr \ {v % 8}
                       [] OTHER             -> pic.isr
  <2>1. left \subseteq pic.isr
    <3>1. CASE NonSpecificEOI(v)
      <4>1. ~SpecificEOI(v)
        BY <3>1 DEF NonSpecificEOI, SpecificEOI
      <4>. QED  BY <3>1, <4>1
    <3>2. CASE ~NonSpecificEOI(v)
      BY <3>2
    <3>. QED  BY <3>1, <3>2
  <2>2. pic' = [pic EXCEPT !.isr = left]
    BY <1>1, <1>2 DEF HandleOCW2
  <2> HIDE DEF left
  <2>. QED  BY <2>1, <2>2 DEF PICState
<1>3. CASE ~IsOCW2(v)
  BY <1>1, <1>3
<1>. QED  BY <1>2, <1>3

\* Closing a service keeps the history of the others.
LEMMA EOIIInv ==
  ASSUME IInv, NEW v \in CommandBytes, ServiceEOI(v) PROVE IInv'
<1>1. /\ pic \in PICState
      /\ above' = above \cap (pic'.isr \X pic'.isr) /\ dirtyInit' = dirtyInit
  BY DEF IInv, TypeOK, ServiceEOI, StillOpen
<1>2. /\ pic' \in PICState /\ pic'.isr \subseteq pic.isr
      /\ UNCHANGED <<pic.base, pic.autoEOI, pic.initStep>>
  BY <1>1, OCWShrinksISR
<1>3. TypeOK'
  BY <1>1, <1>2 DEF IInv, TypeOK
<1>4. NestingFollowsPriority'
  <2>1. above = {pair \in pic.isr \X pic.isr : pair[1] < pair[2]}
    BY DEF IInv, NestingFollowsPriority
  <2>. QED  BY <2>1, <1>1, <1>2 DEF NestingFollowsPriority
<1>5. (AutoEOINeverBlocks /\ CleanInit /\ BaseAligned)'
  BY <1>1, <1>2 DEF IInv, AutoEOINeverBlocks, CleanInit, BaseAligned
<1>. QED  BY <1>3, <1>4, <1>5 DEF IInv

\* Clearing the low three bits of a byte gives a multiple of eight.
LEMMA LowBitsCleared ==
  ASSUME NEW v \in Byte
  PROVE  v - (v % 8) \in Byte /\ (v - (v % 8)) % 8 = 0 /\ v - (v % 8) <= 248
BY SMTT(30) DEF Byte

\* A write to the data port: the base, Auto-EOI or the mask.
LEMMA DataIInv ==
  ASSUME IInv, NEW v \in DataBytes, ServiceData(v) PROVE IInv'
<1>1. /\ pic \in PICState /\ pic' = WriteData(pic, v)
      /\ above' = above /\ dirtyInit' = dirtyInit
  BY DEF IInv, TypeOK, ServiceData, Data
<1>2. v \in Byte
  BY PICAssumption
<1>3. CASE pic.initStep = 2
  <2>1. pic' = SetBase(pic, v)
    BY <1>1, <1>3 DEF WriteData
  <2>2. /\ pic' \in PICState /\ pic'.base = v - (v % 8)
        /\ pic'.initStep \in InitSteps /\ UNCHANGED <<pic.isr, pic.autoEOI>>
    BY <1>1, <1>2, <2>1, LowBitsCleared, ZenonT(60) DEF SetBase, PICState, InitSteps
  <2>3. BaseAligned'
    BY <2>2, <1>2, LowBitsCleared DEF BaseAligned
  <2>. QED
    BY <1>1, <1>3, <2>2, <2>3
    DEF IInv, TypeOK, NestingFollowsPriority, AutoEOINeverBlocks, CleanInit
<1>4. CASE pic.initStep = 4
  <2>1. pic' = [pic EXCEPT !.autoEOI = Bit(v, 1), !.initStep = 0]
    BY <1>1, <1>4 DEF WriteData
  <2>2. /\ pic' \in PICState /\ pic'.initStep = 0 /\ UNCHANGED <<pic.isr, pic.base>>
    <3>1. Bit(v, 1) \in BOOLEAN
      BY DEF Bit
    <3>. QED  BY <1>1, <2>1, <3>1 DEF PICState, InitSteps
  <2>3. ~dirtyInit => pic.isr = {}
    BY <1>4 DEF IInv, CleanInit
  <2>. QED
    BY <1>1, <2>2, <2>3
    DEF IInv, TypeOK, NestingFollowsPriority, AutoEOINeverBlocks, CleanInit, BaseAligned
<1>5. CASE pic.initStep = 0
  <2>1. pic' = [pic EXCEPT !.imr = BitSet(v, NumLines)]
    BY <1>1, <1>5 DEF WriteData
  <2>2. pic' \in PICState /\ UNCHANGED <<pic.isr, pic.base, pic.autoEOI, pic.initStep>>
    BY <1>1, <2>1, BitSetOfLines DEF PICState
  <2>. QED
    BY <1>1, <2>2
    DEF IInv, TypeOK, NestingFollowsPriority, AutoEOINeverBlocks, CleanInit, BaseAligned
<1>. QED  BY <1>1, <1>3, <1>4, <1>5 DEF PICState, InitSteps

\* Every step, a stuttering one included, preserves the invariant.
LEMMA NextIInv == IInv /\ [ServiceNext]_vars => IInv'
<1> SUFFICES ASSUME IInv, [ServiceNext]_vars PROVE IInv'
  OBVIOUS
<1>1. CASE UNCHANGED vars
  BY <1>1 DEF vars, IInv, TypeOK, NestingFollowsPriority, AutoEOINeverBlocks, CleanInit,
     BaseAligned
<1>2. ASSUME NEW line \in Line, ServiceRaise(line) PROVE IInv'
  BY <1>2, RaiseIInv
<1>3. CASE ServiceINTA
  BY <1>3, INTAIInv
<1>4. ASSUME NEW v \in CommandBytes, ServiceICW1(v) PROVE IInv'
  BY <1>4, ICW1IInv
<1>5. ASSUME NEW v \in CommandBytes, ServiceEOI(v) PROVE IInv'
  BY <1>5, EOIIInv
<1>6. ASSUME NEW v \in DataBytes, ServiceData(v) PROVE IInv'
  BY <1>6, DataIInv
<1>. QED  BY <1>1, <1>2, <1>3, <1>4, <1>5, <1>6 DEF ServiceNext

\* The inductive invariant holds in every reachable state.
THEOREM Invariance == ServiceSpec => []IInv
BY InitIInv, NextIInv, PTL DEF ServiceSpec

\* Every variable keeps its type, whatever the host writes (device/pic.go).
THEOREM TypeCorrect == ServiceSpec => []TypeOK
<1>1. IInv => TypeOK
  BY DEF IInv
<1>. QED  BY <1>1, Invariance, PTL

\* Services nest in the order of their priorities (highestPending, Acknowledge
\* and handleOCW2, pic.go:58-94 and 142-154).
THEOREM PriorityNesting == ServiceSpec => []NestingFollowsPriority
<1>1. IInv => NestingFollowsPriority
  BY DEF IInv
<1>. QED  BY <1>1, Invariance, PTL

\* Auto-EOI leaves no line blocked unless an interrupt was taken in the middle
\* of the initialization sequence (pic.go:65-67 and 133-135).
THEOREM AutoEOISafe == ServiceSpec => []AutoEOINeverBlocks
<1>1. IInv => AutoEOINeverBlocks
  BY DEF IInv
<1>. QED  BY <1>1, Invariance, PTL

\* The vector an INTA cycle returns names its line (pic.go:68 and 126).
THEOREM VectorsNameLines == ServiceSpec => []VectorNamesLine
<1>1. ASSUME NEW b \in Byte, b % 8 = 0, b <= 248, NEW l \in 0 .. 7
      PROVE  b + l \in Byte /\ (b + l) % 8 = l
  BY <1>1, SMTT(30) DEF Byte
<1>2. IInv => VectorNamesLine
  <2> SUFFICES ASSUME IInv, NEW l \in Line
               PROVE  pic.base + l \in Byte /\ (pic.base + l) % 8 = l
    BY DEF VectorNamesLine
  <2>1. l \in 0 .. 7
    BY PICAssumption DEF Line
  <2>2. pic.base \in Byte
    BY DEF IInv, TypeOK, PICState
  <2>. QED  BY <1>1, <2>1, <2>2 DEF IInv, BaseAligned
<1>. QED  BY <1>2, Invariance, PTL

\* A non-specific EOI closes the service that was opened last (handleOCW2,
\* pic.go:144-150).
THEOREM EOIClosesLatest == ServiceSpec => EOIEndsLatestService
<1> DEFINE Latest ==
      \A v \in CommandBytes : NonSpecificEOI(v) /\ ServiceEOI(v) =>
        \A l \in pic.isr \ pic'.isr, k \in pic'.isr : <<l, k>> \in above
<1>1. IInv /\ [ServiceNext]_vars => [Latest]_vars
  <2> SUFFICES ASSUME IInv, NEW v \in CommandBytes, NonSpecificEOI(v), ServiceEOI(v),
                      NEW l \in pic.isr \ pic'.isr, NEW k \in pic'.isr
               PROVE  <<l, k>> \in above
    OBVIOUS
  <2>1. pic \in PICState /\ above = {pair \in pic.isr \X pic.isr : pair[1] < pair[2]}
    BY DEF IInv, TypeOK, NestingFollowsPriority
  <2>2. pic' = [pic EXCEPT !.isr = @ \ Highest(@)]
    BY DEF ServiceEOI, Command, WriteCommand, HandleOCW2, NonSpecificEOI, SpecificEOI
  <2>3. pic'.isr = pic.isr \ Highest(pic.isr)
    BY <2>1, <2>2 DEF PICState
  <2>4. l \in Highest(pic.isr) /\ k \in pic.isr /\ l # k
    BY <2>3
  <2>5. l < k
    BY <2>1, <2>4 DEF Highest, PICState, Line
  <2>. QED  BY <2>1, <2>4, <2>5 DEF Highest
<1>. QED  BY <1>1, Invariance, PTL DEF ServiceSpec, EOIEndsLatestService
=============================================================================
