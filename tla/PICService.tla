----------------------------- MODULE PICService -----------------------------
(***************************************************************************)
(* The 8259 with the history its in-service register does not keep: in     *)
(* which order the services now open were opened, and whether one was      *)
(* opened in the middle of an initialization sequence.                     *)
(***************************************************************************)
EXTENDS PIC

VARIABLES
  above,     \* <<l, k>>: l was acknowledged while k was in service; both still are
  dirtyInit  \* an INTA cycle came between the last ICW1 and the end of its sequence

vars == <<pic, above, dirtyInit>>

ServiceInit ==
  /\ Init
  /\ above = {}
  /\ dirtyInit = FALSE

\* The pairs of which both services are still open.
StillOpen == above \cap (pic'.isr \X pic'.isr)

ServiceRaise(line) ==
  /\ Raise(line)
  /\ UNCHANGED <<above, dirtyInit>>

ServiceINTA ==
  /\ INTA
  /\ above' = above \cup ((pic'.isr \ pic.isr) \X pic.isr)
  /\ dirtyInit' = (dirtyInit \/ pic.initStep # 0)

ServiceICW1(v) ==
  /\ IsICW1(v)
  /\ Command(v)
  /\ above' = {}
  /\ dirtyInit' = FALSE

ServiceEOI(v) ==
  /\ ~IsICW1(v)
  /\ Command(v)
  /\ above' = StillOpen
  /\ UNCHANGED dirtyInit

ServiceData(v) ==
  /\ Data(v)
  /\ UNCHANGED <<above, dirtyInit>>

ServiceNext ==
  \/ \E line \in Line : ServiceRaise(line)
  \/ ServiceINTA
  \/ \E v \in CommandBytes : ServiceICW1(v) \/ ServiceEOI(v)
  \/ \E v \in DataBytes : ServiceData(v)

ServiceSpec == ServiceInit /\ [][ServiceNext]_vars

-----------------------------------------------------------------------------
\* Every variable has its type.
TypeOK ==
  /\ pic \in PICState
  /\ above \subseteq Line \X Line
  /\ dirtyInit \in BOOLEAN

\* The order in which open services were acknowledged is the order of their
\* priorities: whatever sequence of requests, masks and end-of-interrupts the
\* chip went through, of two lines in service the one of higher priority was
\* acknowledged later (highestPending, pic.go:71-94).
NestingFollowsPriority ==
  above = {pair \in pic.isr \X pic.isr : pair[1] < pair[2]}

\* A non-specific EOI, which the chip resolves by priority alone, closes the
\* service that was opened last: the one the running handler belongs to, since
\* handlers return in the opposite order (handleOCW2, pic.go:144-151).
EOIEndsLatestService ==
  [][\A v \in CommandBytes : NonSpecificEOI(v) /\ ServiceEOI(v) =>
       \A l \in pic.isr \ pic'.isr, k \in pic'.isr : <<l, k>> \in above]_vars

\* In Auto-EOI mode no line can stay blocked by a service nobody will close,
\* provided no interrupt was taken between ICW1 and the end of the sequence
\* (Acknowledge, pic.go:66; ICW4, pic.go:133-135).
AutoEOINeverBlocks ==
  pic.autoEOI /\ ~dirtyInit => pic.isr = {}

\* The vector names its line in every state: the low three bits of the base
\* are zero, so that no two lines share a vector and no sum overflows a byte
\* (ICW2, pic.go:124; Acknowledge, pic.go:68).
VectorNamesLine ==
  \A l \in Line : pic.base + l \in Byte /\ (pic.base + l) % 8 = l
=============================================================================
