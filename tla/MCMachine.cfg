CONSTANTS
  Radix = 8
  Counters = {0, 1}
  Channels = {0, 1}
  Pages = 1
  NumLines = 2
  KbReloadDelay = 25
  TimerCycles = 2
  Switches = 48
  Software <- MCSoftware
SPECIFICATION Spec
INVARIANTS
  TypeOK
  KeysTakenInOrder
  NoNestedINT9
PROPERTIES
  NoTickLost
  EveryKeyTaken
  MainProgramRuns
  RefreshIsSeen
