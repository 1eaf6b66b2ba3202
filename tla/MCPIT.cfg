CONSTANTS
  Radix = 2
  Counters = {0, 1}
  Strokes = {1, 3}
  ControlBytes <- MCControlBytes
  DataBytes = {0, 1}
  ReadCounters = {0}
  MaxElapsed = 6
SPECIFICATION Spec
INVARIANTS
  TypeOK
  SystemClockExact
  RefreshClockExact
PROPERTIES
  LatchedReadIsWhole
