CONSTANTS
  Radix = 2
  Counters = {0}
  Strokes = {3}
  ControlBytes <- MCControlBytes
  DataBytes = {0, 1}
  ReadCounters = {}
  MaxElapsed = 6
SPECIFICATION Spec
INVARIANTS
  IRQ0AtEveryTerminalCount
