CONSTANTS
  KeyMap <- MCKeyMap
  Radix = 256
  Columns = 2
  Rows = 1
  Cells = 4
  Base = 0
  MemSize = 8
  Capacity = 2
  ReadSize = 2
  Scenarios <- MCScenarios
SPECIFICATION Spec
INVARIANTS
  ShownCursorIsCurrent
CHECK_DEADLOCK FALSE
