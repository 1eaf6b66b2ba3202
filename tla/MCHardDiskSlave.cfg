CONSTANTS
  Blocks = 3
  SectorSize = 2
  GeoHeads = 1
  GeoSectors = 2
  FullCount = 4
  LBASpace = 1073741824
  HasDisk = TRUE
  IdentifyBlock <- MCIdentifyBlock
  Tasks <- MCTasks
  CommandBytes <- MCCommandBytes
  WordValues <- MCWordValues
  InitialDisk <- MCInitialDisk
  MaxCommands = 2
SPECIFICATION Spec
INVARIANTS
  MasterReadsReady
CHECK_DEADLOCK FALSE
