CONSTANTS
  Radix = 2
  Channels = {2}
  Pages = 2
  Cylinders = 2
  Heads = 1
  Sectors = 2
  SectorSize = 2
  Commands <- MCCommands
  ResetBytes = {0, 12}
  Setups <- MCSetups
  InitialMem <- MCInitialMem
  InitialImage <- MCInitialImage
  MaxCommands = 1
  MaxTransfers = 1
  MaxResets = 2
  MaxSetups = 1
SPECIFICATION Spec
PROPERTIES
  OnlyDriveZeroHasTheDisk
CHECK_DEADLOCK FALSE
