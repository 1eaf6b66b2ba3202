CONSTANTS
  Radix = 2
  Channels = {2}
  Pages = 2
  Cylinders = 2
  Heads = 1
  Sectors = 2
  SectorSize = 2
  Commands <- MCCommands
  ResetBytes = {0, 12}
  Setups <- MCSetups
  InitialMem <- MCInitialMem
  InitialImage <- MCInitialImage
  MaxCommands = 2
  MaxTransfers = 2
  MaxResets = 2
  MaxSetups = 1
SPECIFICATION Spec
INVARIANTS
  TypeOK
  PhaseConsistent
  InterruptIsExplained
PROPERTIES
  ReadDelivers
  WriteStores
  ROMStaysAsLoaded
  CountAccountsForBytes
  ReturnsToIdle
CHECK_DEADLOCK FALSE
