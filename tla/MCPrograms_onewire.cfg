SPECIFICATION ProgramSpec
CONSTANTS
  SectorBytes = 2
  FatEntries = 2
  DirEntries = 1
  NameLen = 2
  ExtLen = 1
  FAT32_MIN = 8
  BTR = 2
  MaxErrors = 1
  Disks <- MCDisks
  Cards <- MCCards
  Paths <- MCPaths
  Causes <- MCCauses
  DataBlock <- MCDataBlock
  StackTop = 5
  StackBase = 32
  StackSize = 40
  MaxPolls = 2
  MaxIrqs = 1
  RomBits = 4
  FamilyBits = 2
  BusDevices <- MCBusDevices
  MaxUnplugs = 1
  MaxCalls = 2
  Configurations <- MCConfigurations
  Cores <- MCCores
  CounterSize = 4096
  instLoop = 2
  instCalls = 16
  MaxCycles = 2
  LoopCycles = 1
  NUM_TEST_CASES = 2
  Switches <- MCSwitches
INVARIANTS
  ScanFindsAll
CHECK_DEADLOCK FALSE
