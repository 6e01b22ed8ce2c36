SPECIFICATION BenchSpec
CONSTANTS
  Sectors <- DataSectors
  EOF = EOF
  Junk = Junk
  Names <- AllNames
  Streams = {f}
  SectorUnits = 3
  HeaderUnits = 1
  LenMod = 32
  FileCheck = FALSE
  Bad = Bad
  NoSector = NoSector
  FullSector = FullSector
  Faults = {"transient"}
  Liberties = {"carryOn", "format"}
  MaxSessions = 12
  MaxUnits = 24
  Validate = "validate"
  PowerCycles = "powercycles"
  TestFile = "testfile"
  Tests <- FileNames
  ValidateUnits = 2
  HalfUnits = 1
  POWER_CYCLE_COUNT = 1
  MaxPeriod = 2
  StressUnits = {0, 1, 3}
  StressFiles = 2
  FillUnits = {1, 24}
  RandomUnits = {1, 2, 3, 6}
  RandomFiles = 2
  TEST_COUNT = 1
  RepeatCount = 2
INVARIANTS TestsPass ExitTellsTruth TearsDown
PROPERTIES Terminates
