SPECIFICATION Spec
CONSTANTS
  Sectors <- OneSector
  EOF = EOF
  Junk = Junk
  Names = {a}
  Streams = {f}
  SectorUnits = 2
  HeaderUnits = 1
  LenMod = 8
  FileCheck = TRUE
  Bad = Bad
  NoSector = NoSector
  FullSector = FullSector
  Faults = {"power", "transient"}
  Liberties = {"carryOn", "abandon", "reuse", "format"}
  MaxSessions = 2
  MaxUnits = 2
PROPERTIES LatchedIsInert
