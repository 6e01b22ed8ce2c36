SPECIFICATION Spec
CONSTANTS
  Sectors <- TwoSectors
  EOF = EOF
  Junk = Junk
  Names = {a, b}
  Streams = {f}
  SectorUnits = 2
  HeaderUnits = 1
  LenMod = 8
  FileCheck = TRUE
  Bad = Bad
  NoSector = NoSector
  FullSector = FullSector
  Faults = {}
  Liberties = {"carryOn"}
  MaxSessions = 2
  MaxUnits = 3
INVARIANTS InRange
