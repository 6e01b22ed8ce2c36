SPECIFICATION Spec
CONSTANTS
  Sectors <- ThreeSectors
  EOF = EOF
  Junk = Junk
  Names = {a, b}
  Streams = {f}
  SectorUnits = 2
  HeaderUnits = 1
  LenMod = 8
  FileCheck = TRUE
  Bad = Bad
  NoSector = NoSector
  FullSector = FullSector
  Faults = {"transient"}
  Liberties = {}
  MaxSessions = 2
  MaxUnits = 2
INVARIANTS FatIndexed
