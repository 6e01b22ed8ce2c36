SPECIFICATION MCSpec
CONSTANTS
  Sectors <- DataSectors
  EOF = 12
  Junk = Junk
  sectors = 10
  tableSectors = 3
  WordBits = 8
  ByteBits = 2
  CRC32_POLY = {0, 1, 2}
  MaxBytes = 5
  Chars = {x, y}
  TRACE_BUFFER_SIZE = 5
  MessageSize = 3
INVARIANTS TypeOK FreesChain CommitsChain FindsEmpty ScansAll ChecksumKept
INVARIANTS IsRemainder BurstsDetected BlankRefused TraceInOrder
PROPERTIES LoopsEnd
