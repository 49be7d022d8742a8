SPECIFICATION FairSpec
CONSTANTS
  kBlockSize = 2
  Word = 2
  Blocks = 3
  SD_TRIES = 2
  SD_TIMEOUT = 2
  AddrSpace = 4
  EXE_MAXTOP = 3
  Patterns = 2
INVARIANTS
  TransfersRight
  BelowRom
PROPERTIES
  OnlyItsBlock
  CallsReturn
