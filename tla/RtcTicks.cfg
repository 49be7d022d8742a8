SPECIFICATION FairSpec
CONSTANTS
  Words = 2
  Base = 3
  Careful = TRUE
INVARIANTS
  ClockKept
  ReadWhole
PROPERTIES
  SetAnswered
