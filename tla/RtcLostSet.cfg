SPECIFICATION Spec
CONSTANTS
  Words = 2
  Base = 2
  Careful = FALSE
INVARIANTS
  ClockKept
