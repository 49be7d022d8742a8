SPECIFICATION Spec
CONSTANTS
  MAXCLUS = 5
  PerSector = 2
  ROOTN = 2
  DIRN = 1
  Setups <- GrowingSetups
INVARIANTS
  NamedAllocated
