SPECIFICATION Spec
CONSTANTS
  MAXCLUS = 5
  PerSector = 2
  ROOTN = 2
  DIRN = 1
  Setups <- MCSetups
INVARIANTS
  TypeOK
  DiskSound
  OpenFilesApart
  NoLeak
  CopiesAgree
PROPERTIES
  Durable
