SPECIFICATION Spec
CONSTANTS
  Byte = {0, 1}
  SBUFSZ = 3
INVARIANTS
  TypeOK
  HeadAgrees
PROPERTY
  IsBoundedQueue
