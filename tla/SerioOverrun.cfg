SPECIFICATION Spec
CONSTANTS
  SBUFSZ = 2
  RX_LIMIT = 2
  Controls = {19200}
  MaxTx = 0
  MaxRx = 3
  MaxLen = 1
  MaxOther = 0
INVARIANTS
  OverrunReported
