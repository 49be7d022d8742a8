SPECIFICATION MCSpec
CONSTANTS
  SBUFSZ = 2
  RX_LIMIT = 2
  Controls = {19200, 9600}
  MaxTx = 4
  MaxRx = 4
  MaxLen = 4
  MaxOther = 1
INVARIANTS
  TypeOK
  TxInOrder
  TxArmed
  RxAccounted
  RxFullReported
PROPERTIES
  NeverOverwritten
  BaudChangeSafe
  MaskKept
  AllSent
  CallsReturn
