CONSTANTS
  VC_WIDTH = 16
  VC_HEIGHT = 2
  VC_LINES = 3
  VC_MAX_LINE_SPRITES = 2
  VC_KEY_QUEUE = 6
  FontByte <- MCFont
  mem_size = 8
  Word = 1073741824
  ReadSize = 5
  UpSize = 8
  DownSize = 1
  FramePieces = 1
  PortSize = 2
  RxLimit = 2
  MaxEvents = 3
  MaxFrames = 2
  MaxWrites = 1
  MaxBytes = 3
SPECIFICATION Spec
INVARIANTS InsideMemory
CHECK_DEADLOCK FALSE
