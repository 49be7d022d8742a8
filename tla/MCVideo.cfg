CONSTANTS
  VC_WIDTH = 16
  VC_HEIGHT = 2
  VC_LINES = 3
  VC_MAX_LINE_SPRITES = 2
  VC_KEY_QUEUE = 2
  FontByte <- MCFont
  MaxEvents = 4
  MaxLines = 7
  MaxWrites = 3
  TargetW = 5
  TargetH = 4
SPECIFICATION Spec
INVARIANTS EventSeen InputFaithful WholeFrames DrawsExactly PictureOrdered
CHECK_DEADLOCK FALSE
