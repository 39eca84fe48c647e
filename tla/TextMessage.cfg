SPECIFICATION Spec
CONSTANTS
  Chars = {c2, c4}
  MessageKey = c2
  NUL = NUL
  ChannelSize = 4
  BufSize = 3
  Padding = 2
  MaxTyped = 9
INVARIANTS
  CopyIsBounded
  TextIsWhole
CHECK_DEADLOCK FALSE
