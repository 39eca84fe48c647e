SPECIFICATION Spec
CONSTANTS
  NumNodes = 3
  SeqMod = 3
  MaxTx = 4
  FrameLengths = {"whole"}
  OtherInitiators = FALSE
  StickyErrors = FALSE
INVARIANTS
  PrintedRangeIsOfNode
