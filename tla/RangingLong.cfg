SPECIFICATION Spec
CONSTANTS
  NumNodes = 3
  SeqMod = 3
  MaxTx = 4
  FrameLengths = {"whole", "long"}
  OtherInitiators = FALSE
  StickyErrors = FALSE
PROPERTIES
  AcceptedFrameIsReceived
