SPECIFICATION FairSpec
CONSTANTS
  NumNodes = 3
  SeqMod = 2
  MaxTx = 7
  FrameLengths = {"whole"}
  OtherInitiators = TRUE
  StickyErrors = TRUE
INVARIANTS
  PollSchedule
  RunServesEveryNode
  RangeIsCoherent
PROPERTIES
  AcceptedFrameIsReceived
  ImplementsService
  PollLoopEnds
