SPECIFICATION FairSpec
CONSTANTS
  NoFrame = NoFrame
  MaxStarts = 5
  MaxFrames = 4
INVARIANTS
  TypeOK
  FrameIsWhole
  ReportedOnce
  CleanReceiver
  GhostOnly
  AwakeInService
PROPERTIES
  EveryoneIsAnswered
CHECK_DEADLOCK FALSE
