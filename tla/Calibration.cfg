CONSTANTS
  Loops = 3
  Bit <- MCBit
  MaxDelta = 3
  Samples = 2
  Noise = 1
  Temperatures <- MCTemperatures
  Targets <- MCTargets
  MaxOptions = 2
  MaxJobs = 2
  MaxDrifts = 1
SPECIFICATION Spec
INVARIANTS
  OptionsLast
  BestIsClosest

\* The numbers of calls are bounded.
CHECK_DEADLOCK FALSE
