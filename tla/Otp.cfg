CONSTANTS
  Words = 2
  Bits = {b1, b2}
SPECIFICATION OtpFairSpec
INVARIANTS
  AnswerIsTrue
  ReadsAreRight
PROPERTIES
  OnlyTheWordAskedFor
  Returns
