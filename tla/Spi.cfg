SPECIFICATION FairSpec
CONSTANTS
  Requests <- AllLengths
  MaxLength = 5
  Width = 6
  Orc = Orc
  NoCall = NoCall
  MayAbort = TRUE
INVARIANTS
  InStep
PROPERTIES
  ImplementsTransaction
  TransferEnds
