CONSTANTS
  InitialWindow = 4
  UpdateThreshold = 2
  MaxMessageSize = 5
  MaxPendingReads = 2
  MaxPendingWrites = 2
  WriteSizes <- SplitWriteSizes
  ReadSizes <- SplitReadSizes
  MaxWrites <- SplitWrites
  MaxReads <- SplitReads
  Failures = FALSE
SPECIFICATION FairSpec
INVARIANTS TypeOK CreditConserved ReceiverBounded NoMutualWait
PROPERTIES WriteMeetsRead ClosedStreamRemoved
CHECK_DEADLOCK FALSE
