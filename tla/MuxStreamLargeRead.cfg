CONSTANTS
  InitialWindow = 4
  UpdateThreshold = 2
  MaxMessageSize = 5
  MaxPendingReads = 1
  MaxPendingWrites = 1
  WriteSizes <- SplitWriteSizes
  ReadSizes <- LargeReadSizes
  MaxWrites <- SplitWrites
  MaxReads <- SplitReads
  Failures = FALSE
SPECIFICATION FairSpec
PROPERTY WriteMeetsRead
CHECK_DEADLOCK FALSE
