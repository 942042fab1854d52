CONSTANTS
  InitialWindow = 2
  UpdateThreshold = 1
  MaxMessageSize = 5
  MaxPendingReads = 1
  MaxPendingWrites = 1
  WriteSizes <- DuplexWriteSizes
  ReadSizes <- DuplexReadSizes
  MaxWrites <- DuplexWrites
  MaxReads <- DuplexReads
  Failures = TRUE
SPECIFICATION Spec
INVARIANTS ReadsInOrder EofAfterLastByte
PROPERTY ImplementsByteStream
CHECK_DEADLOCK FALSE
