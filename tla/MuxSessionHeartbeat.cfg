SPECIFICATION FairSpec
CONSTANTS
  IdSpace = 16
  HeartbeatPeriod = 2
  IdleLimit = 3
  MaxDelay = 1
  Faults <- SilentOrBroken
  Foreign <- NoFault
  MaxOpens <- None
  MaxSends <- None
  MaxTime = 6
INVARIANTS LiveConnectionKept SilenceEndsSession
PROPERTY PeerNoticesStop
CHECK_DEADLOCK FALSE
