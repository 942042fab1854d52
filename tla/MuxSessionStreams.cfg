SPECIFICATION Spec
CONSTANTS
  IdSpace = 16
  HeartbeatPeriod = 1
  IdleLimit = 1
  MaxDelay = 0
  Faults <- NoFault
  Foreign <- GoAway
  MaxOpens <- EachOpensOne
  MaxSends <- ClientSendsOne
  MaxTime = 0
INVARIANTS TypeOK QueueHasWriter IdsAreFresh SynComesFirst StopReachesEveryStream
CHECK_DEADLOCK FALSE
