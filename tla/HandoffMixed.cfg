SPECIFICATION Spec
CONSTANTS
  Visitors = {"alice", "bob"}
  Endpoints = {"e1"}
  Proxies = {"ssh", "dns"}
  Kind <- TcpAndUdp
  Clock <- Ordered
  MaxPending = 2
  Lifetime = 1
  MaxTime = 2
  MaxDatagrams = 2
  MaxRestarts = 0
INVARIANTS PendingWithinLimit QueueCoversPending WaitingIsPending
PROPERTY CleanupIsComplete
CHECK_DEADLOCK FALSE
