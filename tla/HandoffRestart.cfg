SPECIFICATION Spec
CONSTANTS
  Visitors = {"alice", "bob"}
  Endpoints = {}
  Proxies = {"ssh", "git", "web"}
  Kind <- TcpAndHttp
  Clock <- Same
  MaxPending = 2
  Lifetime = 1
  MaxTime = 1
  MaxDatagrams = 0
  MaxRestarts = 2
INVARIANTS ServedByOwnProxy ActiveNotUnder
CHECK_DEADLOCK FALSE
