SPECIFICATION FairSpec
CONSTANTS
  Protocols = {"auto", "tcp", "quic"}
  Endpoints = 2
  MaxConnections = 4
  MaxSessions = 2
INVARIANTS NeverIdle OneAttempt OneConnection
PROPERTY HandshakeEnds
CHECK_DEADLOCK FALSE
