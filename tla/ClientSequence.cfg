SPECIFICATION Spec
CONSTANTS
  Protocols = {"auto"}
  Endpoints = 1
  MaxConnections = 6
  MaxSessions = 1
PROPERTY TriesInSequence
CHECK_DEADLOCK FALSE
