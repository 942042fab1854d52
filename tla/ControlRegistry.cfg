SPECIFICATION Spec
CONSTANTS
  Clients = {"one"}
  ConfiguredNames <- NoneAndB
  Static <- StaticWeb
  ConfFiles <- ConfSsh
  AllowedClients <- Unnamed
  AllowedPorts = {1, 2}
  MaxSessions = 2
  MaxEdits = 2
INVARIANTS EndedHoldsNothing NameIsOwn ConfApplied LoginIsWatched
CHECK_DEADLOCK FALSE
