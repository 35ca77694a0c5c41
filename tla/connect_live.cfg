CONSTANTS
  Hosts = {h1, h2}
  Slots = {0}
  None = None
  Initiators = {h1}
  LimitedHosts = {}
  Calls = {"disconnect", "abort"}
  EventModes = {TRUE, FALSE}
  Checksum = FALSE
  MaxConnects = 1
  MaxSequence = 1
  MaxData = 1
  MaxAttempts = 2
  MaxCopies = 0
  MaxRestarts = 0
  NetCapacity = 2
SPECIFICATION FairSpec
INVARIANTS
  TellsItsEvents
PROPERTIES
  AttemptResolves
  DisconnectResolves
CHECK_DEADLOCK FALSE
