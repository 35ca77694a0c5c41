CONSTANTS
  Hosts = {h1, h2}
  Slots = {0}
  None = None
  Initiators = {h1}
  LimitedHosts = {}
  Calls = {"send", "later"}
  EventModes = {TRUE}
  Checksum = TRUE
  MaxConnects = 2
  MaxSequence = 1
  MaxData = 2
  MaxAttempts = 1
  MaxCopies = 0
  MaxRestarts = 1
  NetCapacity = 2
SPECIFICATION Spec
INVARIANTS
  NoCrossTalk
  ApplicationKnows
  LaterDelivers
  QueuedOnce
CHECK_DEADLOCK FALSE
