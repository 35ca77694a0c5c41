SPECIFICATION Spec
CONSTANTS
  Modulus = 64
  Overflow = 32
  Low = 4
  Commands = {c1, c2}
  TimeoutLimit = 2
  TimeoutMinimum = 5
  TimeoutMaximum = 6
  DefaultRoundTripTime = 1
  Pauses = {2, 3}
  Lifetime = 3
  MaxUnserved = 3
  MaxUnanswered = 60
INVARIANTS
  NextTimeoutIsDue
  EchoTellsTime
  GivenUpInTime
PROPERTIES
  GivesUpForCause
SYMMETRY Symmetry
