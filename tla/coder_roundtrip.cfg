CONSTANTS
  Base = 4
  Alphabet = {0, 1, 3}
  MaxLength = 8
  MaxEmpty = 1
  PoolSize = 14
  CountMax = 9
SPECIFICATION Spec
INVARIANTS
  RoundTrip
  PoolSuffices
CHECK_DEADLOCK FALSE
