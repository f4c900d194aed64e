SPECIFICATION Spec
CONSTANTS
  Granu = 5
  Extra = 2
  MaxBytes = 14
  Buffers = {w1, w2}
  Capacities = {1, 2}
  Data <- SmallData
  MaxDoublings = 4
  MaxLength = 7
CHECK_DEADLOCK FALSE
INVARIANTS BuffersFit
PROPERTIES BuffersAreLogs
