SPECIFICATION Spec
CONSTANTS
  HS = 3
  BufSize = 4
  Total = 10
  Versions = {3, 6}
  MaxSegment = 10
CHECK_DEADLOCK FALSE
INVARIANTS ParserGetsTheRest
