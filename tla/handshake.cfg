SPECIFICATION Spec
CONSTANTS
  HS = 4
  BufSize = 10
  Total = 14
  Versions = {3, 6}
  MaxSegment = 10
CHECK_DEADLOCK FALSE
INVARIANTS TypeOK EchoesBlock ParserGetsTheRest
PROPERTIES Finishes
