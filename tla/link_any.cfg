SPECIFICATION Spec
CONSTANTS
  NumChannels = 6
  ChunkSize = 2
  BufSize = 13
  LargeSize = 14
  SocketSpace = 18
  MaxPackets = 2
  Segmentation = "any"
  Sends <- WildSends
CHECK_DEADLOCK FALSE
INVARIANTS StaysInTable DeliveredMatches DataArrives ReturnsOnBoundary WholePackets StuckOnlyWhenCut
