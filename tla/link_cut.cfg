SPECIFICATION Spec
CONSTANTS
  NumChannels = 6
  ChunkSize = 2
  BufSize = 12
  LargeSize = 13
  SocketSpace = 200
  MaxPackets = 1
  Segmentation = "any"
  Sends <- CutSends
CHECK_DEADLOCK FALSE
INVARIANTS NoReadPastEnd
