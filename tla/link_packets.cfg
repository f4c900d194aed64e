SPECIFICATION Spec
CONSTANTS
  NumChannels = 6
  ChunkSize = 2
  BufSize = 40
  LargeSize = 48
  SocketSpace = 200
  MaxPackets = 3
  Segmentation = "packets"
  Sends <- Replies
CHECK_DEADLOCK FALSE
INVARIANTS TypeOK NeverStuck TablesAgree
PROPERTIES Refines
