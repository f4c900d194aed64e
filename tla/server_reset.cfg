SPECIFICATION Spec
CONSTANTS
  MaxPeers = 1
  MaxFds = 1
  Feeds = {"whole"}
  Resets = TRUE
CHECK_DEADLOCK FALSE
INVARIANTS ReadFits
