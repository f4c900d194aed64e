SPECIFICATION Spec
CONSTANTS
  MaxPeers = 3
  MaxFds = 2
  Feeds = {"whole", "cut", "bad"}
  Resets = TRUE
CHECK_DEADLOCK FALSE
INVARIANTS EventsAreLive
PROPERTIES AcceptedInTheEnd EndsNoticed
