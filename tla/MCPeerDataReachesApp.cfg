CONSTANTS
  MaxMessages = 2
  MaxUnread = 0
  BufCap = 1
SPECIFICATION Spec
INVARIANTS PeerDataReachesApp
CHECK_DEADLOCK FALSE
