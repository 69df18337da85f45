SPECIFICATION Spec
CONSTANTS
  HighWater = 2
  LimitFactor = 2
  TotalLimit = 4
  InboxLimit = 1
  Conn = {c1}
  Commands <- Chatter
  CastOctets = 1
  PeerFrames = {}
  MaxQueued = 5
  MaxPeer = 0
CHECK_DEADLOCK FALSE
INVARIANTS
  EndAfterPushed
