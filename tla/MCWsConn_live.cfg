SPECIFICATION FairSpec
CONSTANTS
  HighWater = 2
  LimitFactor = 2
  TotalLimit = 4
  InboxLimit = 1
  Conn = {c1}
  Commands <- Chatter
  CastOctets = 1
  PeerFrames = {"ping", "close"}
  MaxQueued = 3
  MaxPeer = 1
CHECK_DEADLOCK FALSE
PROPERTIES
  EntriesTaken
  DrainReported
  ShutdownEnds
