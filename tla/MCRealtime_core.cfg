\* The table: three requests on two entries, one core and the next.  One connection with
\* every command and frame, and two that share the total.
SPECIFICATION RealtimeSpec
CONSTANTS
  Slot = {s1, s2, s3}
  Thread = {t1, t2}
  Entries = 2
  MaxCores = 1
  HighWater = 2
  LimitFactor = 2
  TotalLimit = 5
  InboxLimit = 1
  Conn = {c1, c2}
  Commands <- EveryCommand
  CastOctets = 1
  PeerFrames = {"data", "ping", "close", "bad"}
  MaxQueued = 3
  MaxQueuedOfTwo = 2
  MaxPeer = 1
SYMMETRY Symmetry
INVARIANTS
  FreeOnce StoppedClosed Accounted
  OctetsCounted OneClose KeptInOrder
PROPERTY
  IdsNameOnce
CHECK_DEADLOCK FALSE
