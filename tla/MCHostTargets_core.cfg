SPECIFICATION FairSpec
CONSTANTS
  Server = {s1, s2}
  Thread = {t1, t2}
  Pull = {p1, p2}
  Indexes = 2
  MaxBatches = 1
ACTION_CONSTRAINT Cast
CHECK_DEADLOCK FALSE
INVARIANTS
  FreeIndexClean
  BoundEverywhere
PROPERTIES
  StoppedByOwn
  StopEnds
  PollNotStuck
