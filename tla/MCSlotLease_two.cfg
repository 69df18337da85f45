\* Two threads on one slot, and targets that change hands.
SPECIFICATION Spec
CONSTANTS
  Scenes <- TwoThreads
  Slot = {s1}
  Thread = {t1, t2}
  None = None
  CallOps = {"view", "write", "body_alloc", "complete"}
  GenMask = 2
  MaxReaders = 2
  BatchSize = 1
  MaxPins = 1
  MaxRequests = 2
  MaxEpoch = 2
  MaxEra = 3
CONSTRAINT InScene
SYMMETRY Symmetry
INVARIANTS ViewFrozen LockedAccessOwn RegionOwned
PROPERTY AckedByBound
