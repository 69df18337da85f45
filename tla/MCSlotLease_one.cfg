\* One thread: reading one slot, and completing two in batches.
SPECIFICATION Spec
CONSTANTS
  Scenes <- OneThread
  Slot = {s1, s2}
  Thread = {t1}
  None = None
  CallOps = {"view", "values", "pinned_read", "complete"}
  GenMask = 3
  MaxReaders = 2
  BatchSize = 2
  MaxPins = 1
  MaxRequests = 3
  MaxEpoch = 2
  MaxEra = 3
CONSTRAINT InScene
SYMMETRY Symmetry
INVARIANTS TypeOK SnapshotOwn IndexOnce EpochOrder
PROPERTY FloorAdvances
