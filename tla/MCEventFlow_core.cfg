\* One connection, batches of two, one in flight, a target that can lag and leave.
SPECIFICATION FlowFairSpec
CONSTANTS
  Peer = {c1}
  Batch = 2
  InFlight = 1
  Queued = 1
  MaxPending = 2
  HalfBudget = 1
  Capacity = 1
  MaxInputs = 2
INVARIANTS
  EventsInOrder
  LedgerSound
  HeldBounded
PROPERTIES
  EventsHandedOver
  DrainFinishes
CHECK_DEADLOCK FALSE
