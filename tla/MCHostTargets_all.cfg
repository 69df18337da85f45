SPECIFICATION Spec
CONSTANTS
  Server = {s1}
  Thread = {t1, t2}
  Pull = {p1}
  Indexes = 2
  MaxBatches = 1
CHECK_DEADLOCK FALSE
INVARIANTS
  BindsAllOrNone
