SPECIFICATION Spec
CONSTANTS
  Kinds <- MCKinds
  Scripts <- MCStall
  Answers <- MCAnswers
  MaxRequests = 2
  MaxPipelined = 2
  MaxServed = 4
  MaxSocket = 2
  MaxHolds = 1
INVARIANT StalledReads
CHECK_DEADLOCK FALSE
