SPECIFICATION FairSpec
CONSTANTS
  Kinds <- MCKinds
  Scripts <- MCScripts
  Answers <- MCAnswers
  MaxRequests = 3
  MaxPipelined = 2
  MaxServed = 4
  MaxSocket = 2
  MaxHolds = 1
INVARIANTS  BodiesCounted ClaimSettled UpgradeKeepsInput
PROPERTY ShutdownEnds
CHECK_DEADLOCK FALSE
